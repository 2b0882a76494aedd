-------------------------- MODULE EmailWorkerProofs --------------------------
(***************************************************************************)
(* Proofs about the two parts of the e-mail worker.                        *)
(*                                                                         *)
(* EmailTasks, for any workspaces, numbers of mails and crashes: who works *)
(* where, who holds a lock, and what an approval has led to.               *)
(*                                                                         *)
(* GitHubHandoff, for any number of events, issues, calls, failures and    *)
(* crashes, and however short the stored lists are cut: an event is posted *)
(* once on an issue at most, and none is lost in silence.                  *)
(***************************************************************************)
EXTENDS EmailTasks, GitHubHandoff, FiniteSetTheorems, TLAPS

\* Every set of numbers that is not empty has a least element, and Min is it.
LEMMA MinIsLeast ==
  ASSUME NEW S \in SUBSET Nat, S # {}
  PROVE  /\ Min(S) \in S
         /\ \A y \in S : Min(S) <= y
<1> DEFINE Below == {0..x : x \in S}
           R     == StrictSubsetOrdering(Nat)
<1>1. Below \subseteq FiniteSubsetsOf(Nat) /\ Below # {}
  <2>1. \A x \in S : 0..x \in SUBSET Nat /\ IsFiniteSet(0..x)
    BY FS_Interval
  <2> QED BY <2>1 DEF FiniteSubsetsOf
<1>2. \E B \in Below : \A C \in Below : <<C, B>> \notin R
  <2> HIDE DEF Below, R
  <2> QED BY <1>1, FS_StrictSubsetOrderingWellFounded, WFMin DEF R
<1>3. PICK x \in S : \A y \in S : <<0..y, 0..x>> \notin R
  BY <1>2
<1>4. \A y \in S : x <= y
  <2> SUFFICES ASSUME NEW y \in S, y < x PROVE FALSE
      OBVIOUS
  <2>1. 0..y \subseteq 0..x /\ x \in 0..x /\ x \notin 0..y
    OBVIOUS
  <2>2. 0..y \in SUBSET Nat /\ 0..x \in SUBSET Nat
    OBVIOUS
  <2> QED BY <1>3, <2>1, <2>2 DEF StrictSubsetOrdering
<1> QED BY <1>4 DEF Min

-----------------------------------------------------------------------------
(* The invariant of the tasks *)

\* what a task's record says of it: whether it is in the queue, where it works, who let it
Records ==
    \A t \in Tasks :
        /\ status[t] = "absent" <=> t \notin Queue
        /\ status[t] \notin {"absent", "queued"} => workspaceOf[t] \in Workspaces
        /\ status[t] \in Working \cup {"blocked", "done"} => approval[t] = "approved"

\* the task that the rest of a handler is about
InHand == FoundTask(inbox[Current])

\* what the rest of a handler relies on
Handlers ==
    /\ cont \in {"mark", "answer", "abort", "start", "control", "finalize"}
          => driver = "polling" /\ todo # {}
    /\ cont = "confirm" => driver = "confirming"
    /\ cont \in {"start", "control", "finalize"} => TasksOfThread(inbox[Current]) # {}
    /\ cont = "start" => status[InHand] = "waiting_confirmation" /\ approval[InHand] = "approved"
    /\ cont = "control" => status[InHand] = "active"
    /\ cont = "finalize" => status[InHand] = "finalizing"

\* who holds a workspace
Locks ==
    /\ NoLeakedLock
    /\ \A t \in Tasks : status[t] \in Working => Owns(t) \/ workspaceOf[t] \in displaced

\* a task that waits for its confirmation waits for a free workspace, until a crash
Confirmations ==
    /\ OneConfirmationPerWorkspace
    /\ crashes = 0 => /\ displaced = {}
                      /\ driver = "down" => created = 0
                      /\ \A t \in Tasks : status[t] = "waiting_confirmation" =>
                            /\ locks[workspaceOf[t]] = 0
                            /\ approval[t] = "approved" => cont = "start" /\ t = InHand

IInv == TypeOK /\ Records /\ Handlers /\ Locks /\ Confirmations

-----------------------------------------------------------------------------
(* Facts about the operators of the queue *)

LEMMA QueueIsTasks ==
  ASSUME TypeOK
  PROVE  /\ Queue \subseteq Tasks /\ Tasks \subseteq Nat \ {0} /\ created \in Nat
         /\ \A t \in Tasks : t \in Queue <=> t <= created
<1>1. MaxNew + MaxCrashes \in Nat
  BY EmailAssumption
<1> QED BY <1>1 DEF TypeOK, Queue, Tasks

LEMMA CurrentIsMail ==
  ASSUME TypeOK, todo # {}
  PROVE  Current \in todo /\ Current \in 1..Len(inbox) /\ inbox[Current] \in Mails
<1>1. todo \in SUBSET Nat
  BY DEF TypeOK
<1>2. Current \in todo
  BY <1>1, MinIsLeast DEF Current
<1> QED BY <1>2 DEF TypeOK

LEMMA FoundIsQueued ==
  ASSUME TypeOK, NEW m, TasksOfThread(m) # {}
  PROVE  FoundTask(m) \in Queue /\ FoundTask(m) \in Tasks /\ FoundTask(m) \in TasksOfThread(m)
<1>1. TasksOfThread(m) \in SUBSET Nat
  BY QueueIsTasks DEF TasksOfThread
<1>2. FoundTask(m) \in TasksOfThread(m)
  BY <1>1, MinIsLeast DEF FoundTask
<1> QED BY <1>2, QueueIsTasks DEF TasksOfThread

\* a task that may be asked about: queued, in a free workspace where nobody else waits
LEMMA ConfirmableIsFree ==
  ASSUME TypeOK, NEW t \in Confirmable
  PROVE  /\ t \in Queue /\ t \in Tasks /\ status[t] = "queued"
         /\ workspaceOf[t] \in Workspaces /\ locks[workspaceOf[t]] = 0
         /\ NoneWaiting(workspaceOf[t])
<1>1. PICK w \in Workspaces : /\ locks[w] = 0 /\ NoneWaiting(w) /\ Candidates(w) # {}
                              /\ t = Min(Candidates(w))
  BY DEF Confirmable
<1>2. Candidates(w) \in SUBSET Nat
  BY QueueIsTasks DEF Candidates
<1>3. t \in Candidates(w)
  BY <1>1, <1>2, MinIsLeast
<1> QED BY <1>1, <1>3, QueueIsTasks DEF Candidates

\* a rebuilt lock belongs to a task of the workspace
LEMMA RebuiltIsOwned ==
  ASSUME TypeOK
  PROVE  /\ RebuiltLocks \in [Workspaces -> 0..created]
         /\ \A w \in Workspaces : RebuiltLocks[w] # 0 =>
               workspaceOf[RebuiltLocks[w]] = w /\ status[RebuiltLocks[w]] \in Locking
<1> DEFINE Owners(w) == {t \in Queue : workspaceOf[t] = w /\ status[t] \in Locking}
<1>1. \A w \in Workspaces : RebuiltLocks[w] = IF Owners(w) = {} THEN 0 ELSE Min(Owners(w))
  BY DEF RebuiltLocks
<1>2. \A w \in Workspaces : Owners(w) # {} => Min(Owners(w)) \in Owners(w)
  <2> SUFFICES ASSUME NEW w \in Workspaces, Owners(w) # {} PROVE Min(Owners(w)) \in Owners(w)
      OBVIOUS
  <2>1. Owners(w) \in SUBSET Nat
    BY QueueIsTasks
  <2> HIDE DEF Owners
  <2> QED BY <2>1, MinIsLeast
<1>3. Queue \subseteq 0..created /\ 0 \in 0..created
  BY QueueIsTasks DEF Queue
<1>4. RebuiltLocks = [w \in Workspaces |-> RebuiltLocks[w]]
  BY DEF RebuiltLocks
<1> QED BY <1>1, <1>2, <1>3, <1>4

-----------------------------------------------------------------------------
(* Initial states *)

LEMMA InitInvariant == Init => IInv
<1> SUFFICES ASSUME Init PROVE IInv
    OBVIOUS
<1>1. TypeOK
  BY EmailAssumption DEF Init, TypeOK, Statuses, Approvals, Mails, Queue
<1>2. Records
  BY QueueIsTasks, <1>1 DEF Init, Records, Working, Queue
<1>3. Handlers /\ Locks /\ Confirmations
  BY DEF Init, Handlers, Locks, NoLeakedLock, Confirmations, OneConfirmationPerWorkspace,
     Queue, Working
<1> QED BY <1>1, <1>2, <1>3 DEF IInv

-----------------------------------------------------------------------------
(* Steps *)

coreVars == <<recordVars, locks, displaced, crashes>>

LEMMA CoreStays ==
  ASSUME IInv, UNCHANGED coreVars
  PROVE  Records' /\ Locks'
  BY DEF IInv, coreVars, recordVars, Records, Locks, NoLeakedLock, Owns, Queue

\* The mail in hand is the same as long as no poll starts or ends and no mail is handled.
LEMMA InHandStays ==
  ASSUME UNCHANGED <<threadOf, created, inbox, todo>>
  PROVE  /\ Current' = Current /\ InHand' = InHand
         /\ TasksOfThread(inbox[Current])' = TasksOfThread(inbox[Current])
  BY DEF InHand, FoundTask, Current, TasksOfThread, Queue

\* The user's mails and time.
LEMMA UserInvariant ==
  ASSUME IInv, User \/ \E t \in Tasks : ConfirmationAges(t)
  PROVE  IInv'
<1>1. UNCHANGED <<coreVars, agentVars, todo, cont, driver, seen>>
  BY DEF User, SendTask, SendReply, ConfirmationAges, coreVars, recordVars, agentVars, crashVars,
     mailVars
<1>2. /\ inbox' = inbox \/ (MailArrives /\ \E m \in Mails : inbox' = Append(inbox, m))
      /\ asked' \in [Tasks -> {"none", "start", "final"}] /\ aged' \in [Tasks -> BOOLEAN]
  <2>1. ASSUME NEW w \in Workspaces \cup {NoWorkspace}, SendTask(w)
        PROVE  <1>2
    BY <2>1 DEF SendTask, IInv, TypeOK, Mails, userVars
  <2>2. ASSUME NEW t \in Tasks, NEW kind \in Controls \cup {"text"},
               NEW w \in Workspaces \cup {NoWorkspace}, SendReply(t, kind, w)
        PROVE  <1>2
    <3>1. [kind |-> kind, thread |-> threadOf[t], names |-> w, answers |-> asked[t]] \in Mails
      BY DEF IInv, TypeOK, Mails
    <3> QED BY <2>2, <3>1 DEF SendReply, userVars, IInv, TypeOK
  <2>3. ASSUME NEW t \in Tasks, ConfirmationAges(t)
        PROVE  <1>2
    BY <2>3 DEF ConfirmationAges, IInv, TypeOK, mailVars
  <2> QED BY <2>1, <2>2, <2>3 DEF User
<1>3. TypeOK'
  <2>1. inbox' \in Seq(Mails) /\ Len(inbox) \in Nat /\ Len(inbox') \in Nat
      /\ Len(inbox) <= Len(inbox')
    <3>1. inbox \in Seq(Mails)
      BY DEF IInv, TypeOK
    <3> QED BY <1>2, <3>1
  <2>2. 0..Len(inbox) \subseteq 0..Len(inbox') /\ 1..Len(inbox) \subseteq 1..Len(inbox')
    BY <2>1
  <2> QED BY <1>1, <1>2, <2>1, <2>2 DEF IInv, TypeOK, coreVars, recordVars, agentVars, Queue
<1>4. Records' /\ Locks'
  BY <1>1, CoreStays
<1>5. inbox' # inbox => cont \notin {"mark", "answer", "abort", "start", "control", "finalize"}
  BY <1>2 DEF MailArrives, IInv, Handlers
<1>6. Handlers' /\ Confirmations'
  <2>1. CASE inbox' = inbox
    BY <1>1, <2>1, InHandStays DEF IInv, Handlers, Confirmations, OneConfirmationPerWorkspace,
       coreVars, recordVars, Queue
  <2>2. CASE inbox' # inbox
    BY <1>1, <1>5, <2>2 DEF IInv, Handlers, Confirmations, OneConfirmationPerWorkspace,
       coreVars, recordVars, Queue
  <2> QED BY <2>1, <2>2
<1> QED BY <1>3, <1>4, <1>6 DEF IInv

\* The driver goes on: a poll starts, a mail is marked as processed, a poll or a recovery ends.
LEMMA DriverInvariant ==
  ASSUME IInv, PollStarts \/ PollEnds \/ RecoverEnds \/ MarkProcessed
  PROVE  IInv'
<1>1. /\ UNCHANGED <<coreVars, userVars, agentVars, inbox>>
      /\ driver # "down" /\ driver' # "down" /\ cont # "start" /\ cont' = "none"
  BY DEF IInv, TypeOK, Handlers, PollStarts, PollEnds, RecoverEnds, MarkProcessed, coreVars,
     recordVars, crashVars, mailVars
<1>2. TypeOK'
  <2>1. MarkProcessed => seen' \subseteq 1..Len(inbox)
    BY CurrentIsMail DEF MarkProcessed, IInv, TypeOK, Handlers
  <2> QED BY <1>1, <2>1 DEF IInv, TypeOK, PollStarts, PollEnds, RecoverEnds, MarkProcessed,
             coreVars, recordVars, userVars, agentVars, mailVars, Queue
<1>3. Records' /\ Locks'
  BY <1>1, CoreStays
<1>4. Handlers'
  BY <1>1 DEF Handlers
<1>5. Confirmations'
  BY <1>1 DEF IInv, Confirmations, OneConfirmationPerWorkspace, coreVars, recordVars, Queue
<1> QED BY <1>2, <1>3, <1>4, <1>5 DEF IInv

\* A mail opens a task.
LEMMA NewTaskInvariant ==
  ASSUME IInv, NEW m, NewTask(m)
  PROVE  IInv'
<1> DEFINE n == created + 1
<1>1. /\ n \in Tasks /\ n \notin Queue /\ created' = n
      /\ Queue' = Queue \cup {n}
  BY QueueIsTasks DEF NewTask, IInv, Queue
<1>2. status[n] = "absent"
  BY <1>1 DEF IInv, Records
<1>3. m \in Mails /\ todo # {} /\ Current \in 1..Len(inbox)
  BY CurrentIsMail DEF NewTask, Handles, IInv
<1>4. /\ status' = [status EXCEPT ![n] = "queued"]
      /\ workspaceOf' = [workspaceOf EXCEPT ![n] = m.names]
      /\ threadOf' = [threadOf EXCEPT ![n] = Current]
      /\ cont' \in {"answer", "mark"}
      /\ UNCHANGED <<approval, locks, asked, agentVars, mailVars, aged, driver, todo, crashVars>>
      /\ driver = "polling"
  BY <1>1 DEF NewTask, handlerFrame, Handles
<1>5. \A w \in Workspaces : locks[w] # n
  BY <1>1, QueueIsTasks DEF IInv, TypeOK, Queue
<1> HIDE DEF n
<1>6. TypeOK'
  <2>1. locks \in [Workspaces -> 0..created']
    BY <1>1, QueueIsTasks DEF IInv, TypeOK, n
  <2>2. m.names \in Workspaces \cup {NoWorkspace}
    BY <1>3 DEF Mails
  <2>3. controllers \subseteq {t \in Queue' : status'[t] \in Locking}
    BY <1>1, <1>2, <1>4, QueueIsTasks DEF IInv, TypeOK, Locking, Working
  <2> QED BY <1>1, <1>3, <1>4, <2>1, <2>2, <2>3 DEF IInv, TypeOK, Statuses, agentVars,
             mailVars, crashVars
<1>7. Records'
  BY <1>1, <1>2, <1>4 DEF IInv, TypeOK, Records, Working
<1>8. Handlers'
  BY <1>4 DEF Handlers, NewTask, Handles
<1>9. Locks'
  BY <1>1, <1>2, <1>4, <1>5, QueueIsTasks DEF IInv, TypeOK, Locks, NoLeakedLock, Owns,
     Working, Locking, crashVars
<1>10. Confirmations'
  <2>1. cont = "none"
    BY DEF NewTask, Handles
  <2>2. OneConfirmationPerWorkspace'
    <3> SUFFICES ASSUME NEW t \in Queue', NEW u \in Queue',
                        status'[t] = "waiting_confirmation", status'[u] = "waiting_confirmation",
                        workspaceOf'[t] = workspaceOf'[u]
                 PROVE  t = u
        BY DEF OneConfirmationPerWorkspace
    <3>1. Queue' \subseteq Tasks /\ Queue \subseteq Tasks
      BY <1>1, QueueIsTasks DEF IInv
    <3>2. t # n /\ u # n /\ t \in Queue /\ u \in Queue
      BY <1>1, <1>4, <3>1 DEF IInv, TypeOK
    <3> QED BY <1>4, <3>1, <3>2 DEF IInv, TypeOK, Confirmations, OneConfirmationPerWorkspace
  <2>3. crashes' = 0 => /\ displaced' = {} /\ driver' # "down"
                        /\ \A t \in Tasks : status'[t] = "waiting_confirmation" =>
                              locks'[workspaceOf'[t]] = 0 /\ approval'[t] # "approved"
    BY <1>1, <1>2, <1>4, <2>1 DEF IInv, TypeOK, Confirmations, crashVars
  <2> QED BY <2>2, <2>3 DEF Confirmations
<1> QED BY <1>6, <1>7, <1>8, <1>9, <1>10 DEF IInv

-----------------------------------------------------------------------------
(* Replies *)

\* a reply is about the task in hand
LEMMA ReplyInHand ==
  ASSUME IInv, NEW m, NEW t, NEW S, Replies(m, t, S)
  PROVE  /\ t = InHand /\ t \in Queue /\ t \in Tasks /\ status[t] \in S
         /\ TasksOfThread(inbox[Current]) # {}
         /\ cont = "none" /\ driver = "polling" /\ todo # {} /\ m \in Mails
  BY FoundIsQueued, CurrentIsMail DEF IInv, Replies, Handles, InHand

\* the same for the rest of a handler
LEMMA RestInHand ==
  ASSUME IInv, cont \in {"start", "control", "finalize"}
  PROVE  /\ InHand \in Queue /\ InHand \in Tasks /\ driver = "polling" /\ todo # {}
         /\ TasksOfThread(inbox[Current]) # {}
  BY FoundIsQueued DEF IInv, Handlers, InHand

LEMMA RecordTypes ==
  ASSUME TypeOK
  PROVE  /\ status \in [Tasks -> Statuses] /\ approval \in [Tasks -> Approvals]
         /\ workspaceOf \in [Tasks -> Workspaces \cup {NoWorkspace}]
         /\ locks \in [Workspaces -> 0..created]
  BY DEF TypeOK

LEMMA HolderIsQueued ==
  ASSUME TypeOK, NEW w \in Workspaces, locks[w] # 0
  PROVE  locks[w] \in Queue /\ locks[w] \in Tasks
<1>1. locks[w] \in 0..created
  BY DEF TypeOK
<1> QED BY <1>1, QueueIsTasks DEF Queue

LEMMA IgnoredReplyInvariant ==
  ASSUME IInv, NEW m, IgnoredReply(m)
  PROVE  IInv'
<1>1. /\ UNCHANGED <<coreVars, agentVars, asked, mailVars, aged, driver, todo>>
      /\ cont = "none" /\ cont' = "mark" /\ driver = "polling" /\ todo # {}
  BY DEF IgnoredReply, Handles, coreVars, handlerFrame, crashVars
<1>2. Records' /\ Locks'
  BY <1>1, CoreStays
<1>3. TypeOK'
  BY <1>1 DEF IInv, TypeOK, coreVars, recordVars, agentVars, mailVars, Queue
<1>4. Handlers' /\ Confirmations'
  BY <1>1 DEF IInv, Handlers, Confirmations, OneConfirmationPerWorkspace, coreVars,
     recordVars, Queue
<1> QED BY <1>2, <1>3, <1>4 DEF IInv

LEMMA WorkspaceReplyInvariant ==
  ASSUME IInv, NEW m, NEW t, WorkspaceReply(m, t)
  PROVE  IInv'
<1>1. /\ t \in Queue /\ t \in Tasks /\ status[t] = "queued" /\ workspaceOf[t] = NoWorkspace
      /\ m \in Mails /\ cont = "none" /\ cont' \in {"mark", "answer"}
      /\ driver = "polling" /\ todo # {}
      /\ workspaceOf' = workspaceOf \/ workspaceOf' = [workspaceOf EXCEPT ![t] = m.names]
      /\ UNCHANGED <<status, approval, threadOf, created, locks, asked, agentVars, mailVars, aged,
                     driver, todo, crashVars>>
  BY ReplyInHand DEF WorkspaceReply, NeedsWorkspace, handlerFrame
<1>2. TypeOK'
  <2>1. m.names \in Workspaces \cup {NoWorkspace}
    BY <1>1 DEF Mails
  <2> QED BY <1>1, <2>1 DEF IInv, TypeOK, agentVars, mailVars, crashVars, Queue
<1>3. Records'
  BY <1>1 DEF IInv, TypeOK, Records, Working, Queue
<1>4. Handlers'
  BY <1>1 DEF Handlers
<1>5. \A u \in Tasks : status[u] # "queued" => workspaceOf'[u] = workspaceOf[u]
  BY <1>1 DEF IInv, TypeOK
<1>6. Locks'
  <2>1. NoLeakedLock'
    BY <1>1, <1>5, HolderIsQueued DEF IInv, Locks, NoLeakedLock, Locking, Working
  <2> QED BY <1>1, <1>5, <2>1 DEF IInv, Locks, Owns, Working, crashVars
<1>7. Confirmations'
  <2>1. OneConfirmationPerWorkspace'
    BY <1>1, <1>5, QueueIsTasks DEF IInv, Confirmations, OneConfirmationPerWorkspace, Queue
  <2> QED BY <1>1, <1>5, <2>1 DEF IInv, Confirmations, crashVars
<1> QED BY <1>2, <1>3, <1>4, <1>6, <1>7 DEF IInv

\* A reply to the request to start.
LEMMA PendingReplyInvariant ==
  ASSUME IInv, NEW m, NEW t, PendingReply(m, t)
  PROVE  IInv'
<1>1. /\ t = InHand /\ t \in Queue /\ t \in Tasks /\ status[t] = "waiting_confirmation"
      /\ TasksOfThread(inbox[Current]) # {}
      /\ cont = "none" /\ driver = "polling" /\ todo # {}
      /\ UNCHANGED <<workspaceOf, threadOf, created, asked, agentVars, mailVars, aged, driver,
                     todo, crashVars>>
  BY ReplyInHand DEF PendingReply, handlerFrame
<1>2. /\ Current' = Current /\ InHand' = InHand
      /\ TasksOfThread(inbox[Current])' = TasksOfThread(inbox[Current])
  BY <1>1, InHandStays DEF mailVars
<1>3. locks' = locks
  <2>1. ~Owns(t)
    BY <1>1 DEF IInv, Locks, NoLeakedLock, Owns, Locking, Working, TypeOK, Records, Tasks
  <2> QED BY <2>1 DEF PendingReply, Unlocked
<1>4. \/ /\ UNCHANGED <<status, approval>> /\ cont' \in {"answer", "mark"}
      \/ /\ approval' = [approval EXCEPT ![t] = "approved"] /\ UNCHANGED status
         /\ cont' = "start"
      \/ /\ \E a \in Approvals \ {"approved"} : approval' = [approval EXCEPT ![t] = a]
         /\ \E s \in {"queued", "rejected"} : status' = [status EXCEPT ![t] = s]
         /\ cont' \in {"answer", "mark"}
  BY <1>1 DEF PendingReply, AfterRefusal, Approvals
<1>5. TypeOK'
  <2>1. status' \in [Tasks -> Statuses] /\ approval' \in [Tasks -> Approvals]
    BY <1>4, RecordTypes DEF IInv, Statuses, Approvals
  <2>2. \A u \in Queue : status[u] \in Locking => status'[u] \in Locking
    BY <1>1, <1>4, RecordTypes, QueueIsTasks DEF IInv, Locking, Working
  <2>3. cont' \in {"answer", "mark", "start"}
    BY <1>4
  <2> QED BY <1>1, <1>3, <2>1, <2>2, <2>3 DEF IInv, TypeOK, agentVars, mailVars, crashVars, Queue
<1>6. Records'
  BY <1>1, <1>4 DEF IInv, TypeOK, Records, Working, Queue
<1>7. Handlers'
  BY <1>1, <1>2, <1>4 DEF IInv, TypeOK, Handlers
<1>8. Locks'
  <2>1. \A u \in Tasks : status[u] \in Locking <=> status'[u] \in Locking
    BY <1>1, <1>4 DEF IInv, TypeOK, Locking, Working
  <2>2. \A u \in Tasks : status[u] \in Working <=> status'[u] \in Working
    BY <1>1, <1>4 DEF IInv, TypeOK, Working
  <2>3. NoLeakedLock'
    BY <1>1, <1>3, <2>1, HolderIsQueued DEF IInv, Locks, NoLeakedLock
  <2> QED BY <1>1, <1>3, <2>2, <2>3 DEF IInv, Locks, Owns, crashVars
<1>9. Confirmations'
  <2>1. \A u \in Tasks : status'[u] = "waiting_confirmation" => status[u] = "waiting_confirmation"
    BY <1>1, <1>4 DEF IInv, TypeOK
  <2>2. OneConfirmationPerWorkspace'
    BY <1>1, <2>1, QueueIsTasks DEF IInv, Confirmations, OneConfirmationPerWorkspace, Queue
  <2>3. \A u \in Tasks : status'[u] = "waiting_confirmation" /\ approval'[u] = "approved"
            => approval[u] = "approved" \/ (u = t /\ cont' = "start")
    BY <1>1, <1>4 DEF IInv, TypeOK
  <2> QED BY <1>1, <1>2, <1>3, <2>1, <2>2, <2>3 DEF IInv, Confirmations, crashVars
<1> QED BY <1>5, <1>6, <1>7, <1>8, <1>9 DEF IInv

-----------------------------------------------------------------------------
(* What keeps the parts of the invariant when a task changes its state *)

LEMMA LocksStay ==
  ASSUME IInv, UNCHANGED <<workspaceOf, locks, displaced>>,
         \A u \in Tasks : /\ status[u] \in Locking => status'[u] \in Locking
                          /\ status'[u] \in Working => status[u] \in Working
  PROVE  Locks'
<1>1. NoLeakedLock'
  BY HolderIsQueued DEF IInv, Locks, NoLeakedLock
<1> QED BY <1>1 DEF IInv, Locks, Owns

\* a task that is over gives its workspace back, if it has it
LEMMA LocksAfterEnd ==
  ASSUME IInv, NEW t \in Tasks, UNCHANGED <<workspaceOf, displaced>>,
         NEW s \in {"cancelled", "done", "rejected"}, status' = [status EXCEPT ![t] = s],
         \/ locks' = Unlocked(t)
         \/ status[t] \in Working /\ locks' = [locks EXCEPT ![workspaceOf[t]] = 0]
  PROVE  Locks' /\ locks' \in [Workspaces -> 0..created]
<1> USE RecordTypes DEF IInv
<1>1. locks' \in [Workspaces -> 0..created]
  BY QueueIsTasks DEF Unlocked
<1>2. \A w \in Workspaces : locks'[w] # 0 => locks'[w] = locks[w] /\ locks[w] # t
  <2>1. t # 0
    BY QueueIsTasks
  <2>2. \A w \in Workspaces : locks[w] = t => workspaceOf[t] = w /\ Owns(t)
    BY <2>1, EmailAssumption DEF Owns, Locks, NoLeakedLock
  <2> QED BY <2>2 DEF Unlocked
<1>3. NoLeakedLock'
  BY <1>2, HolderIsQueued DEF Locks, NoLeakedLock
<1>4. \A u \in Tasks : status'[u] \in Working => (Owns(u) \/ workspaceOf[u] \in displaced)' 
  <2> SUFFICES ASSUME NEW u \in Tasks, status'[u] \in Working, workspaceOf[u] \notin displaced
               PROVE  Owns(u)'
      OBVIOUS
  <2>1. u # t /\ status[u] \in Working
    BY DEF Working
  <2>2. Owns(u) /\ workspaceOf[u] \in Workspaces
    BY <2>1 DEF Locks, Records, Working, Owns
  <2>3. workspaceOf[t] = workspaceOf[u] => ~Owns(t) /\ status[t] \notin Working
    BY <2>1, <2>2 DEF Owns, Locks
  <2>4. locks'[workspaceOf[u]] = u
    BY <2>2, <2>3 DEF Owns, Unlocked
  <2> QED BY <2>2, <2>4 DEF Owns
<1> QED BY <1>1, <1>3, <1>4 DEF Locks

LEMMA ConfirmationsStay ==
  ASSUME IInv, UNCHANGED <<workspaceOf, created, crashes, displaced>>,
         driver' = "down" => driver = "down",
         \A u \in Tasks : status'[u] = "waiting_confirmation" =>
            /\ status[u] = "waiting_confirmation"
            /\ locks'[workspaceOf[u]] \in {0, locks[workspaceOf[u]]}
            /\ crashes = 0 /\ approval'[u] = "approved" => cont' = "start" /\ u = InHand'
  PROVE  Confirmations'
<1>1. OneConfirmationPerWorkspace'
  BY QueueIsTasks DEF IInv, Confirmations, OneConfirmationPerWorkspace, Queue
<1> QED BY <1>1 DEF IInv, Confirmations

-----------------------------------------------------------------------------
(* Starting a task *)

LEMMA StartTaskInvariant ==
  ASSUME IInv, NEW t, StartTask(t)
  PROVE  IInv'
<1>1. /\ t = InHand /\ t \in Queue /\ t \in Tasks /\ cont = "start"
      /\ status[t] = "waiting_confirmation" /\ approval[t] = "approved"
      /\ TasksOfThread(inbox[Current]) # {} /\ driver = "polling" /\ todo # {}
      /\ workspaceOf[t] \in Workspaces
      /\ UNCHANGED <<approval, workspaceOf, threadOf, created, asked, agentVars, mailVars, aged,
                     driver, todo, crashVars>>
  BY RestInHand DEF StartTask, handlerFrame, InHand, IInv, Handlers, Records
<1>2. /\ Current' = Current /\ InHand' = InHand
      /\ TasksOfThread(inbox[Current])' = TasksOfThread(inbox[Current])
  BY <1>1, InHandStays DEF mailVars
<1>3. \/ /\ status' = [status EXCEPT ![t] = "blocked"] /\ UNCHANGED locks /\ cont' = "answer"
      \/ /\ status' = [status EXCEPT ![t] = "active"]
         /\ CanActivate(t) /\ locks' = [locks EXCEPT ![workspaceOf[t]] = t] /\ cont' = "control"
      \/ UNCHANGED <<status, locks>> /\ ~CanActivate(t) /\ cont' = "abort"
  BY DEF StartTask, StatusWithoutBranch, LocksAtStart
<1> USE RecordTypes DEF IInv
<1>4. TypeOK'
  <2>1. status' \in [Tasks -> Statuses] /\ cont' \in {"answer", "control", "abort"}
    BY <1>3 DEF Statuses
  <2>2. locks' \in [Workspaces -> 0..created]
    BY <1>1, <1>3, QueueIsTasks DEF Queue
  <2>3. \A u \in Queue : status[u] \in Locking => status'[u] \in Locking
    BY <1>1, <1>3, QueueIsTasks DEF Locking, Working
  <2> QED BY <1>1, <2>1, <2>2, <2>3 DEF TypeOK, agentVars, mailVars, crashVars, Queue
<1>5. Records'
  BY <1>1, <1>3 DEF Records, Working, Queue
<1>6. Handlers'
  BY <1>1, <1>2, <1>3 DEF Handlers
<1>7. Locks'
  <2>1. CASE locks' = locks
    <3>1. \A u \in Tasks : /\ status[u] \in Locking => status'[u] \in Locking
                           /\ status'[u] \in Working => status[u] \in Working \/ u = t
      BY <1>1, <1>3 DEF Locking, Working
    <3>2. status'[t] \notin Working
      <4>1. CASE /\ status' = [status EXCEPT ![t] = "active"]
                 /\ locks' = [locks EXCEPT ![workspaceOf[t]] = t]
        <5>1. locks[workspaceOf[t]] = t
          BY <1>1, <2>1, <4>1
        <5>2. t # 0
          BY <1>1, QueueIsTasks
        <5> QED BY <1>1, <5>1, <5>2 DEF Locks, NoLeakedLock, Locking, Working
      <4> QED BY <1>1, <1>3, <4>1 DEF Working
    <3> QED BY <1>1, <2>1, <3>1, <3>2, LocksStay DEF crashVars
  <2>2. CASE /\ status' = [status EXCEPT ![t] = "active"]
             /\ CanActivate(t) /\ locks' = [locks EXCEPT ![workspaceOf[t]] = t]
    <3>1. \A w \in Workspaces : locks'[w] # 0 => 
             (w = workspaceOf[t] /\ locks'[w] = t) \/ (locks'[w] = locks[w] /\ locks[w] # t)
      BY <1>1, <2>2 DEF Locks, NoLeakedLock, Locking, Working
    <3>2. NoLeakedLock'
      BY <1>1, <2>2, <3>1, HolderIsQueued DEF Locks, NoLeakedLock, Locking, Working
    <3>3. \A u \in Tasks : status'[u] \in Working => (Owns(u) \/ workspaceOf[u] \in displaced)'
      <4> SUFFICES ASSUME NEW u \in Tasks, status'[u] \in Working, workspaceOf[u] \notin displaced
                   PROVE  Owns(u)'
          BY <1>1 DEF crashVars
      <4>1. CASE u = t
        BY <1>1, <2>2, <4>1, EmailAssumption DEF Owns
      <4>2. CASE u # t
        <5>1. status[u] \in Working
          BY <2>2, <4>2
        <5>2. Owns(u)
          BY <5>1 DEF Locks
        <5>3. workspaceOf[u] # workspaceOf[t]
          BY <2>2, <4>2, <5>2, QueueIsTasks DEF Owns, CanActivate
        <5> QED BY <1>1, <2>2, <5>2, <5>3 DEF Owns
      <4> QED BY <4>1, <4>2
    <3> QED BY <3>2, <3>3 DEF Locks
  <2> QED BY <1>3, <2>1, <2>2
<1>8. Confirmations'
  <2>1. crashes = 0 => locks[workspaceOf[t]] = 0
    BY <1>1 DEF Confirmations
  <2>2. crashes = 0 => status' # status
    BY <1>1, <1>3, <2>1, EmailAssumption DEF CanActivate
  <2>3. \A u \in Tasks : status'[u] = "waiting_confirmation" =>
            /\ status[u] = "waiting_confirmation"
            /\ crashes = 0 => u # t
    BY <1>1, <1>3, <2>2
  <2>4. \A u \in Tasks : status'[u] = "waiting_confirmation" =>
                            locks'[workspaceOf[u]] \in {0, locks[workspaceOf[u]]}
    <3> SUFFICES ASSUME NEW u \in Tasks, status'[u] = "waiting_confirmation",
                        locks'[workspaceOf[u]] # locks[workspaceOf[u]]
                 PROVE  FALSE
        OBVIOUS
    <3>1. status' = [status EXCEPT ![t] = "active"] /\ locks' = [locks EXCEPT ![workspaceOf[t]] = t]
      BY <1>3
    <3>2. u # t /\ status[u] = "waiting_confirmation" /\ workspaceOf[u] = workspaceOf[t]
      BY <1>1, <3>1
    <3> QED BY <1>1, <3>2, QueueIsTasks DEF Confirmations, OneConfirmationPerWorkspace, Records
  <2>5. \A u \in Tasks : status[u] = "waiting_confirmation" /\ crashes = 0
                         /\ approval[u] = "approved" => u = t
    BY <1>1 DEF Confirmations
  <2> QED BY <1>1, <2>3, <2>4, <2>5, ConfirmationsStay DEF crashVars
<1> QED BY <1>4, <1>5, <1>6, <1>7, <1>8

LEMMA ControlTaskInvariant ==
  ASSUME IInv, NEW t, ControlTask(t)
  PROVE  IInv'
<1>1. /\ t = InHand /\ t \in Queue /\ cont = "control" /\ status[t] = "active"
      /\ driver = "polling" /\ todo # {} /\ cont' \in {"mark", "abort"}
      /\ controllers' \in {controllers, controllers \cup {t}}
      /\ UNCHANGED <<coreVars, held, asked, mailVars, aged, driver, todo>>
  BY RestInHand DEF ControlTask, handlerFrame, InHand, IInv, Handlers, coreVars, crashVars
<1>2. Records' /\ Locks'
  BY <1>1, CoreStays
<1>3. TypeOK'
  BY <1>1 DEF IInv, TypeOK, coreVars, recordVars, mailVars, Queue, Locking, Working
<1>4. Handlers'
  BY <1>1 DEF Handlers
<1>5. Confirmations'
  BY <1>1 DEF IInv, Confirmations, OneConfirmationPerWorkspace, coreVars, recordVars, Queue
<1> QED BY <1>2, <1>3, <1>4, <1>5 DEF IInv

-----------------------------------------------------------------------------
(* Replies to a task that was started *)

\* A PAUSE, a RESUME, a CANCEL or a note.
LEMMA ActiveReplyInvariant ==
  ASSUME IInv, NEW m, NEW t, ActiveReply(m, t)
  PROVE  IInv'
<1>1. /\ t = InHand /\ t \in Queue /\ t \in Tasks /\ status[t] \in {"active", "paused", "blocked"}
      /\ cont = "none" /\ driver = "polling" /\ todo # {}
      /\ UNCHANGED <<approval, workspaceOf, threadOf, created, asked, mailVars, aged, driver,
                     todo, crashVars>>
  BY ReplyInHand DEF ActiveReply, handlerFrame
<1>2. workspaceOf[t] \in Workspaces /\ approval[t] = "approved"
  BY <1>1 DEF IInv, Records, Working
<1>3. \/ /\ UNCHANGED <<status, locks>>
         /\ controllers' = controllers
         /\ held' \in {held, held \cup ({t} \cap controllers), held \ {t}}
      \/ /\ status[t] = "active" /\ status' = [status EXCEPT ![t] = "paused"] /\ UNCHANGED locks
         /\ controllers' = controllers /\ held' = held \cup ({t} \cap controllers)
      \/ /\ status[t] = "paused" /\ status' = [status EXCEPT ![t] = "active"]
         /\ CanActivate(t) /\ locks' = [locks EXCEPT ![workspaceOf[t]] = t]
         /\ controllers' = controllers /\ held' \in {held, held \ {t}}
      \/ /\ status' = [status EXCEPT ![t] = "cancelled"] /\ locks' = Unlocked(t)
         /\ controllers' = controllers \ {t} /\ held' = held \ {t}
  BY <1>1 DEF ActiveReply, LocksAfterCancel, ControllersAfterCancel, agentVars
<1>4. cont' \in {"mark", "answer", "abort"}
  BY <1>1 DEF ActiveReply
<1> USE RecordTypes DEF IInv
<1>5. locks' \in [Workspaces -> 0..created] /\ Locks'
  <2>1. CASE UNCHANGED <<status, locks>>
    BY <1>1, <2>1, LocksStay DEF crashVars
  <2>2. CASE status[t] = "active" /\ status' = [status EXCEPT ![t] = "paused"] /\ UNCHANGED locks
    <3>1. \A u \in Tasks : /\ status[u] \in Locking => status'[u] \in Locking
                           /\ status'[u] \in Working => status[u] \in Working
      BY <1>1, <2>2 DEF Locking, Working
    <3> QED BY <1>1, <2>2, <3>1, LocksStay DEF crashVars
  <2>3. CASE /\ status[t] = "paused" /\ status' = [status EXCEPT ![t] = "active"]
             /\ CanActivate(t) /\ locks' = [locks EXCEPT ![workspaceOf[t]] = t]
    <3>1. locks' \in [Workspaces -> 0..created]
      <4>1. t \in 0..created
        BY <1>1, QueueIsTasks DEF Queue
      <4> QED BY <1>2, <2>3, <4>1
    <3>2. \A w \in Workspaces : locks'[w] # 0 => 
             (w = workspaceOf[t] /\ locks'[w] = t) \/ locks'[w] = locks[w]
      BY <1>1, <2>3
    <3>3. \A u \in Tasks : /\ status[u] \in Locking <=> status'[u] \in Locking
                           /\ status[u] \in Working <=> status'[u] \in Working
      BY <1>1, <2>3 DEF Locking, Working
    <3>4. NoLeakedLock'
      BY <1>1, <2>3, <3>2, <3>3, HolderIsQueued DEF Locks, NoLeakedLock, Locking, Working
    <3>5. \A u \in Tasks : Owns(u) => Owns(u)'
      BY <1>1, <2>3, QueueIsTasks DEF Owns, CanActivate
    <3> QED BY <1>1, <3>1, <3>3, <3>4, <3>5 DEF Locks, crashVars
  <2>4. CASE status' = [status EXCEPT ![t] = "cancelled"] /\ locks' = Unlocked(t)
    BY <1>1, <2>4, LocksAfterEnd DEF crashVars
  <2> QED BY <1>3, <2>1, <2>2, <2>3, <2>4
<1>6. TypeOK'
  <2>1. status' \in [Tasks -> Statuses]
    BY <1>3 DEF Statuses
  <2>2. controllers \subseteq {u \in Queue : status[u] \in Locking} /\ held \subseteq controllers
    BY DEF TypeOK
  <2>3. controllers' \subseteq {u \in Queue : status'[u] \in Locking}
        /\ held' \subseteq controllers'
    BY <1>1, <1>3, <2>2, QueueIsTasks DEF Locking, Working
  <2> QED BY <1>1, <1>4, <1>5, <2>1, <2>3 DEF TypeOK, mailVars, crashVars, Queue
<1>7. Records'
  BY <1>1, <1>2, <1>3 DEF Records, Working, Queue
<1>8. Handlers'
  BY <1>1, <1>4 DEF Handlers
<1>9. Confirmations'
  <2>1. \A u \in Tasks : status'[u] = "waiting_confirmation" => status[u] = "waiting_confirmation"
    BY <1>1, <1>3
  <2>2. \A w \in Workspaces : locks'[w] \in {0, locks[w]}
                             \/ (w = workspaceOf[t] /\ status[t] = "paused")
    BY <1>2, <1>3 DEF Unlocked
  <2>3. crashes = 0 /\ status[t] \in Working => locks[workspaceOf[t]] = t
    BY <1>1 DEF Confirmations, Locks, Owns
  <2>4. \A u \in Tasks : status[u] = "waiting_confirmation" =>
           /\ crashes = 0 => locks[workspaceOf[u]] = 0 /\ approval[u] # "approved"
    BY <1>1 DEF Confirmations
  <2>5. OneConfirmationPerWorkspace'
    BY <1>1, <2>1, QueueIsTasks DEF Confirmations, OneConfirmationPerWorkspace, Queue
  <2>6. \A u \in Tasks : crashes = 0 /\ status'[u] = "waiting_confirmation"
                            => locks'[workspaceOf[u]] = 0
    <3> SUFFICES ASSUME NEW u \in Tasks, crashes = 0, status'[u] = "waiting_confirmation"
                 PROVE  locks'[workspaceOf[u]] = 0
        OBVIOUS
    <3>1. locks[workspaceOf[u]] = 0 /\ workspaceOf[u] \in Workspaces
      BY <2>1, <2>4 DEF Records
    <3>2. status[t] = "paused" => workspaceOf[u] # workspaceOf[t]
      BY <1>1, <2>3, <3>1, QueueIsTasks DEF Working
    <3> QED BY <2>2, <3>1, <3>2
  <2> QED BY <1>1, <2>1, <2>4, <2>5, <2>6 DEF Confirmations, crashVars
<1> QED BY <1>5, <1>6, <1>7, <1>8, <1>9

\* The answer to the request for final approval.
LEMMA FinalReplyInvariant ==
  ASSUME IInv, NEW m, NEW t, FinalReply(m, t)
  PROVE  IInv'
<1>1. /\ t = InHand /\ t \in Queue /\ t \in Tasks /\ status[t] = "ready_for_final_approval"
      /\ TasksOfThread(inbox[Current]) # {}
      /\ cont = "none" /\ driver = "polling" /\ todo # {}
      /\ UNCHANGED <<approval, workspaceOf, threadOf, created, locks, asked, agentVars, mailVars,
                     aged, driver, todo, crashVars>>
  BY ReplyInHand DEF FinalReply, handlerFrame
<1>2. /\ Current' = Current /\ InHand' = InHand
      /\ TasksOfThread(inbox[Current])' = TasksOfThread(inbox[Current])
  BY <1>1, InHandStays DEF mailVars
<1>3. \/ UNCHANGED status /\ cont' = "mark"
      \/ status' = [status EXCEPT ![t] = "blocked"] /\ cont' = "answer"
      \/ status' = [status EXCEPT ![t] = "finalizing"] /\ cont' = "finalize"
  BY DEF FinalReply
<1> USE RecordTypes DEF IInv
<1>4. \A u \in Tasks : /\ status[u] \in Locking => status'[u] \in Locking
                       /\ status'[u] \in Working => status[u] \in Working
                       /\ status'[u] = "waiting_confirmation" => status[u] = "waiting_confirmation"
  BY <1>1, <1>3 DEF Locking, Working
<1>5. Locks'
  BY <1>1, <1>4, LocksStay DEF crashVars
<1>6. TypeOK'
  <2>1. status' \in [Tasks -> Statuses]
    BY <1>3 DEF Statuses
  <2> QED BY <1>1, <1>3, <1>4, <2>1, QueueIsTasks DEF TypeOK, agentVars, mailVars, crashVars, Queue
<1>7. Records'
  BY <1>1, <1>3 DEF Records, Working, Queue
<1>8. Handlers'
  BY <1>1, <1>2, <1>3 DEF Handlers
<1>9. Confirmations'
  <2>1. \A u \in Tasks : status'[u] = "waiting_confirmation" /\ crashes = 0
                            => approval[u] # "approved"
    BY <1>1, <1>4 DEF Confirmations
  <2> QED BY <1>1, <1>4, <2>1, ConfirmationsStay DEF crashVars
<1> QED BY <1>5, <1>6, <1>7, <1>8, <1>9

\* The outcome of finalize, asked for by a mail or by a restart.
LEMMA FinalizedStays ==
  ASSUME IInv, NEW t \in Tasks, status[t] = "finalizing", Finalized(t),
         UNCHANGED <<approval, workspaceOf, threadOf, created, mailVars, userVars, crashVars>>
  PROVE  /\ status' \in [Tasks -> Statuses] /\ locks' \in [Workspaces -> 0..created]
         /\ controllers' \subseteq {u \in Queue' : status'[u] \in Locking}
         /\ held' \subseteq controllers'
         /\ \A u \in Tasks : status'[u] = "waiting_confirmation"
                                => status[u] = "waiting_confirmation"
         /\ \A w \in Workspaces : locks'[w] \in {0, locks[w]}
         /\ Records' /\ Locks'
<1> USE RecordTypes DEF IInv
<1>1. controllers \subseteq {u \in Queue : status[u] \in Locking} /\ held \subseteq controllers
  BY DEF TypeOK
<1>2. CASE /\ status' = [status EXCEPT ![t] = "done"]
           /\ locks' = [locks EXCEPT ![workspaceOf[t]] = 0]
           /\ controllers' = controllers \ {t} /\ held' = held \ {t}
  <2>1. Locks' /\ locks' \in [Workspaces -> 0..created]
    BY <1>2, LocksAfterEnd DEF Working, crashVars
  <2>2. controllers' \subseteq {u \in Queue' : status'[u] \in Locking}
        /\ held' \subseteq controllers'
    BY <1>1, <1>2, QueueIsTasks DEF Locking, Working, Queue
  <2>3. Records'
    BY <1>2 DEF Records, Working, Queue
  <2> QED BY <1>2, <2>1, <2>2, <2>3 DEF Statuses
<1>3. CASE status' = [status EXCEPT ![t] = "blocked"] /\ UNCHANGED <<locks, agentVars>>
  <2>1. \A u \in Tasks : /\ status[u] \in Locking => status'[u] \in Locking
                         /\ status'[u] \in Working => status[u] \in Working
    BY <1>3 DEF Locking, Working
  <2>2. Locks'
    BY <1>3, <2>1, LocksStay DEF crashVars
  <2>3. controllers' \subseteq {u \in Queue' : status'[u] \in Locking}
        /\ held' \subseteq controllers'
    BY <1>1, <1>3, <2>1, QueueIsTasks DEF Queue, agentVars
  <2>4. Records'
    BY <1>3 DEF Records, Working, Queue
  <2> QED BY <1>3, <2>2, <2>3, <2>4 DEF Statuses
<1> QED BY <1>2, <1>3 DEF Finalized

LEMMA FinalizeInvariant ==
  ASSUME IInv, NEW t \in Tasks, FinalizeTask(t) \/ RecoverFinalizing(t)
  PROVE  IInv'
<1>1. /\ status[t] = "finalizing" /\ cont # "start"
      /\ cont' \in {"answer", "abort"} => driver = "polling" /\ todo # {}
      /\ cont' \in {"none", "answer", "abort"}
      /\ UNCHANGED <<approval, workspaceOf, threadOf, created, mailVars, userVars, driver, todo,
                     crashVars>>
      /\ Finalized(t) \/ UNCHANGED <<status, locks, agentVars>>
  <2>1. CASE FinalizeTask(t)
    BY <2>1, RestInHand DEF FinalizeTask, handlerFrame, IInv, Handlers, InHand, userVars
  <2>2. CASE RecoverFinalizing(t)
    BY <2>2 DEF RecoverFinalizing, IInv, TypeOK, Handlers
  <2> QED BY <2>1, <2>2
<1>2. /\ status' \in [Tasks -> Statuses] /\ locks' \in [Workspaces -> 0..created]
      /\ controllers' \subseteq {u \in Queue' : status'[u] \in Locking}
      /\ held' \subseteq controllers'
      /\ \A u \in Tasks : status'[u] = "waiting_confirmation" => status[u] = "waiting_confirmation"
      /\ \A w \in Workspaces : locks'[w] \in {0, locks[w]}
      /\ Records' /\ Locks'
  <2>1. CASE Finalized(t)
    BY <1>1, <2>1, FinalizedStays
  <2>2. CASE UNCHANGED <<status, locks, agentVars>>
    <3>1. Records' /\ Locks'
      BY <1>1, <2>2, CoreStays DEF coreVars, recordVars, crashVars
    <3> QED BY <1>1, <2>2, <3>1, RecordTypes DEF IInv, TypeOK, agentVars, Queue
  <2> QED BY <1>1, <2>1, <2>2
<1>3. TypeOK'
  BY <1>1, <1>2 DEF IInv, TypeOK, mailVars, userVars, crashVars, Queue
<1>4. Handlers'
  BY <1>1 DEF Handlers
<1>5. Confirmations'
  <2>1. \A u \in Tasks : status'[u] = "waiting_confirmation" /\ crashes = 0
                            => approval[u] # "approved"
    BY <1>1, <1>2 DEF IInv, Confirmations
  <2>2. \A u \in Tasks : status[u] = "waiting_confirmation" => workspaceOf[u] \in Workspaces
    BY DEF IInv, Records
  <2> QED BY <1>1, <1>2, <2>1, <2>2, ConfirmationsStay DEF crashVars
<1> QED BY <1>2, <1>3, <1>4, <1>5 DEF IInv
-----------------------------------------------------------------------------
(* Confirmations, ticks, restarts *)

\* Old confirmations expire.
LEMMA ExpireInvariant ==
  ASSUME IInv, ExpireConfirmations
  PROVE  IInv'
<1> USE RecordTypes DEF IInv
<1>1. /\ driver = "polling" /\ todo = {} /\ driver' = "confirming" /\ cont = "none"
      /\ UNCHANGED <<workspaceOf, threadOf, created, locks, mailVars, userVars, agentVars, todo,
                     cont, crashVars>>
  BY DEF ExpireConfirmations, Handlers, TypeOK
<1>2. \A u \in Tasks :
         \/ status'[u] = status[u] /\ approval'[u] = approval[u]
         \/ /\ status[u] = "waiting_confirmation" /\ u \in Queue
            /\ status'[u] = "queued" /\ approval'[u] = "expired"
  BY DEF ExpireConfirmations, Expired
<1>3. status' \in [Tasks -> Statuses] /\ approval' \in [Tasks -> Approvals]
  BY DEF ExpireConfirmations, Statuses, Approvals
<1>4. \A u \in Tasks : /\ status[u] \in Locking <=> status'[u] \in Locking
                       /\ status[u] \in Working <=> status'[u] \in Working
                       /\ status'[u] = "waiting_confirmation" => status[u] = "waiting_confirmation"
  BY <1>2 DEF Locking, Working
<1>5. Locks'
  BY <1>1, <1>4, LocksStay DEF crashVars
<1>6. TypeOK'
  BY <1>1, <1>3, <1>4, QueueIsTasks DEF TypeOK, mailVars, userVars, agentVars, crashVars, Queue
<1>7. Records'
  BY <1>1, <1>2 DEF Records, Working, Queue
<1>8. Handlers'
  BY <1>1 DEF Handlers
<1>9. Confirmations'
  <2>1. \A u \in Tasks : status'[u] = "waiting_confirmation" /\ crashes = 0
                            => approval'[u] # "approved"
    BY <1>1, <1>2 DEF Confirmations
  <2> QED BY <1>1, <1>4, <2>1, ConfirmationsStay DEF crashVars
<1> QED BY <1>5, <1>6, <1>7, <1>8, <1>9

\* A confirmation is mailed.
LEMMA SendConfirmationInvariant ==
  ASSUME IInv, NEW t, SendConfirmation(t)
  PROVE  IInv'
<1>1. /\ driver = "confirming" /\ cont = "none" /\ cont' = "confirm"
      /\ asked' = [asked EXCEPT ![t] = "start"]
      /\ UNCHANGED <<coreVars, mailVars, aged, agentVars, driver, todo>>
  BY DEF SendConfirmation, coreVars, crashVars
<1>2. Records' /\ Locks'
  BY <1>1, CoreStays
<1>3. TypeOK'
  BY <1>1 DEF IInv, TypeOK, coreVars, recordVars, mailVars, agentVars, Queue
<1>4. Handlers'
  BY <1>1 DEF Handlers
<1>5. Confirmations'
  BY <1>1 DEF IInv, Confirmations, OneConfirmationPerWorkspace, coreVars, recordVars, Queue
<1> QED BY <1>2, <1>3, <1>4, <1>5 DEF IInv

\* The mailed confirmation is saved.
LEMMA MarkConfirmationInvariant ==
  ASSUME IInv, NEW t, MarkConfirmationSent(t)
  PROVE  IInv'
<1> USE RecordTypes DEF IInv
<1>1. /\ cont = "confirm" /\ cont' = "none" /\ driver = "confirming"
      /\ t \in Queue /\ t \in Tasks /\ status[t] = "queued"
      /\ workspaceOf[t] \in Workspaces /\ locks[workspaceOf[t]] = 0
      /\ NoneWaiting(workspaceOf[t])
      /\ status' = [status EXCEPT ![t] = "waiting_confirmation"]
      /\ approval' = [approval EXCEPT ![t] = "pending"]
      /\ aged' = [aged EXCEPT ![t] = FALSE]
      /\ UNCHANGED <<workspaceOf, threadOf, created, locks, mailVars, asked, agentVars, driver,
                     todo, crashVars>>
  BY ConfirmableIsFree DEF MarkConfirmationSent, Handlers
<1>2. status' \in [Tasks -> Statuses] /\ approval' \in [Tasks -> Approvals]
  BY <1>1 DEF Statuses, Approvals
<1>3. \A u \in Tasks : /\ status[u] \in Locking <=> status'[u] \in Locking
                       /\ status[u] \in Working <=> status'[u] \in Working
  BY <1>1 DEF Locking, Working
<1>4. Locks'
  BY <1>1, <1>3, LocksStay DEF crashVars
<1>5. TypeOK'
  <2>1. aged' \in [Tasks -> BOOLEAN]
    BY <1>1 DEF TypeOK
  <2>2. controllers \subseteq {u \in Queue : status'[u] \in Locking}
    BY <1>3, QueueIsTasks DEF TypeOK
  <2> QED BY <1>1, <1>2, <2>1, <2>2 DEF TypeOK, mailVars, agentVars, crashVars, Queue
<1>6. Records'
  BY <1>1 DEF Records, Working, Queue
<1>7. Handlers'
  BY <1>1 DEF Handlers
<1>8. Confirmations'
  <2>1. \A u \in Queue : status[u] = "waiting_confirmation" => workspaceOf[u] # workspaceOf[t]
    BY <1>1 DEF NoneWaiting
  <2>2. OneConfirmationPerWorkspace'
    BY <1>1, <2>1, QueueIsTasks DEF Confirmations, OneConfirmationPerWorkspace, Queue
  <2>3. crashes = 0 => \A u \in Tasks : status'[u] = "waiting_confirmation" =>
                          locks[workspaceOf[u]] = 0 /\ approval'[u] # "approved"
    BY <1>1 DEF Confirmations
  <2> QED BY <1>1, <2>2, <2>3 DEF Confirmations, crashVars
<1> QED BY <1>4, <1>5, <1>6, <1>7, <1>8

\* A step of the controller.
LEMMA TickInvariant ==
  ASSUME IInv, NEW t \in Tasks, TickTask(t)
  PROVE  IInv'
<1> USE RecordTypes DEF IInv
<1>1. /\ driver = "idle" /\ status[t] = "active" /\ cont \notin {"start", "confirm"}
      /\ asked' \in {asked, [asked EXCEPT ![t] = "final"]}
      /\ \E s \in {"paused", "blocked", "ready_for_final_approval"} :
            status' = [status EXCEPT ![t] = s]
      /\ UNCHANGED <<approval, workspaceOf, threadOf, created, locks, mailVars, aged, agentVars,
                     driver, todo, cont, crashVars>>
  BY DEF TickTask, Handlers
<1>2. \A u \in Tasks : /\ status[u] \in Locking => status'[u] \in Locking
                       /\ status'[u] \in Working => status[u] \in Working
                       /\ status'[u] = "waiting_confirmation" => status[u] = "waiting_confirmation"
  BY <1>1 DEF Locking, Working
<1>3. Locks'
  BY <1>1, <1>2, LocksStay DEF crashVars
<1>4. TypeOK'
  <2>1. status' \in [Tasks -> Statuses]
    BY <1>1 DEF Statuses
  <2>2. asked' \in [Tasks -> {"none", "start", "final"}]
    BY <1>1 DEF TypeOK
  <2>3. controllers \subseteq {u \in Queue : status'[u] \in Locking}
    BY <1>2, QueueIsTasks DEF TypeOK
  <2> QED BY <1>1, <2>1, <2>2, <2>3 DEF TypeOK, mailVars, agentVars, crashVars, Queue
<1>5. Records'
  BY <1>1 DEF Records, Working, Queue
<1>6. Handlers'
  BY <1>1 DEF Handlers
<1>7. Confirmations'
  <2>1. \A u \in Tasks : status'[u] = "waiting_confirmation" /\ crashes = 0
                            => approval[u] # "approved"
    BY <1>1, <1>2 DEF Confirmations
  <2> QED BY <1>1, <1>2, <2>1, ConfirmationsStay DEF crashVars
<1> QED BY <1>3, <1>4, <1>5, <1>6, <1>7

\* A restart rebuilds the locks and the controllers.
LEMMA RecoverInvariant ==
  ASSUME IInv, Recover
  PROVE  IInv'
<1> USE RecordTypes DEF IInv
<1>1. /\ driver = "down" /\ driver' = "recovering" /\ cont = "none"
      /\ locks' = RebuiltLocks
      /\ UNCHANGED <<recordVars, mailVars, userVars, todo, cont, crashes>>
  BY DEF Recover, Handlers, TypeOK
<1>2. displaced' = displaced \cup {w \in Workspaces : \E u \in Queue :
                        workspaceOf[u] = w /\ status[u] \in Working /\ RebuiltLocks[w] # u}
  BY DEF Recover
<1>3. \A u \in Tasks : status[u] \in Working =>
         u \in Queue /\ workspaceOf[u] \in Workspaces
  BY DEF Records, Working
<1>4. TypeOK'
  <2>1. controllers' \subseteq {u \in Queue : status[u] \in Locking} /\ held' \subseteq controllers'
    BY DEF Recover, Locking, Working
  <2>2. displaced' \subseteq Workspaces
    BY <1>2 DEF TypeOK
  <2> QED BY <1>1, <2>1, <2>2, RebuiltIsOwned DEF TypeOK, recordVars, mailVars, userVars, Queue
<1>5. Records'
  BY <1>1 DEF Records, recordVars, Queue
<1>6. Handlers'
  BY <1>1 DEF Handlers
<1>7. Locks'
  <2>1. NoLeakedLock'
    BY <1>1, RebuiltIsOwned DEF NoLeakedLock, recordVars
  <2>2. ASSUME NEW u \in Tasks, status[u] \in Working, workspaceOf[u] \notin displaced'
        PROVE  workspaceOf[u] # NoWorkspace /\ RebuiltLocks[workspaceOf[u]] = u
    BY <1>2, <1>3, <2>2, EmailAssumption
  <2> QED BY <1>1, <2>1, <2>2 DEF Locks, Owns, recordVars
<1>8. Confirmations'
  <2>1. crashes = 0 => Queue = {}
    BY <1>1 DEF Confirmations, Queue
  <2>2. crashes = 0 => displaced' = {} /\ \A u \in Tasks : status[u] = "absent"
    BY <1>2, <2>1 DEF Confirmations, Records
  <2> QED BY <1>1, <2>2 DEF Confirmations, OneConfirmationPerWorkspace, recordVars, Queue
<1> QED BY <1>4, <1>5, <1>6, <1>7, <1>8

\* A crash.
LEMMA CrashInvariant ==
  ASSUME IInv, Crash
  PROVE  IInv'
<1>1. /\ crashes' = crashes + 1 /\ crashes' \in 0..MaxCrashes /\ crashes' # 0
      /\ driver' = "down" /\ todo' = {} /\ cont' = "none" /\ controllers' = {} /\ held' = {}
      /\ UNCHANGED <<recordVars, locks, mailVars, userVars, displaced>>
  BY EmailAssumption DEF Crash, IInv, TypeOK
<1>2. TypeOK'
  BY <1>1 DEF IInv, TypeOK, recordVars, mailVars, userVars, Queue
<1>3. Records' /\ Locks'
  BY <1>1 DEF IInv, Records, Locks, NoLeakedLock, Owns, recordVars, Queue
<1>4. Handlers'
  BY <1>1 DEF Handlers
<1>5. Confirmations'
  BY <1>1 DEF IInv, Confirmations, OneConfirmationPerWorkspace, recordVars, Queue
<1> QED BY <1>2, <1>3, <1>4, <1>5 DEF IInv
-----------------------------------------------------------------------------
(* The theorems about tasks *)

\* The records, locks, handlers and confirmations agree in every reachable state.
THEOREM InductiveInvariant == Spec => []IInv
<1>1. Init => IInv
  BY InitInvariant
<1>2. IInv /\ [Next]_vars => IInv'
  <2> SUFFICES ASSUME IInv, [Next]_vars PROVE IInv'
      OBVIOUS
  <2>1. CASE User \/ \E t \in Tasks : ConfirmationAges(t)
    BY <2>1, UserInvariant
  <2>2. CASE Handler
    BY <2>2, NewTaskInvariant, IgnoredReplyInvariant, WorkspaceReplyInvariant,
       PendingReplyInvariant, ActiveReplyInvariant, FinalReplyInvariant, StartTaskInvariant,
       ControlTaskInvariant, FinalizeInvariant, DriverInvariant DEF Handler
  <2>3. CASE Driver
    BY <2>3, DriverInvariant, ExpireInvariant, SendConfirmationInvariant,
       MarkConfirmationInvariant, TickInvariant, RecoverInvariant, FinalizeInvariant DEF Driver
  <2>4. CASE Crash
    BY <2>4, CrashInvariant
  <2>5. CASE UNCHANGED vars
    <3>1. UNCHANGED <<coreVars, inbox, seen, aged, asked, controllers, held, driver, todo, cont>>
      BY <2>5 DEF vars, coreVars, crashVars, mailVars, userVars, agentVars
    <3>2. TypeOK'
      BY <3>1 DEF IInv, TypeOK, coreVars, recordVars, Queue
    <3>3. Records' /\ Locks'
      BY <3>1, CoreStays
    <3>4. Handlers' /\ Confirmations'
      BY <3>1, InHandStays DEF IInv, Handlers, Confirmations, OneConfirmationPerWorkspace,
         coreVars, recordVars, Queue
    <3> QED BY <3>2, <3>3, <3>4 DEF IInv
  <2> QED BY <2>1, <2>2, <2>3, <2>4, <2>5 DEF Next
<1> QED BY <1>1, <1>2, PTL DEF Spec

\* The task queue, the mailbox and the worker keep their types.
THEOREM TypeCorrect == Spec => []TypeOK
<1>1. IInv => TypeOK
  BY DEF IInv
<1> QED BY <1>1, InductiveInvariant, PTL

\* rebuild_workspace_locks, activate, resume and cancel: a lock always belongs to a task of that
\* workspace that is not over.
THEOREM NoLeakedLockHolds == Spec => []NoLeakedLock
<1>1. IInv => NoLeakedLock
  BY DEF IInv, Locks
<1> QED BY <1>1, InductiveInvariant, PTL

\* "workspace is busy": two tasks never work in one workspace, however the user starts, pauses,
\* resumes and cancels them, unless a restart gave the lock of the one to a blocked task.
THEOREM OneTaskPerWorkspaceHolds == Spec => []OneTaskPerWorkspace
<1>1. IInv => OneTaskPerWorkspace
  BY QueueIsTasks DEF IInv, Locks, Owns, OneTaskPerWorkspace
<1> QED BY <1>1, InductiveInvariant, PTL

\* next_confirmable: at most one task of a workspace waits for the user to start it.
THEOREM OneConfirmationHolds == Spec => []OneConfirmationPerWorkspace
<1>1. IInv => OneConfirmationPerWorkspace
  BY DEF IInv, Confirmations
<1> QED BY <1>1, InductiveInvariant, PTL

\* approve: whatever happens in between, a task that is worked on or done was approved.
THEOREM WorkWasApprovedHolds == Spec => []WorkWasApproved
<1>1. IInv => WorkWasApproved
  BY QueueIsTasks DEF IInv, Records, WorkWasApproved
<1> QED BY <1>1, InductiveInvariant, PTL

\* _handle_pending_reply: while the worker does not crash, an approval it accepted is acted on
\* before the poll is over, also when the branch, the handoff or a mail fails.
THEOREM ApprovalIsActedOnHolds == Spec => []ApprovalIsActedOn
<1>1. IInv => ApprovalIsActedOn
  BY QueueIsTasks DEF IInv, Handlers, Confirmations, ApprovalIsActedOn
<1> QED BY <1>1, InductiveInvariant, PTL

-----------------------------------------------------------------------------
(* The invariant of the handoff *)

\* a call that has chosen its issue has chosen an issue
TargetIsChosen ==
    /\ step = "view" => Candidate # 0
    /\ step \in {"check", "post", "record"} => target \in Issues

\* A comment is posted only after it was looked for, and recorded only after it was there.
LookedFor == step = "post" => comments[target][event] = 0
IsThere   == step = "record" => comments[target][event] > 0

\* the stored lists tell the truth
ListsAreTrue ==
    /\ \A i \in Issues, e \in Events : e \in delivered[i] => comments[i][e] > 0
    /\ warned \subseteq mails
    /\ step = "mailed" => event \in mails

HandoffInv ==
    /\ HandoffTypeOK /\ TargetIsChosen /\ LookedFor /\ IsThere /\ ListsAreTrue
    /\ OncePerIssue /\ NothingIsLost

-----------------------------------------------------------------------------
(* Lemmas about the handoff *)

\* Storing a key adds that key and no other.
LEMMA RememberFacts ==
    ASSUME NEW list, NEW e, NEW result \in Remember(list, e)
    PROVE  result \subseteq list \cup {e} /\ e \in result
BY DEF Remember

\* What a step has to keep when it leaves GitHub, the lists and the mails alone.
handoffFrame == <<issue, indexed, comments, configured, delivered, warned, mails>>

LEMMA FrameKeeps ==
    ASSUME HandoffInv, UNCHANGED handoffFrame, UNCHANGED <<event, returned>>,
           step' \in Steps, target' \in 0..MaxIssues, cached' \in 0..MaxIssues,
           calls' \in Nat, closed' \in Nat,
           TargetIsChosen', LookedFor', IsThere', step' # "mailed"
    PROVE  HandoffInv'
<1> USE DEF HandoffInv, handoffFrame
<1>1. HandoffTypeOK'
  BY DEF HandoffTypeOK
<1>2. ListsAreTrue' /\ OncePerIssue' /\ NothingIsLost'
  BY DEF ListsAreTrue, OncePerIssue, NothingIsLost, Posted
<1> QED BY <1>1, <1>2

-----------------------------------------------------------------------------
(* The inductive invariant of the handoff *)

LEMMA HandoffInitInvariant == HandoffInit => HandoffInv
<1> SUFFICES ASSUME HandoffInit PROVE HandoffInv
  OBVIOUS
<1>1. 0 \in 0..MaxIssues
  BY HandoffAssumption
<1>2. HandoffTypeOK
  BY <1>1 DEF HandoffInit, HandoffTypeOK, Steps
<1>3. TargetIsChosen /\ LookedFor /\ IsThere /\ ListsAreTrue
  BY DEF HandoffInit, TargetIsChosen, LookedFor, IsThere, ListsAreTrue
<1>4. OncePerIssue /\ NothingIsLost
  BY DEF HandoffInit, OncePerIssue, NothingIsLost
<1> QED BY <1>2, <1>3, <1>4 DEF HandoffInv

LEMMA HandoffNextInvariant == HandoffInv /\ [HandoffNext]_handoffVars => HandoffInv'
<1> SUFFICES ASSUME HandoffInv, [HandoffNext]_handoffVars PROVE HandoffInv'
  OBVIOUS
<1>a. /\ HandoffTypeOK /\ TargetIsChosen /\ LookedFor /\ IsThere /\ ListsAreTrue
      /\ OncePerIssue /\ NothingIsLost
  BY DEF HandoffInv
<1>b. /\ step \in Steps /\ event \in Events /\ target \in 0..MaxIssues
      /\ cached \in 0..MaxIssues /\ calls \in Nat /\ closed \in Nat
      /\ comments \in [Issues -> [Events -> Nat]]
  BY <1>a DEF HandoffTypeOK
<1>c. /\ 0 \in 0..MaxIssues /\ Issues \subseteq 0..MaxIssues
      /\ \A i \in 0..MaxIssues : i # 0 => i \in Issues
  BY HandoffAssumption DEF Issues
<1>d. Candidate \in 0..MaxIssues
  BY <1>a, <1>c, HandoffAssumption DEF Candidate, HandoffTypeOK
<1>1. CASE \E e \in Events : Publish(e)
  <2>1. PICK e \in Events : Publish(e)
    BY <1>1
  <2>2. HandoffTypeOK'
    BY <1>a, <1>c, <2>1 DEF Publish, HandoffTypeOK, Steps, github, store
  <2>3. TargetIsChosen' /\ LookedFor' /\ IsThere' /\ ListsAreTrue'
    BY <1>a, <2>1 DEF Publish, TargetIsChosen, LookedFor, IsThere, ListsAreTrue, github, store
  <2>4. OncePerIssue' /\ NothingIsLost'
    BY <1>a, <2>1 DEF Publish, OncePerIssue, NothingIsLost, Posted, github
  <2> QED BY <2>2, <2>3, <2>4 DEF HandoffInv
<1>2. CASE CommandFails
  BY <1>2, <1>b, FrameKeeps DEF CommandFails, Goto, Steps, handoffFrame, github, store,
     TargetIsChosen, LookedFor, IsThere
<1>3. CASE Authenticate
  <2>1. TargetIsChosen' /\ LookedFor' /\ IsThere'
    BY <1>3 DEF Authenticate, Goto, Candidate, github, store, TargetIsChosen, LookedFor, IsThere
  <2> QED BY <1>3, <1>b, <2>1, FrameKeeps DEF Authenticate, Goto, Steps, handoffFrame, github, store
<1>4. CASE ViewCandidate
  <2>1. Candidate \in Issues
    BY <1>4, <1>a, <1>c, <1>d DEF ViewCandidate, TargetIsChosen
  <2>2. /\ step' \in {"check", "discover", "failed"} /\ target' \in 0..MaxIssues
        /\ step' = "check" => target' \in Issues
    BY <1>4, <1>b, <1>c, <2>1 DEF ViewCandidate, Goto, GotoOn
  <2>3. TargetIsChosen' /\ LookedFor' /\ IsThere'
    BY <2>2 DEF TargetIsChosen, LookedFor, IsThere
  <2>4. UNCHANGED <<handoffFrame, event, returned, cached, calls, closed>>
    BY <1>4 DEF ViewCandidate, Goto, GotoOn, handoffFrame, github, store
  <2> QED BY <1>b, <2>2, <2>3, <2>4, FrameKeeps DEF Steps
<1>5. CASE Discover
  <2>1. /\ step' \in {"check", "create", "failed"}
        /\ target' \in 0..MaxIssues /\ cached' \in 0..MaxIssues
        /\ step' = "check" => target' \in Issues
    BY <1>5, <1>a, <1>b, <1>c DEF Discover, Found, Goto, GotoOn, HandoffTypeOK
  <2>2. TargetIsChosen' /\ LookedFor' /\ IsThere'
    BY <2>1 DEF TargetIsChosen, LookedFor, IsThere
  <2>3. UNCHANGED <<handoffFrame, event, returned, calls, closed>>
    BY <1>5 DEF Discover, Goto, GotoOn, handoffFrame, github
  <2> QED BY <1>b, <2>1, <2>2, <2>3, FrameKeeps DEF Steps
<1>6. CASE CreateIssue
  <2>1. /\ issue' \in [Issues -> {"none", "open", "closed", "deleted"}]
        /\ step' \in {"rediscover", "failed"}
        /\ UNCHANGED <<indexed, comments, configured, store, mails, returned, calls, closed,
                       event, target>>
    BY <1>6, <1>a DEF CreateIssue, Goto, HandoffTypeOK
  <2>2. HandoffTypeOK'
    BY <1>a, <2>1 DEF HandoffTypeOK, Steps, store
  <2>3. TargetIsChosen' /\ LookedFor' /\ IsThere' /\ ListsAreTrue'
    BY <1>a, <2>1 DEF TargetIsChosen, LookedFor, IsThere, ListsAreTrue, store
  <2>4. OncePerIssue' /\ NothingIsLost'
    BY <1>a, <2>1 DEF OncePerIssue, NothingIsLost, Posted
  <2> QED BY <2>2, <2>3, <2>4 DEF HandoffInv
<1>7. CASE CreateRefused
  BY <1>7, <1>b, FrameKeeps DEF CreateRefused, Goto, Steps, handoffFrame, github, store,
     TargetIsChosen, LookedFor, IsThere
<1>8. CASE CheckDelivered
  <2>0. target \in Issues /\ target \in 0..MaxIssues
    BY <1>8, <1>a, <1>b DEF CheckDelivered, TargetIsChosen
  <2>1. comments[target][event] \in Nat
    BY <1>b, <2>0
  <2>2. CASE event \in delivered[target] /\ Return
    <3>1. comments[target][event] > 0
      BY <1>a, <1>b, <2>0, <2>2 DEF ListsAreTrue
    <3>2. HandoffTypeOK'
      BY <1>8, <1>a, <2>2 DEF CheckDelivered, Return, Goto, HandoffTypeOK, Steps, github, store
    <3>3. TargetIsChosen' /\ LookedFor' /\ IsThere' /\ ListsAreTrue' /\ OncePerIssue'
      BY <1>8, <1>a, <2>2 DEF CheckDelivered, Return, Goto, TargetIsChosen, LookedFor, IsThere,
         ListsAreTrue, OncePerIssue, github, store
    <3>4. NothingIsLost'
      BY <1>8, <1>a, <2>0, <2>2, <3>1 DEF CheckDelivered, Return, NothingIsLost, Posted, github
    <3> QED BY <3>2, <3>3, <3>4 DEF HandoffInv
  <2>3. CASE event \notin delivered[target] /\ UNCHANGED returned
    <3>1. /\ step' = (IF comments[target][event] > 0 THEN "record" ELSE "post")
          /\ UNCHANGED <<event, target, handoffFrame, cached, returned, calls, closed>>
      BY <1>8, <2>3 DEF CheckDelivered, AlreadyPosted, Return, Goto, handoffFrame, github, store
    <3>2. TargetIsChosen' /\ LookedFor' /\ IsThere'
      BY <2>0, <2>1, <3>1 DEF TargetIsChosen, LookedFor, IsThere, handoffFrame
    <3> QED BY <1>b, <3>1, <3>2, FrameKeeps DEF Steps
  <2> QED BY <1>8, <2>2, <2>3 DEF CheckDelivered
<1>9. CASE PostComment
  <2>0. target \in Issues /\ comments[target][event] = 0
    BY <1>9, <1>a DEF PostComment, TargetIsChosen, LookedFor
  <2>1. /\ comments' = [comments EXCEPT ![target][event] = @ + 1]
        /\ step' \in {"record", "failed"}
        /\ UNCHANGED <<event, target, issue, indexed, configured, store, mails, returned, calls,
                       closed>>
    BY <1>9 DEF PostComment, Goto
  <2>2. /\ comments' \in [Issues -> [Events -> Nat]] /\ comments'[target][event] = 1
        /\ \A i \in Issues, e \in Events :
              comments'[i][e] = IF i = target /\ e = event THEN 1 ELSE comments[i][e]
    BY <1>b, <2>0, <2>1
  <2>3. HandoffTypeOK'
    BY <1>a, <2>1, <2>2 DEF HandoffTypeOK, Steps, store
  <2>4. TargetIsChosen' /\ LookedFor' /\ IsThere' /\ ListsAreTrue'
    BY <1>a, <2>0, <2>1, <2>2 DEF TargetIsChosen, LookedFor, IsThere, ListsAreTrue, store
  <2>5. OncePerIssue'
    BY <1>a, <2>2 DEF OncePerIssue
  <2>6. NothingIsLost'
    BY <1>a, <2>1, <2>2 DEF NothingIsLost, Posted, HandoffTypeOK
  <2> QED BY <2>3, <2>4, <2>5, <2>6 DEF HandoffInv
<1>10. CASE RecordDelivery
  <2>0. target \in Issues /\ comments[target][event] > 0
    BY <1>10, <1>a DEF RecordDelivery, TargetIsChosen, IsThere
  <2>1. PICK list \in Remember(delivered[target], event) :
           delivered' = [delivered EXCEPT ![target] = list]
    BY <1>10 DEF RecordDelivery
  <2>2. list \subseteq delivered[target] \cup {event}
    BY RememberFacts
  <2>3. /\ delivered' \in [Issues -> SUBSET Events]
        /\ \A i \in Issues : delivered'[i] \subseteq
                                delivered[i] \cup (IF i = target THEN {event} ELSE {})
    BY <1>a, <1>b, <2>0, <2>1, <2>2 DEF HandoffTypeOK
  <2>4. /\ step' = "idle" /\ returned' = returned \cup {event} /\ cached' = target
        /\ UNCHANGED <<event, target, github, configured, warned, mails, calls, closed>>
    BY <1>10 DEF RecordDelivery, Return, Goto
  <2>5. HandoffTypeOK'
    BY <1>a, <1>c, <2>0, <2>3, <2>4 DEF HandoffTypeOK, Steps, github
  <2>6. TargetIsChosen' /\ LookedFor' /\ IsThere' /\ OncePerIssue'
    BY <1>a, <2>4 DEF TargetIsChosen, LookedFor, IsThere, OncePerIssue, github
  <2>7. ListsAreTrue'
    BY <1>a, <2>0, <2>3, <2>4 DEF ListsAreTrue, github
  <2>8. NothingIsLost'
    BY <1>a, <2>0, <2>4 DEF NothingIsLost, Posted, github
  <2> QED BY <2>5, <2>6, <2>7, <2>8 DEF HandoffInv
<1>11. CASE SkipWarning
  <2>1. event \in mails
    BY <1>11, <1>a DEF SkipWarning, WarningStored, ListsAreTrue
  <2>2. HandoffTypeOK'
    BY <1>11, <1>a DEF SkipWarning, Return, Goto, HandoffTypeOK, Steps, github, store
  <2>3. TargetIsChosen' /\ LookedFor' /\ IsThere' /\ ListsAreTrue' /\ OncePerIssue'
    BY <1>11, <1>a DEF SkipWarning, Return, Goto, TargetIsChosen, LookedFor, IsThere, ListsAreTrue,
       OncePerIssue, github, store
  <2>4. NothingIsLost'
    BY <1>11, <1>a, <2>1 DEF SkipWarning, Return, NothingIsLost, Posted, github
  <2> QED BY <2>2, <2>3, <2>4 DEF HandoffInv
<1>12. CASE MailWarning
  <2>1. HandoffTypeOK'
    BY <1>12, <1>a DEF MailWarning, Goto, HandoffTypeOK, Steps, github, store
  <2>2. TargetIsChosen' /\ LookedFor' /\ IsThere' /\ ListsAreTrue' /\ OncePerIssue'
    BY <1>12, <1>a DEF MailWarning, Goto, TargetIsChosen, LookedFor, IsThere, ListsAreTrue,
       OncePerIssue, github, store
  <2>3. NothingIsLost'
    BY <1>12, <1>a DEF MailWarning, NothingIsLost, Posted, github
  <2> QED BY <2>1, <2>2, <2>3 DEF HandoffInv
<1>13. CASE MailFails
  BY <1>13, <1>b, FrameKeeps DEF MailFails, AfterMailFailure, Goto, Steps, handoffFrame, github,
     store, TargetIsChosen, LookedFor, IsThere
<1>14. CASE StoreWarning
  <2>1. /\ warned' \subseteq warned \cup {event} /\ event \in mails
    BY <1>14, <1>a, RememberFacts DEF StoreWarning, ListsAreTrue
  <2>2. /\ step' = "idle" /\ returned' = returned \cup {event}
        /\ UNCHANGED <<event, target, github, configured, cached, delivered, mails, calls, closed>>
    BY <1>14 DEF StoreWarning, Return, Goto
  <2>3. HandoffTypeOK'
    BY <1>a, <2>1, <2>2 DEF HandoffTypeOK, Steps, github
  <2>4. TargetIsChosen' /\ LookedFor' /\ IsThere' /\ ListsAreTrue' /\ OncePerIssue'
    BY <1>a, <2>1, <2>2 DEF TargetIsChosen, LookedFor, IsThere, ListsAreTrue, OncePerIssue, github
  <2>5. NothingIsLost'
    BY <1>a, <2>1, <2>2 DEF NothingIsLost, Posted, github
  <2> QED BY <2>3, <2>4, <2>5 DEF HandoffInv
<1>15. CASE CallCrashes
  BY <1>15, <1>b, FrameKeeps DEF CallCrashes, Goto, Steps, handoffFrame, github, store,
     TargetIsChosen, LookedFor, IsThere
<1>16. CASE \E i \in Issues : Index(i) \/ \E how \in {"closed", "deleted"} : OwnerEnds(i, how)
  <2>1. /\ issue' \in [Issues -> {"none", "open", "closed", "deleted"}] /\ indexed' \subseteq Issues
        /\ closed' \in Nat
        /\ UNCHANGED <<comments, configured, store, mails, call, returned, calls>>
    BY <1>16, <1>a DEF Index, OwnerEnds, HandoffTypeOK
  <2>2. HandoffTypeOK'
    BY <1>a, <2>1 DEF HandoffTypeOK, store, call
  <2>3. TargetIsChosen' /\ LookedFor' /\ IsThere' /\ ListsAreTrue'
    BY <1>a, <2>1 DEF TargetIsChosen, Candidate, LookedFor, IsThere, ListsAreTrue, store, call
  <2>4. OncePerIssue' /\ NothingIsLost'
    BY <1>a, <2>1 DEF OncePerIssue, NothingIsLost, Posted
  <2> QED BY <2>2, <2>3, <2>4 DEF HandoffInv
<1>17. CASE UNCHANGED handoffVars
  <2>1. HandoffTypeOK'
    BY <1>a, <1>17 DEF handoffVars, HandoffTypeOK, github, store, call
  <2>2. TargetIsChosen' /\ LookedFor' /\ IsThere' /\ ListsAreTrue'
    BY <1>a, <1>17 DEF handoffVars, TargetIsChosen, Candidate, LookedFor, IsThere, ListsAreTrue,
       github, store, call
  <2>3. OncePerIssue' /\ NothingIsLost'
    BY <1>a, <1>17 DEF handoffVars, OncePerIssue, NothingIsLost, Posted, github
  <2> QED BY <2>1, <2>2, <2>3 DEF HandoffInv
<1> QED BY <1>1, <1>2, <1>3, <1>4, <1>5, <1>6, <1>7, <1>8, <1>9, <1>10, <1>11, <1>12, <1>13, <1>14,
           <1>15, <1>16, <1>17 DEF HandoffNext, Worker, Client

\* What holds in each step of a publication, for any number of failures and crashes.
THEOREM HandoffInvariant == HandoffSpec => []HandoffInv
BY HandoffInitInvariant, HandoffNextInvariant, PTL DEF HandoffSpec

\* Every variable keeps its type.
THEOREM HandoffTypeCorrect == HandoffSpec => []HandoffTypeOK
<1>1. HandoffInv => HandoffTypeOK
  BY DEF HandoffInv
<1> QED BY <1>1, HandoffInvariant, PTL

\* No retry, restart or shortened list makes publish post an event twice on one issue.
THEOREM PostedOnce == HandoffSpec => []OncePerIssue
<1>1. HandoffInv => OncePerIssue
  BY DEF HandoffInv
<1> QED BY <1>1, HandoffInvariant, PTL

\* When _publish_handoff has returned, the event was posted or the owner was told.
THEOREM NoSilentLoss == HandoffSpec => []NothingIsLost
<1>1. HandoffInv => NothingIsLost
  BY DEF HandoffInv
<1> QED BY <1>1, HandoffInvariant, PTL
=============================================================================
