----------------------- MODULE LocalCodexServiceProofs ----------------------
(***************************************************************************)
(* Proofs about the service that runs the worker, for any number of        *)
(* launches, commands and restarts, and about its event buffer, for any    *)
(* capacity and any number of events.                                      *)
(*                                                                         *)
(* Two workers never run at once, and the host may exit when the status    *)
(* says so.  The argument follows the ownership of the worker slot: the    *)
(* supervisor owns it from the look that decides to launch until the       *)
(* process is published, `proc' owns it from then until the process was    *)
(* seen dead, and nobody else creates a process.                           *)
(*                                                                         *)
(* The service is busy only while something will release it.  The claim    *)
(* is followed along its way: the command in the queue or in the pipe, its *)
(* answer in the event pipe, then the task in the worker, then the         *)
(* announcement of its end; a worker that announced a task is on it or has *)
(* announced the end behind it.  And a crash that nothing explains is      *)
(* reported: only a forced stop marks a process, and the mark ends with it. *)
(*                                                                         *)
(* The buffer keeps the order and accounts for every loss.  What is under  *)
(* way holds _publish_lock, so the event that is being written has the     *)
(* last number and follows all that is buffered, delivered or on disk; an  *)
(* eviction or a refusal moves one verbose event to the lost ones and one  *)
(* to the counter, and a poll moves the counter into one warning.          *)
(***************************************************************************)
EXTENDS LocalCodexService, EventBuffer, FiniteSetTheorems, SequenceTheorems, TLAPS

-----------------------------------------------------------------------------
(* The worker slot *)

SlotType ==
    /\ wantStart \in BOOLEAN /\ closing \in BOOLEAN
    /\ launches \in 0..MaxLaunches /\ proc \in 0..MaxLaunches
    /\ os \in [Launches -> {"none", "alive", "left", "crashed", "killed"}]

NoneAlive == \A p \in Launches : os[p] # "alive"

OnlyLatestAlive == \A p \in Launches : os[p] = "alive" => p = launches

\* who owns the worker slot
SlotOwned ==
    /\ sup \in {"launching", "spawned"} => proc = 0
    /\ sup = "launching" => NoneAlive
    /\ proc # 0 => proc = launches
    /\ proc = 0 /\ sup # "spawned" => NoneAlive
    /\ sup \in {"poll", "reap", "expect", "kill", "clear", "beat"} => proc # 0
    /\ sup = "reap" => os[proc] # "alive"

\* what the status line says while a launch is wanted, scheduled or under way
StatusTellsLaunch ==
    /\ sup \in {"launching", "spawned"} => workerState # "stopped"
    /\ wantStart /\ proc = 0 => workerState # "stopped"
    /\ wantStart /\ proc # 0 => sup = "loop"
    /\ restartAt # "none" => proc = 0 /\ sup \notin {"launching", "spawned"}
    /\ restartAt # "none" /\ sup # "done" => workerState # "stopped"

SInv == SlotType /\ OnlyLatestAlive /\ SlotOwned /\ StatusTellsLaunch

slotVars == <<wantStart, closing, restartAt, proc, workerState, sup, launches, os>>

LEMMA SlotUnchanged == SInv /\ UNCHANGED slotVars => SInv'
  BY DEF SInv, SlotType, NoneAlive, OnlyLatestAlive, SlotOwned, StatusTellsLaunch, slotVars

\* a process that ends, in whichever way, only makes the slot emptier
LEMMA SlotAfterExit ==
  ASSUME SInv, NEW p \in Launches, NEW how \in {"left", "crashed", "killed"},
         os' = [os EXCEPT ![p] = how],
         UNCHANGED <<wantStart, closing, restartAt, proc, workerState, sup, launches>>
  PROVE  SInv'
  BY DEF SInv, SlotType, NoneAlive, OnlyLatestAlive, SlotOwned, StatusTellsLaunch, Launches

LEMMA SlotInit == Init => SInv
<1> SUFFICES ASSUME Init PROVE SInv
    OBVIOUS
<1>1. SlotType
  <2>1. os \in [Launches -> {"none", "alive", "left", "crashed", "killed"}]
    BY DEF Init
  <2>2. 0 \in 0..MaxLaunches
    BY ServiceAssumption
  <2> QED BY <2>1, <2>2 DEF Init, SlotType
<1>2. \A p \in Launches : os[p] = "none"
  BY DEF Init
<1> QED BY <1>1, <1>2 DEF Init, SInv, NoneAlive, OnlyLatestAlive, SlotOwned, StatusTellsLaunch

\* The GUI's and the host's calls.
LEMMA SlotUser == SInv /\ (User \/ UserCallEnds \/ Shutdown) => SInv'
<1> SUFFICES ASSUME SInv, User \/ UserCallEnds \/ Shutdown PROVE SInv'
    OBVIOUS
<1>1. CASE Start \/ RestartStarts
  BY <1>1 DEF Start, RestartStarts, StartSection, SInv, SlotType, NoneAlive, OnlyLatestAlive,
     SlotOwned, StatusTellsLaunch, flagVars, procVars
<1>2. CASE RestartWorker
  BY <1>2 DEF RestartWorker, SInv, SlotType, NoneAlive, OnlyLatestAlive,
     SlotOwned, StatusTellsLaunch, procVars, supVars
<1>3. CASE Submit \/ StopTask \/ StopArmsDeadline
  <2>1. UNCHANGED slotVars
    BY <1>3 DEF Submit, StopTask, StopArmsDeadline, slotVars, flagVars, procVars, supVars
  <2> QED BY <2>1, SlotUnchanged
<1>4. CASE Shutdown
  BY <1>4 DEF Shutdown, StateAtShutdown, SInv, SlotType, NoneAlive, OnlyLatestAlive,
     SlotOwned, StatusTellsLaunch, procVars, supVars
<1> QED BY <1>1, <1>2, <1>3, <1>4 DEF User, UserCallEnds

\* The pipe threads touch the status line only while they serve the current process.
LEMMA SlotPipes == SInv /\ PipeThreads => SInv'
<1> SUFFICES ASSUME SInv, PipeThreads PROVE SInv'
    OBVIOUS
<1>1. CASE WriteCommand
  <2>1. UNCHANGED slotVars
    BY <1>1 DEF WriteCommand, slotVars, flagVars, procVars, supVars
  <2> QED BY <2>1, SlotUnchanged
<1>2. CASE WriteFails
  BY <1>2 DEF WriteFails, SInv, SlotType, NoneAlive, OnlyLatestAlive, SlotOwned,
     StatusTellsLaunch, flagVars, supVars
<1>3. ASSUME NEW p \in Launches, ReadEvent(p) PROVE SInv'
  <2>1. /\ UNCHANGED <<wantStart, closing, restartAt, proc, sup, launches, os>>
        /\ workerState' \in {workerState, "running"}
        /\ workerState' # workerState => proc = p
    BY <1>3 DEF ReadEvent, Heeds, flagVars, procVars, supVars
  <2> QED BY <2>1 DEF SInv, SlotType, NoneAlive, OnlyLatestAlive, SlotOwned, StatusTellsLaunch
<1> QED BY <1>1, <1>2, <1>3 DEF PipeThreads

\* The supervisor takes the slot, fills it, publishes it, and empties it.
LEMMA SlotSupervisor == SInv /\ Supervisor => SInv'
<1> SUFFICES ASSUME SInv, Supervisor PROVE SInv'
    OBVIOUS
<1> USE DEF SInv, SlotType, NoneAlive, OnlyLatestAlive, SlotOwned, StatusTellsLaunch
<1>1. CASE SupervisorLooks
  BY <1>1 DEF SupervisorLooks, MayLaunch, procVars
<1>2. CASE SpawnFails
  BY <1>2 DEF SpawnFails, flagVars, procVars
<1>3. CASE Spawn
  BY <1>3, ServiceAssumption DEF Spawn, flagVars, procVars, Launches
<1>4. CASE PublishProcess
  <2>1. /\ sup = "spawned" /\ sup' = "loop" /\ proc' = launches
        /\ workerState' \in {"stopping", "running"}
        /\ UNCHANGED <<wantStart, closing, restartAt, launches, os>>
    BY <1>4 DEF PublishProcess, flagVars
  <2>2. restartAt = "none"
    BY <2>1
  <2>3. launches = 0 => NoneAlive
    BY ServiceAssumption DEF Launches
  <2> QED BY <2>1, <2>2, <2>3
<1>5. CASE Poll
  BY <1>5 DEF Poll, Alive, flagVars, procVars, Launches
<1>6. CASE Reap
  <2>1. /\ sup = "reap" /\ sup' = "loop" /\ proc' = 0
        /\ workerState' = "stopped" \/ workerState' = "crashed"
        /\ restartAt' # restartAt => workerState' = "crashed"
        /\ UNCHANGED <<wantStart, closing, launches, os>>
    BY <1>6 DEF Reap
  <2>2. restartAt = "none" /\ ~wantStart /\ NoneAlive
    BY <2>1
  <2> QED BY <2>1, <2>2, ServiceAssumption
<1>7. CASE ExpectExit \/ ClearDeadline
  BY <1>7 DEF ExpectExit, ClearDeadline, flagVars, procVars
<1>8. CASE Kill
  BY <1>8 DEF Kill, Exits, Alive, Launches, flagVars, procVars, workerVars
<1>9. CASE CheckHeartbeat
  BY <1>9 DEF CheckHeartbeat, flagVars, procVars
<1> QED BY <1>1, <1>2, <1>3, <1>4, <1>5, <1>6, <1>7, <1>8, <1>9 DEF Supervisor

\* Time only makes a scheduled restart due; a worker only ever ends itself.
LEMMA SlotWorker == SInv /\ (Time \/ Worker) => SInv'
<1> SUFFICES ASSUME SInv, Time \/ Worker PROVE SInv'
    OBVIOUS
<1>1. CASE DeadlineExpires
  <2>1. UNCHANGED slotVars
    BY <1>1 DEF DeadlineExpires, slotVars, flagVars, procVars, supVars
  <2> QED BY <2>1, SlotUnchanged
<1>2. CASE RestartDelayExpires
  BY <1>2 DEF RestartDelayExpires, SInv, SlotType, NoneAlive, OnlyLatestAlive, SlotOwned,
     StatusTellsLaunch, procVars, supVars
<1>3. ASSUME NEW p \in Launches,
             WorkerReads(p) \/ WorkerSeesEof(p) \/ WorkerEndsTask(p) \/ WorkerBeats(p)
      PROVE  SInv'
  <2>1. UNCHANGED slotVars
    BY <1>3 DEF WorkerReads, WorkerSeesEof, WorkerEndsTask, WorkerBeats, serviceVars, slotVars,
       flagVars, procVars, supVars
  <2> QED BY <2>1, SlotUnchanged
<1>4. ASSUME NEW p \in Launches, WorkerExits(p) \/ WorkerCrashes(p) PROVE SInv'
  <2>1. \E how \in {"left", "crashed", "killed"} : os' = [os EXCEPT ![p] = how]
    BY <1>4 DEF WorkerExits, WorkerCrashes, Exits
  <2>2. UNCHANGED <<wantStart, closing, restartAt, proc, workerState, sup, launches>>
    BY <1>4 DEF WorkerExits, WorkerCrashes, serviceVars, flagVars, procVars, supVars
  <2> QED BY <2>1, <2>2, SlotAfterExit
<1> QED BY <1>1, <1>2, <1>3, <1>4 DEF Time, Worker

\* The slot invariant holds in every reachable state.
THEOREM SlotInvariant == Spec => []SInv
<1>1. SInv /\ [Next]_vars => SInv'
  <2> SUFFICES ASSUME SInv, [Next]_vars PROVE SInv'
      OBVIOUS
  <2>1. CASE UNCHANGED vars
    <3>1. UNCHANGED slotVars
      BY <2>1 DEF vars, slotVars, flagVars, procVars, supVars
    <3> QED BY <3>1, SlotUnchanged
  <2> QED BY <2>1, SlotUser, SlotPipes, SlotSupervisor, SlotWorker DEF Next
<1> QED BY <1>1, SlotInit, PTL DEF Spec

\* Two worker processes are never alive at once, whatever start, restart, shutdown, crashes and
\* slow process creations overlap (service.py, _supervise and _launch).
THEOREM OneWorkerAtMost == Spec => []AtMostOneWorker
<1>1. SInv => AtMostOneWorker
  BY DEF SInv, OnlyLatestAlive, AtMostOneWorker, Alive
<1> QED BY <1>1, SlotInvariant, PTL

\* When the status reads `stopped' with no pid during a shutdown, no worker is left and none
\* is being created (the docstring of shutdown(), which the desktop host relies on).
THEOREM HostExitIsSafe == Spec => []HostMayExit
<1>1. SInv => HostMayExit
  BY DEF SInv, SlotOwned, StatusTellsLaunch, NoneAlive, HostMayExit, Alive
<1> QED BY <1>1, SlotInvariant, PTL

-----------------------------------------------------------------------------
(* The claim on the worker *)

\* some element of a pipe or of the queue belongs to S
Some(s, S) == \E i \in 1..Len(s) : s[i] \in S

TaskCommand(id) == {c \in Commands : c.kind = "task" /\ c.id = id}
Started == {e \in Events : e.type = "started"}
Ended == {e \in Events : e.type = "ended"}
ErrorAbout(id) == {e \in Events : e.type = "error" /\ e.cmd = id}

\* every task that was announced as started was also announced as ended
AllEnded(events) ==
    \A i \in 1..Len(events) :
        events[i] \in Started => \E j \in 1..Len(events) : j > i /\ events[j] \in Ended

\* What is put behind, or taken from the front of, a pipe.
LEMMA SomeAppend ==
  ASSUME NEW T, NEW s \in Seq(T), NEW e \in T, NEW S
  PROVE  /\ Append(s, e) \in Seq(T)
         /\ Some(s, S) => Some(Append(s, e), S)
         /\ e \in S => Some(Append(s, e), S)
<1>1. /\ Append(s, e) \in Seq(T) /\ Len(Append(s, e)) = Len(s) + 1 /\ Len(s) \in Nat
      /\ \A i \in 1..Len(s) : Append(s, e)[i] = s[i]
      /\ Append(s, e)[Len(s) + 1] = e
  BY AppendProperties
<1>2. Some(s, S) => Some(Append(s, e), S)
  <2> SUFFICES ASSUME NEW i \in 1..Len(s), s[i] \in S PROVE Some(Append(s, e), S)
      BY DEF Some
  <2>1. i \in 1..Len(Append(s, e)) /\ Append(s, e)[i] \in S
    BY <1>1
  <2> QED BY <2>1 DEF Some
<1>3. e \in S => Some(Append(s, e), S)
  <2>1. Len(s) + 1 \in 1..Len(Append(s, e))
    BY <1>1
  <2> QED BY <1>1, <2>1 DEF Some
<1> QED BY <1>1, <1>2, <1>3

LEMMA SomeTail ==
  ASSUME NEW T, NEW s \in Seq(T), s # <<>>, NEW S
  PROVE  /\ Head(s) \in T /\ Tail(s) \in Seq(T)
         /\ Some(s, S) => Head(s) \in S \/ Some(Tail(s), S)
<1>1. /\ Head(s) \in T /\ Tail(s) \in Seq(T) /\ Len(Tail(s)) = Len(s) - 1 /\ Len(s) \in Nat
      /\ \A i \in 1..Len(Tail(s)) : Tail(s)[i] = s[i + 1]
      /\ Head(s) = s[1]
  BY HeadTailProperties
<1>2. ASSUME NEW i \in 1..Len(s), s[i] \in S PROVE Head(s) \in S \/ Some(Tail(s), S)
  <2>1. CASE i = 1
    BY <1>1, <1>2, <2>1
  <2>2. CASE i # 1
    <3>1. i - 1 \in 1..Len(Tail(s)) /\ (i - 1) + 1 = i
      BY <1>1, <2>2
    <3>2. Tail(s)[i - 1] \in S
      BY <1>1, <1>2, <3>1
    <3> QED BY <3>1, <3>2 DEF Some
  <2> QED BY <2>1, <2>2
<1> QED BY <1>1, <1>2 DEF Some

LEMMA AllEndedAppend ==
  ASSUME NEW s \in Seq(Events), NEW e \in Events, e \notin Started,
         AllEnded(s) \/ e \in Ended
  PROVE  AllEnded(Append(s, e))
<1>1. /\ Len(Append(s, e)) = Len(s) + 1 /\ Len(s) \in Nat
      /\ \A i \in 1..Len(s) : Append(s, e)[i] = s[i]
      /\ Append(s, e)[Len(s) + 1] = e
  BY AppendProperties
<1> SUFFICES ASSUME NEW i \in 1..Len(Append(s, e)), Append(s, e)[i] \in Started
             PROVE  \E j \in 1..Len(Append(s, e)) : j > i /\ Append(s, e)[j] \in Ended
    BY DEF AllEnded
<1>2. i \in 1..Len(s) /\ s[i] \in Started
  BY <1>1
<1>3. CASE AllEnded(s)
  <2>1. PICK j \in 1..Len(s) : j > i /\ s[j] \in Ended
    BY <1>2, <1>3 DEF AllEnded
  <2>2. j \in 1..Len(Append(s, e)) /\ Append(s, e)[j] \in Ended
    BY <1>1, <2>1
  <2> QED BY <2>1, <2>2
<1>4. CASE e \in Ended
  <2>1. Len(s) + 1 \in 1..Len(Append(s, e)) /\ Len(s) + 1 > i
    BY <1>1, <1>2
  <2> QED BY <1>1, <1>4, <2>1
<1> QED BY <1>3, <1>4

LEMMA AllEndedTail ==
  ASSUME NEW s \in Seq(Events), s # <<>>, AllEnded(s)
  PROVE  AllEnded(Tail(s)) /\ (Head(s) \in Started => Some(Tail(s), Ended))
<1>1. /\ Len(Tail(s)) = Len(s) - 1 /\ Len(s) \in Nat /\ Len(s) > 0
      /\ \A i \in 1..Len(Tail(s)) : Tail(s)[i] = s[i + 1]
      /\ Head(s) = s[1]
  BY HeadTailProperties
<1>2. ASSUME NEW i \in 1..Len(s), s[i] \in Started
      PROVE  \E j \in 1..Len(Tail(s)) : j > i - 1 /\ Tail(s)[j] \in Ended
  <2>1. PICK j \in 1..Len(s) : j > i /\ s[j] \in Ended
    BY <1>2 DEF AllEnded
  <2>2. j - 1 \in 1..Len(Tail(s)) /\ (j - 1) + 1 = j /\ j - 1 > i - 1
    BY <1>1, <2>1
  <2> QED BY <1>1, <2>1, <2>2
<1>3. AllEnded(Tail(s))
  <2> SUFFICES ASSUME NEW i \in 1..Len(Tail(s)), Tail(s)[i] \in Started
               PROVE  \E j \in 1..Len(Tail(s)) : j > i /\ Tail(s)[j] \in Ended
      BY DEF AllEnded
  <2>1. i + 1 \in 1..Len(s) /\ s[i + 1] \in Started /\ (i + 1) - 1 = i
    BY <1>1
  <2> QED BY <1>2, <2>1
<1>4. Head(s) \in Started => Some(Tail(s), Ended)
  <2>1. 1 \in 1..Len(s)
    BY <1>1
  <2> QED BY <1>1, <1>2, <2>1 DEF Some
<1> QED BY <1>3, <1>4

\* shutdown() and a late launch only put commands behind the others
LEMMA ShutdownKeeps ==
  ASSUME NEW q \in Seq(Commands), NEW S
  PROVE  WithShutdown(q) \in Seq(Commands) /\ (Some(q, S) => Some(WithShutdown(q), S))
<1> DEFINE stop == [kind |-> "stop", id |-> 0]
           end  == [kind |-> "shutdown", id |-> 0]
           one  == IF Len(q) < QueueCapacity THEN Append(q, stop) ELSE q
<1>1. stop \in Commands /\ end \in Commands
  BY ServiceAssumption DEF Commands
<1>2. WithShutdown(q) = IF Len(one) < QueueCapacity THEN Append(one, end) ELSE one
  BY DEF WithShutdown
<1> HIDE DEF stop, end
<1>3. one \in Seq(Commands) /\ (Some(q, S) => Some(one, S))
  BY <1>1, SomeAppend
<1> HIDE DEF one
<1>4. Append(one, end) \in Seq(Commands) /\ (Some(one, S) => Some(Append(one, end), S))
  BY <1>1, <1>3, SomeAppend
<1> QED BY <1>2, <1>3, <1>4

\* the channels between the service and the workers
ChannelType ==
    /\ issued \in 0..MaxCommands
    /\ queue \in Seq(Commands)
    /\ phase \in [Launches -> {"idle", "running", "cancelled"}]
    /\ running \in [Launches -> 0..MaxCommands] /\ leaving \in [Launches -> BOOLEAN]
    /\ stdin \in [Launches -> Seq(Commands)]
    /\ stdout \in [Launches -> Seq(Events)]

\* the process is beyond use: the worker is gone or going, or nobody writes to it any more
Going == pipeBroken \/ os[proc] # "alive" \/ leaving[proc]

\* the command the service waits for is on its way, or the answer to it is
CommandHeld ==
    \/ Some(queue, TaskCommand(pending)) \/ Some(stdin[proc], TaskCommand(pending))
    \/ Some(stdout[proc], Started) \/ Some(stdout[proc], ErrorAbout(pending))

\* the task that was announced is under way, or the announcement of its end is
TaskHeld == phase[proc] # "idle" \/ Some(stdout[proc], Ended)

ClaimIsHeld ==
    active => /\ proc # 0
              /\ \/ Going
                 \/ pending # 0 /\ CommandHeld
                 \/ pending = 0 /\ TaskHeld

\* a worker that announced a task is on it, or has announced its end
StartedIsFollowed ==
    \A p \in Launches : os[p] \in {"none", "alive"} => phase[p] # "idle" \/ AllEnded(stdout[p])

\* a process that was not created yet has no fate
CreatedInOrder == \A p \in Launches : p > launches => os[p] = "none"

CInv == ChannelType /\ ClaimIsHeld /\ StartedIsFollowed

LEMMA FreshProcess == SInv /\ CreatedInOrder /\ [Next]_vars => CreatedInOrder'
<1> SUFFICES ASSUME SInv, CreatedInOrder, [Next]_vars PROVE CreatedInOrder'
    OBVIOUS
<1> USE DEF flagVars, procVars, taskVars, channelVars, uiVars, supVars, workerVars, serviceVars
<1>1. /\ launches \in Nat /\ MaxLaunches \in Nat
      /\ os \in [Launches -> {"none", "alive", "left", "crashed", "killed"}]
  BY ServiceAssumption DEF SInv, SlotType
<1>2. ASSUME UNCHANGED <<launches, os>> PROVE CreatedInOrder'
  BY <1>2 DEF CreatedInOrder
<1>3. CASE User \/ UserCallEnds \/ Shutdown
  BY <1>2, <1>3 DEF User, UserCallEnds, Start, RestartStarts, RestartWorker, Submit, StopTask,
     StopArmsDeadline, Shutdown
<1>4. CASE PipeThreads \/ Time
  BY <1>2, <1>4 DEF PipeThreads, WriteCommand, WriteFails, ReadEvent, Time, DeadlineExpires,
     RestartDelayExpires
<1>5. ASSUME NEW p \in Launches, Alive(p), NEW how, os' = [os EXCEPT ![p] = how],
             launches' = launches
      PROVE  CreatedInOrder'
  BY <1>1, <1>5 DEF CreatedInOrder, Alive
<1>6. CASE Supervisor
  <2>1. CASE SupervisorLooks \/ SpawnFails \/ PublishProcess \/ Poll \/ Reap \/ ExpectExit
             \/ ClearDeadline \/ CheckHeartbeat
    BY <1>2, <2>1 DEF SupervisorLooks, SpawnFails, PublishProcess, Poll, Reap, ExpectExit,
       ClearDeadline, CheckHeartbeat
  <2>2. CASE Spawn
    <3>1. launches' = launches + 1 /\ os' = [os EXCEPT ![launches + 1] = "alive"]
      BY <2>2 DEF Spawn
    <3> QED BY <1>1, <3>1 DEF CreatedInOrder, Launches
  <2>3. CASE Kill
    BY <1>2, <1>5, <2>3 DEF Kill, Exits, Alive
  <2> QED BY <1>6, <2>1, <2>2, <2>3 DEF Supervisor
<1>7. CASE Worker
  BY <1>2, <1>5, <1>7 DEF Worker, WorkerReads, WorkerSeesEof, WorkerEndsTask, WorkerBeats,
     WorkerExits, WorkerCrashes, Exits
<1>8. CASE UNCHANGED vars
  BY <1>2, <1>8 DEF vars
<1> QED BY <1>3, <1>4, <1>6, <1>7, <1>8 DEF Next

LEMMA ProcIsLaunch == SInv /\ proc # 0 => proc \in Launches
  BY ServiceAssumption DEF SInv, SlotType, Launches

\* What the user, the supervisor and time do leaves the pipes of the processes alone.
LEMMA PipesKept ==
  ASSUME CInv, UNCHANGED <<phase, running, leaving, stdin, stdout>>,
         issued' \in 0..MaxCommands, queue' \in Seq(Commands),
         \A p \in Launches : os'[p] \in {"none", "alive"} => os[p] \in {"none", "alive"}
  PROVE  ChannelType' /\ StartedIsFollowed'
  BY DEF CInv, ChannelType, StartedIsFollowed

\* A claim that was held stays held while nothing that holds it is taken away.
LEMMA ClaimKept ==
  ASSUME ClaimIsHeld, active' => active, UNCHANGED <<proc, pending>>,
         active /\ proc # 0 /\ Going => Going',
         active /\ proc # 0 /\ CommandHeld => Going' \/ CommandHeld',
         active /\ proc # 0 /\ TaskHeld => Going' \/ TaskHeld'
  PROVE  ClaimIsHeld'
  BY DEF ClaimIsHeld

LEMMA ClaimInit == Init => CInv
<1> SUFFICES ASSUME Init PROVE CInv
    OBVIOUS
<1>1. ChannelType
  BY ServiceAssumption DEF Init, ChannelType
<1>2. ClaimIsHeld
  BY DEF Init, ClaimIsHeld
<1>3. StartedIsFollowed
  <2> SUFFICES ASSUME NEW p \in Launches PROVE AllEnded(stdout[p])
      BY DEF StartedIsFollowed
  <2>1. stdout[p] = <<>>
    BY DEF Init
  <2> QED BY <2>1 DEF AllEnded
<1> QED BY <1>1, <1>2, <1>3 DEF CInv

LEMMA ClaimStutter == CInv /\ UNCHANGED vars => CInv'
<1> SUFFICES ASSUME CInv, UNCHANGED vars PROVE CInv'
    OBVIOUS
<1>1. UNCHANGED <<issued, queue, phase, running, leaving, stdin, stdout, os, active, proc, pending,
                  pipeBroken>>
  BY DEF vars, procVars, taskVars, channelVars, uiVars, workerVars
<1> QED BY <1>1 DEF CInv, ChannelType, ClaimIsHeld, StartedIsFollowed, Going, CommandHeld,
       TaskHeld

\* The facade: the claim is taken together with the place in the queue.
LEMMA ClaimUser == CInv /\ SInv /\ (User \/ UserCallEnds \/ Shutdown) => CInv'
<1> SUFFICES ASSUME CInv, SInv, User \/ UserCallEnds \/ Shutdown PROVE CInv'
    OBVIOUS
<1> USE DEF flagVars, procVars, taskVars, channelVars, uiVars, supVars, workerVars
<1>1. /\ UNCHANGED <<os, phase, running, leaving, stdin, stdout, proc, pipeBroken>>
      /\ issued \in 0..MaxCommands /\ queue \in Seq(Commands) /\ MaxCommands \in Nat
      /\ proc # 0 => proc \in Launches
  BY ServiceAssumption, ProcIsLaunch DEF User, UserCallEnds, Start, RestartStarts, RestartWorker,
     Submit, StopTask, StopArmsDeadline, Shutdown, CInv, ChannelType
<1>2. ASSUME UNCHANGED <<active, pending>>, issued' \in 0..MaxCommands, queue' \in Seq(Commands),
             \A id : Some(queue, TaskCommand(id)) => Some(queue', TaskCommand(id))
      PROVE  CInv'
  <2>1. ChannelType' /\ StartedIsFollowed'
    BY <1>1, <1>2, PipesKept
  <2>2. /\ Going => Going'
        /\ CommandHeld => CommandHeld'
        /\ TaskHeld => TaskHeld'
    BY <1>1, <1>2 DEF Going, CommandHeld, TaskHeld
  <2>3. ClaimIsHeld'
    BY <1>1, <1>2, <2>2, ClaimKept DEF CInv
  <2> QED BY <2>1, <2>3 DEF CInv
<1>3. CASE Start \/ RestartStarts \/ RestartWorker \/ StopArmsDeadline
  <2>1. UNCHANGED <<active, pending, issued, queue>>
    BY <1>3 DEF Start, RestartStarts, RestartWorker, StopArmsDeadline
  <2> QED BY <1>1, <1>2, <2>1
<1>4. CASE Submit
  <2>1. issued < MaxCommands /\ proc # 0 /\ issued' = issued + 1
    BY <1>4 DEF Submit
  <2>2. issued' \in 0..MaxCommands /\ issued' # 0
    BY <1>1, <2>1
  <2>3. CASE QueueFull
    <3>1. ~active' /\ queue' = queue
      BY <1>4, <2>3 DEF Submit, ActiveAfterFull
    <3> QED BY <1>1, <2>2, <3>1, PipesKept DEF CInv, ClaimIsHeld
  <2>4. CASE ~QueueFull
    <3> DEFINE c == [kind |-> "task", id |-> issued']
    <3>1. pending' = issued' /\ queue' = Append(queue, c)
      BY <1>4, <2>1, <2>4 DEF Submit
    <3>2. c \in Commands /\ c \in TaskCommand(pending')
      BY <2>2, <3>1 DEF Commands, TaskCommand
    <3> HIDE DEF c
    <3>3. queue' \in Seq(Commands) /\ Some(queue', TaskCommand(pending'))
      BY <1>1, <3>1, <3>2, SomeAppend
    <3>4. ChannelType' /\ StartedIsFollowed'
      BY <1>1, <2>2, <3>3, PipesKept
    <3>5. ClaimIsHeld'
      BY <1>1, <2>1, <2>2, <3>1, <3>3 DEF ClaimIsHeld, CommandHeld
    <3> QED BY <3>4, <3>5 DEF CInv
  <2> QED BY <2>3, <2>4
<1>5. CASE StopTask
  <2> DEFINE c == [kind |-> "stop", id |-> issued']
  <2>1. /\ issued < MaxCommands /\ issued' = issued + 1 /\ UNCHANGED <<active, pending>>
        /\ queue' = Append(queue, c)
    BY <1>5 DEF StopTask
  <2>2. issued' \in 0..MaxCommands
    BY <1>1, <2>1
  <2>3. c \in Commands
    BY <2>2 DEF Commands
  <2> HIDE DEF c
  <2>4. /\ queue' \in Seq(Commands)
        /\ \A id : Some(queue, TaskCommand(id)) => Some(queue', TaskCommand(id))
    BY <1>1, <2>1, <2>3, SomeAppend
  <2> QED BY <1>2, <2>1, <2>2, <2>4
<1>6. CASE Shutdown
  <2>1. UNCHANGED <<active, pending, issued>> /\ queue' \in {queue, WithShutdown(queue)}
    BY <1>6 DEF Shutdown
  <2>2. /\ queue' \in Seq(Commands)
        /\ \A id : Some(queue, TaskCommand(id)) => Some(queue', TaskCommand(id))
    BY <1>1, <2>1, ShutdownKeeps
  <2> QED BY <1>1, <1>2, <2>1, <2>2
<1> QED BY <1>3, <1>4, <1>5, <1>6 DEF User, UserCallEnds

\* The pipe threads: a command, or an answer, moves from one end of a pipe to the other.
LEMMA ClaimPipes == CInv /\ SInv /\ PipeThreads => CInv'
<1> SUFFICES ASSUME CInv, SInv, PipeThreads PROVE CInv'
    OBVIOUS
<1> USE DEF flagVars, procVars, taskVars, channelVars, uiVars, supVars, workerVars
<1>1. ChannelType /\ (proc # 0 => proc \in Launches)
  BY ProcIsLaunch DEF CInv
<1>2. CASE WriteCommand
  <2> DEFINE c == Head(queue)
  <2>1. /\ proc \in Launches /\ queue # <<>> /\ queue' = Tail(queue)
        /\ stdin' = [stdin EXCEPT ![proc] = Append(stdin[proc], c)]
        /\ UNCHANGED <<issued, phase, running, leaving, stdout, os, active, pending, proc,
                       pipeBroken>>
    BY <1>1, <1>2 DEF WriteCommand
  <2>2. /\ c \in Commands /\ Tail(queue) \in Seq(Commands)
        /\ \A S : Some(queue, S) => c \in S \/ Some(Tail(queue), S)
    BY <1>1, <2>1, SomeTail DEF ChannelType
  <2> HIDE DEF c
  <2>3. /\ Append(stdin[proc], c) \in Seq(Commands)
        /\ \A S : Some(stdin[proc], S) \/ c \in S => Some(Append(stdin[proc], c), S)
    BY <1>1, <2>1, <2>2, SomeAppend DEF ChannelType
  <2>4. stdin'[proc] = Append(stdin[proc], c)
    BY <1>1, <2>1 DEF ChannelType
  <2>5. ChannelType' /\ StartedIsFollowed'
    BY <1>1, <2>1, <2>2, <2>3 DEF CInv, ChannelType, StartedIsFollowed
  <2>6. /\ Going => Going'
        /\ CommandHeld => CommandHeld'
        /\ TaskHeld => TaskHeld'
    BY <2>1, <2>2, <2>3, <2>4 DEF Going, CommandHeld, TaskHeld
  <2>7. ClaimIsHeld'
    BY <2>1, <2>6, ClaimKept DEF CInv
  <2> QED BY <2>5, <2>7 DEF CInv
<1>3. CASE WriteFails
  <2>1. /\ proc # 0 /\ queue # <<>> /\ queue' = Tail(queue) /\ pipeBroken'
        /\ UNCHANGED <<issued, phase, running, leaving, stdin, stdout, os, proc>>
    BY <1>3 DEF WriteFails
  <2>2. queue' \in Seq(Commands)
    BY <1>1, <2>1, SomeTail DEF ChannelType
  <2>3. ChannelType' /\ StartedIsFollowed'
    BY <1>1, <2>1, <2>2, PipesKept DEF ChannelType
  <2> QED BY <2>1, <2>3 DEF CInv, ClaimIsHeld, Going
<1>4. ASSUME NEW p \in Launches, ReadEvent(p) PROVE CInv'
  <2> DEFINE e == Head(stdout[p])
  <2>1. /\ stdout[p] # <<>> /\ stdout' = [stdout EXCEPT ![p] = Tail(stdout[p])]
        /\ UNCHANGED <<issued, queue, phase, running, leaving, stdin, os, proc, pipeBroken>>
    BY <1>4 DEF ReadEvent
  <2>2. /\ e \in Events /\ Tail(stdout[p]) \in Seq(Events)
        /\ \A S : Some(stdout[p], S) => e \in S \/ Some(Tail(stdout[p]), S)
        /\ AllEnded(stdout[p]) => /\ AllEnded(Tail(stdout[p]))
                                  /\ e \in Started => Some(Tail(stdout[p]), Ended)
    BY <1>1, <2>1, SomeTail, AllEndedTail DEF ChannelType
  <2>3. /\ proc # p => UNCHANGED <<active, pending>>
        /\ proc = p /\ e.type = "started" => active' = TRUE /\ pending' = 0
        /\ proc = p /\ Releases(e) => active' = FALSE \/ e.type = "started"
        /\ proc = p /\ e.type # "started" /\ ~Releases(e) => UNCHANGED <<active, pending>>
    BY <1>4 DEF ReadEvent, Heeds
  <2> HIDE DEF e
  <2>4. stdout'[p] = Tail(stdout[p]) /\ \A q \in Launches \ {p} : stdout'[q] = stdout[q]
    BY <1>1, <2>1 DEF ChannelType
  <2>5. ChannelType'
    BY <1>1, <2>1, <2>2 DEF ChannelType
  <2>6. StartedIsFollowed'
    BY <2>1, <2>2, <2>4 DEF CInv, StartedIsFollowed
  <2>7. CASE proc # p
    <3>1. proc # 0 => stdout'[proc] = stdout[proc]
      BY <1>1, <2>4, <2>7
    <3> QED BY <2>1, <2>3, <2>5, <2>6, <2>7, <3>1
            DEF CInv, ClaimIsHeld, Going, CommandHeld, TaskHeld
  <2>8. CASE proc = p /\ e \in Started
    <3>1. active' = TRUE /\ pending' = 0 /\ proc' # 0
      BY <1>1, <2>1, <2>3, <2>8, ServiceAssumption DEF Started, Launches
    <3>2. os[p] # "alive" \/ phase[p] # "idle" \/ Some(stdout'[p], Ended)
      BY <2>2, <2>4, <2>8 DEF CInv, StartedIsFollowed
    <3> QED BY <2>1, <2>5, <2>6, <2>8, <3>1, <3>2 DEF CInv, ClaimIsHeld, Going, TaskHeld
  <2>9. CASE proc = p /\ e \notin Started /\ Releases(e)
    <3>1. active' = FALSE
      BY <2>2, <2>3, <2>9 DEF Started
    <3> QED BY <2>5, <2>6, <3>1 DEF CInv, ClaimIsHeld
  <2>10. CASE proc = p /\ e \notin Started /\ ~Releases(e)
    <3>1. UNCHANGED <<active, pending>>
      BY <2>2, <2>3, <2>10 DEF Started
    <3>2. e \notin Ended /\ (pending # 0 => e \notin ErrorAbout(pending))
      BY <2>10 DEF Releases, Ended, ErrorAbout
    <3> QED BY <2>1, <2>2, <2>4, <2>5, <2>6, <2>10, <3>1, <3>2
            DEF CInv, ClaimIsHeld, Going, CommandHeld, TaskHeld
  <2> QED BY <2>7, <2>8, <2>9, <2>10
<1> QED BY <1>2, <1>3, <1>4 DEF PipeThreads

\* A process that ends is beyond use.
LEMMA ClaimAfterExit ==
  ASSUME CInv, SInv, NEW p \in Launches, NEW how \in {"left", "crashed", "killed"},
         Exits(p, how), UNCHANGED <<issued, queue, active, pending, proc, pipeBroken>>
  PROVE  CInv'
<1>1. /\ os' = [os EXCEPT ![p] = how] /\ stdout' = stdout
      /\ phase' = [phase EXCEPT ![p] = "idle"] /\ leaving' = [leaving EXCEPT ![p] = FALSE]
      /\ stdin' = [stdin EXCEPT ![p] = <<>>] /\ running' = [running EXCEPT ![p] = 0]
  BY DEF Exits
<1>2. ChannelType /\ (proc # 0 => proc \in Launches)
      /\ os \in [Launches -> {"none", "alive", "left", "crashed", "killed"}]
  BY ProcIsLaunch DEF CInv, SInv, SlotType
<1>3. ChannelType'
  <2>1. 0 \in 0..MaxCommands
    BY ServiceAssumption
  <2> QED BY <1>1, <1>2, <2>1 DEF ChannelType
<1>4. StartedIsFollowed'
  BY <1>1, <1>2 DEF CInv, ChannelType, StartedIsFollowed
<1>5. CASE proc = p
  BY <1>1, <1>2, <1>3, <1>4, <1>5 DEF CInv, ClaimIsHeld, Going
<1>6. CASE proc # p
  <2>1. proc # 0 => UNCHANGED <<os[proc], phase[proc], leaving[proc], stdin[proc]>>
    BY <1>1, <1>2, <1>6 DEF ChannelType
  <2> QED BY <1>1, <1>3, <1>4, <2>1 DEF CInv, ClaimIsHeld, Going, CommandHeld, TaskHeld
<1> QED BY <1>5, <1>6

\* The supervisor: the claim does not survive the process.
LEMMA ClaimSupervisor == CInv /\ SInv /\ CreatedInOrder /\ Supervisor => CInv'
<1> SUFFICES ASSUME CInv, SInv, CreatedInOrder, Supervisor PROVE CInv'
    OBVIOUS
<1> USE DEF flagVars, procVars, taskVars, channelVars, uiVars, supVars, workerVars
<1>1. ChannelType /\ (proc # 0 => proc \in Launches)
  BY ProcIsLaunch DEF CInv
<1>2. ASSUME UNCHANGED <<issued, queue, phase, running, leaving, stdin, stdout, os, active,
                         pending, proc, pipeBroken>>
      PROVE  CInv'
  BY <1>2 DEF CInv, ChannelType, ClaimIsHeld, StartedIsFollowed, Going, CommandHeld, TaskHeld
<1>3. CASE SupervisorLooks \/ SpawnFails \/ Poll \/ ExpectExit \/ ClearDeadline
           \/ CheckHeartbeat
  BY <1>2, <1>3 DEF SupervisorLooks, SpawnFails, Poll, ExpectExit, ClearDeadline, CheckHeartbeat
<1>4. CASE Spawn
  <2>1. /\ proc = 0 /\ NoneAlive /\ launches' = launches + 1 /\ launches < MaxLaunches
        /\ os' = [os EXCEPT ![launches + 1] = "alive"]
        /\ UNCHANGED <<issued, queue, phase, running, leaving, stdin, stdout, active, pending,
                       proc>>
    BY <1>4 DEF Spawn, SInv, SlotOwned
  <2>2. ~active'
    BY <2>1 DEF CInv, ClaimIsHeld
  <2>3. \A p \in Launches : os'[p] \in {"none", "alive"} => os[p] \in {"none", "alive"}
    <3>1. /\ launches \in Nat /\ MaxLaunches \in Nat
          /\ os \in [Launches -> {"none", "alive", "left", "crashed", "killed"}]
      BY ServiceAssumption DEF SInv, SlotType
    <3>2. launches + 1 \in Launches => os[launches + 1] = "none"
      BY <3>1 DEF CreatedInOrder
    <3> QED BY <2>1, <3>1, <3>2
  <2> QED BY <1>1, <2>1, <2>2, <2>3, PipesKept DEF CInv, ChannelType, ClaimIsHeld
<1>5. CASE PublishProcess
  <2>1. /\ proc = 0
        /\ queue' \in {WithShutdown(<<>>), <<>>}
        /\ UNCHANGED <<issued, phase, running, leaving, stdin, stdout, os, active, pending>>
    BY <1>5 DEF PublishProcess, SInv, SlotOwned
  <2>2. queue' \in Seq(Commands)
    <3>1. <<>> \in Seq(Commands)
      OBVIOUS
    <3>2. WithShutdown(<<>>) \in Seq(Commands)
      BY <3>1, ShutdownKeeps
    <3> QED BY <2>1, <3>1, <3>2
  <2>3. ~active'
    BY <2>1 DEF CInv, ClaimIsHeld
  <2> QED BY <1>1, <2>1, <2>2, <2>3, PipesKept DEF CInv, ChannelType, ClaimIsHeld
<1>6. CASE Reap
  <2>1. /\ ~active' /\ queue' = <<>>
        /\ UNCHANGED <<issued, phase, running, leaving, stdin, stdout, os>>
    BY <1>6 DEF Reap, ActiveAfterExit
  <2>2. queue' \in Seq(Commands)
    BY <2>1
  <2> QED BY <1>1, <2>1, <2>2, PipesKept DEF CInv, ChannelType, ClaimIsHeld
<1>7. CASE Kill
  <2>1. UNCHANGED <<issued, queue, active, pending, proc, pipeBroken>>
    BY <1>7 DEF Kill
  <2>2. CASE Alive(proc) /\ Exits(proc, "killed")
    BY <2>1, <2>2, ClaimAfterExit DEF Alive
  <2>3. CASE UNCHANGED <<os, workerVars>>
    BY <1>2, <2>1, <2>3
  <2> QED BY <1>7, <2>2, <2>3 DEF Kill
<1> QED BY <1>3, <1>4, <1>5, <1>6, <1>7 DEF Supervisor

\* The worker: it answers every command it reads, and announces the end of every task.
LEMMA ClaimWorker == CInv /\ SInv /\ (Time \/ Worker) => CInv'
<1> SUFFICES ASSUME CInv, SInv, Time \/ Worker PROVE CInv'
    OBVIOUS
<1> USE DEF flagVars, procVars, taskVars, channelVars, uiVars, supVars, workerVars, serviceVars
<1>1. ChannelType /\ (proc # 0 => proc \in Launches)
  BY ProcIsLaunch DEF CInv
<1>2. CASE Time
  <2>1. UNCHANGED <<issued, queue, phase, running, leaving, stdin, stdout, os, active, pending,
                    proc, pipeBroken>>
    BY <1>2 DEF Time, DeadlineExpires, RestartDelayExpires
  <2> QED BY <2>1 DEF CInv, ChannelType, ClaimIsHeld, StartedIsFollowed, Going, CommandHeld,
          TaskHeld
<1>3. Worker => UNCHANGED <<issued, queue, active, pending, proc, pipeBroken>>
  BY DEF Worker, WorkerReads, WorkerSeesEof, WorkerEndsTask, WorkerBeats, WorkerExits,
     WorkerCrashes
<1> DEFINE said(p, e) ==
              /\ stdout'[p] = Append(stdout[p], e) /\ stdout' \in [Launches -> Seq(Events)]
              /\ \A S : Some(stdout[p], S) \/ e \in S => Some(stdout'[p], S)
              /\ (e \notin Started /\ AllEnded(stdout[p])) \/ e \in Ended => AllEnded(stdout'[p])
              /\ \A q \in Launches \ {p} : stdout'[q] = stdout[q]
<1>4. ASSUME NEW p \in Launches, NEW e \in Events, Says(p, e) PROVE said(p, e)
  <2>1. stdout[p] \in Seq(Events)
    BY <1>1 DEF ChannelType
  <2>2. /\ Append(stdout[p], e) \in Seq(Events)
        /\ \A S : Some(stdout[p], S) \/ e \in S => Some(Append(stdout[p], e), S)
    BY <2>1, SomeAppend
  <2>3. (e \notin Started /\ AllEnded(stdout[p])) \/ e \in Ended
            => AllEnded(Append(stdout[p], e))
    BY <2>1, AllEndedAppend DEF Started, Ended
  <2>4. /\ stdout'[p] = Append(stdout[p], e)
        /\ \A q \in Launches \ {p} : stdout'[q] = stdout[q]
        /\ stdout' \in [Launches -> Seq(Events)]
    BY <1>1, <1>4, <2>2 DEF Says, ChannelType
  <2> QED BY <2>2, <2>3, <2>4
\* what a step of the worker of process p has to keep
<1>5. ASSUME NEW p \in Launches, Worker, ChannelType', os' = os,
             \A q \in Launches \ {p} : UNCHANGED <<phase[q], leaving[q], stdin[q], stdout[q]>>,
             leaving[p] => leaving'[p],
             phase[p] # "idle" \/ AllEnded(stdout[p]) => phase'[p] # "idle" \/ AllEnded(stdout'[p]),
             \A S \in {Started, ErrorAbout(pending), Ended} :
                 Some(stdout[p], S) => Some(stdout'[p], S),
             phase[p] # "idle" => phase'[p] # "idle" \/ Some(stdout'[p], Ended),
             Some(stdin[p], TaskCommand(pending)) =>
                 \/ leaving'[p] \/ Some(stdin'[p], TaskCommand(pending))
                 \/ Some(stdout'[p], Started) \/ Some(stdout'[p], ErrorAbout(pending))
      PROVE  CInv'
  <2>1. UNCHANGED <<issued, queue, active, pending, proc, pipeBroken>>
    BY <1>3, <1>5
  <2>2. StartedIsFollowed'
    BY <1>5 DEF CInv, StartedIsFollowed
  <2>3. CASE proc # p
    <3>1. proc # 0 => UNCHANGED <<phase[proc], leaving[proc], stdin[proc], stdout[proc]>>
        BY <1>1, <1>5, <2>1, <2>3
    <3> QED BY <1>5, <2>1, <2>2, <3>1 DEF CInv, ClaimIsHeld, Going, CommandHeld, TaskHeld
  <2>4. CASE proc = p
    <3>1. /\ Going => Going'
          /\ CommandHeld => Going' \/ CommandHeld'
          /\ TaskHeld => Going' \/ TaskHeld'
      BY <1>5, <2>1, <2>4 DEF Going, CommandHeld, TaskHeld
    <3>2. ClaimIsHeld'
      BY <2>1, <3>1, ClaimKept DEF CInv
    <3> QED BY <1>5, <2>2, <3>2 DEF CInv
  <2> QED BY <2>3, <2>4
<1> HIDE DEF said
<1>6. ASSUME NEW p \in Launches, WorkerReads(p), Worker PROVE CInv'
  <2> DEFINE c == Head(stdin[p])
  <2>1. /\ stdin[p] # <<>> /\ ~leaving[p] /\ stdin' = [stdin EXCEPT ![p] = Tail(stdin[p])]
        /\ os' = os
    BY <1>6 DEF WorkerReads
  <2>2. /\ c \in Commands /\ Tail(stdin[p]) \in Seq(Commands)
        /\ \A S : Some(stdin[p], S) => c \in S \/ Some(Tail(stdin[p]), S)
    BY <1>1, <2>1, SomeTail DEF ChannelType
  <2>3. /\ stdin' \in [Launches -> Seq(Commands)] /\ stdin'[p] = Tail(stdin[p])
        /\ \A q \in Launches \ {p} : stdin'[q] = stdin[q]
    BY <1>1, <2>1, <2>2 DEF ChannelType
  <2>4. /\ issued' \in 0..MaxCommands /\ queue' \in Seq(Commands)
        /\ running' \in [Launches -> 0..MaxCommands]
    <3>1. c.id \in 0..MaxCommands
      BY <2>2 DEF Commands
    <3>2. running' \in {running, [running EXCEPT ![p] = c.id]}
      BY <1>6 DEF WorkerReads
    <3> QED BY <1>1, <1>3, <1>6, <3>1, <3>2 DEF ChannelType
  <2>5. \A t \in {"started", "error", "stopping"} : Event(t, c.id) \in Events
    BY <2>2 DEF Event, Events, Commands
  <2>6. Event("started", c.id) \in Started /\ Event("stopping", c.id) \notin Started
        /\ Event("error", c.id) \in ErrorAbout(c.id) /\ Event("error", c.id) \notin Started
    BY <2>5 DEF Event, Started, ErrorAbout
  <2>7. c \in TaskCommand(pending) => c.kind = "task" /\ c.id = pending
    BY DEF TaskCommand
  <2>8. \/ /\ c.kind = "task" /\ phase[p] = "idle"
           /\ phase' = [phase EXCEPT ![p] = "running"]
           /\ Says(p, Event("started", c.id)) /\ leaving' = leaving
        \/ /\ c.kind = "task" \/ (c.kind = "stop" /\ phase[p] = "idle")
           /\ Says(p, Event("error", c.id)) /\ phase' = phase /\ leaving' = leaving
        \/ /\ c.kind = "stop" /\ phase[p] # "idle"
           /\ phase' = [phase EXCEPT ![p] = "cancelled"]
           /\ Says(p, Event("stopping", c.id)) /\ leaving' = leaving
        \/ /\ c.kind = "shutdown" /\ stdout' = stdout
           /\ leaving' = [leaving EXCEPT ![p] = TRUE]
           /\ phase' = [phase EXCEPT ![p] = IF phase[p] = "idle" THEN phase[p] ELSE "cancelled"]
    BY <1>6 DEF WorkerReads
  <2> HIDE DEF c
  <2>9. CASE /\ c.kind = "task" /\ phase[p] = "idle"
             /\ phase' = [phase EXCEPT ![p] = "running"]
             /\ Says(p, Event("started", c.id)) /\ leaving' = leaving
    <3>1. said(p, Event("started", c.id))
      BY <1>4, <2>5, <2>9
    <3>2. phase'[p] = "running" /\ \A q \in Launches \ {p} : phase'[q] = phase[q]
      BY <1>1, <2>9 DEF ChannelType
    <3>3. ChannelType'
      BY <1>1, <2>3, <2>4, <2>9, <3>1 DEF ChannelType, said
    <3> QED BY <1>5, <1>6, <2>1, <2>3, <2>6, <2>9, <3>1, <3>2, <3>3 DEF said
  <2>10. CASE /\ c.kind = "task" \/ (c.kind = "stop" /\ phase[p] = "idle")
              /\ Says(p, Event("error", c.id)) /\ phase' = phase /\ leaving' = leaving
    <3>1. said(p, Event("error", c.id))
      BY <1>4, <2>5, <2>10
    <3>2. ChannelType'
      BY <1>1, <2>3, <2>4, <2>10, <3>1 DEF ChannelType, said
    <3> QED BY <1>5, <1>6, <2>1, <2>2, <2>3, <2>6, <2>7, <2>10, <3>1, <3>2 DEF said
  <2>11. CASE /\ c.kind = "stop" /\ phase[p] # "idle"
              /\ phase' = [phase EXCEPT ![p] = "cancelled"]
              /\ Says(p, Event("stopping", c.id)) /\ leaving' = leaving
    <3>1. said(p, Event("stopping", c.id))
      BY <1>4, <2>5, <2>11
    <3>2. phase'[p] = "cancelled" /\ \A q \in Launches \ {p} : phase'[q] = phase[q]
      BY <1>1, <2>11 DEF ChannelType
    <3>3. ChannelType'
      BY <1>1, <2>3, <2>4, <2>11, <3>1 DEF ChannelType, said
    <3> QED BY <1>5, <1>6, <2>1, <2>2, <2>3, <2>7, <2>11, <3>1, <3>2, <3>3 DEF said
  <2>12. CASE /\ c.kind = "shutdown" /\ stdout' = stdout
              /\ leaving' = [leaving EXCEPT ![p] = TRUE]
              /\ phase' = [phase EXCEPT ![p] = IF phase[p] = "idle" THEN phase[p]
                                               ELSE "cancelled"]
    <3>1. /\ phase[p] # "idle" => phase'[p] # "idle"
          /\ phase' \in [Launches -> {"idle", "running", "cancelled"}]
          /\ leaving'[p] = TRUE /\ leaving' \in [Launches -> BOOLEAN]
          /\ \A q \in Launches \ {p} : phase'[q] = phase[q] /\ leaving'[q] = leaving[q]
      BY <1>1, <2>12 DEF ChannelType
    <3>2. ChannelType'
      BY <1>1, <2>3, <2>4, <2>12, <3>1 DEF ChannelType
    <3> QED BY <1>5, <1>6, <2>1, <2>3, <2>12, <3>1, <3>2
  <2> QED BY <2>8, <2>9, <2>10, <2>11, <2>12
<1>7. ASSUME NEW p \in Launches, WorkerSeesEof(p), Worker PROVE CInv'
  <2>1. /\ os' = os /\ stdin' = stdin /\ stdout' = stdout
        /\ leaving' = [leaving EXCEPT ![p] = TRUE] /\ running' = running
        /\ phase' = [phase EXCEPT ![p] = IF phase[p] = "idle" THEN phase[p] ELSE "cancelled"]
    BY <1>7 DEF WorkerSeesEof
  <2>2. /\ phase[p] # "idle" => phase'[p] # "idle"
        /\ phase' \in [Launches -> {"idle", "running", "cancelled"}]
        /\ leaving'[p] = TRUE /\ leaving' \in [Launches -> BOOLEAN]
        /\ \A q \in Launches \ {p} : phase'[q] = phase[q] /\ leaving'[q] = leaving[q]
    BY <1>1, <2>1 DEF ChannelType
  <2>3. ChannelType'
    BY <1>1, <1>3, <1>7, <2>1, <2>2 DEF ChannelType
  <2> QED BY <1>5, <1>7, <2>1, <2>2, <2>3
<1>8. ASSUME NEW p \in Launches, WorkerEndsTask(p), Worker PROVE CInv'
  <2> DEFINE e == Event("ended", running[p])
  <2>1. /\ os' = os /\ stdin' = stdin /\ leaving' = leaving /\ Says(p, e)
        /\ phase[p] # "idle" /\ phase' = [phase EXCEPT ![p] = "idle"]
        /\ running' = [running EXCEPT ![p] = 0] /\ 0 \in 0..MaxCommands
    BY <1>8, ServiceAssumption DEF WorkerEndsTask
  <2>2. e \in Events /\ e \in Ended
    BY <1>1 DEF Event, Events, Ended, ChannelType
  <2> HIDE DEF e
  <2>3. said(p, e)
    BY <1>4, <2>1, <2>2
  <2>4. ChannelType' /\ \A q \in Launches \ {p} : phase'[q] = phase[q]
    BY <1>1, <1>3, <1>8, <2>1, <2>3 DEF ChannelType, said
  <2> QED BY <1>5, <1>8, <2>1, <2>2, <2>3, <2>4 DEF said
<1>9. ASSUME NEW p \in Launches, WorkerBeats(p), Worker PROVE CInv'
  <2> DEFINE e == Event("heartbeat", 0)
  <2>1. /\ os' = os /\ stdin' = stdin /\ leaving' = leaving /\ phase' = phase /\ Says(p, e)
        /\ running' = running
    BY <1>9 DEF WorkerBeats
  <2>2. e \in Events /\ e \notin Started
    BY ServiceAssumption DEF Event, Events, Started
  <2> HIDE DEF e
  <2>3. said(p, e)
    BY <1>4, <2>1, <2>2
  <2>4. ChannelType'
    BY <1>1, <1>3, <1>9, <2>1, <2>3 DEF ChannelType, said
  <2> QED BY <1>5, <1>9, <2>1, <2>2, <2>3, <2>4 DEF said
<1>10. ASSUME NEW p \in Launches, WorkerExits(p) \/ WorkerCrashes(p), Worker PROVE CInv'
  <2>1. \E how \in {"left", "crashed", "killed"} : Exits(p, how)
    BY <1>10 DEF WorkerExits, WorkerCrashes
  <2> QED BY <1>3, <1>10, <2>1, ClaimAfterExit
<1> QED BY <1>2, <1>6, <1>7, <1>8, <1>9, <1>10 DEF Worker

\* The claim on the worker is accounted for in every reachable state.
THEOREM ClaimInvariant == Spec => [](CInv /\ CreatedInOrder)
<1>1. Init => CreatedInOrder
  BY DEF Init, CreatedInOrder
<1>2. CInv /\ SInv /\ CreatedInOrder /\ [Next]_vars => CInv'
  BY ClaimUser, ClaimPipes, ClaimSupervisor, ClaimWorker, ClaimStutter DEF Next
<1> QED BY <1>1, <1>2, ClaimInit, FreshProcess, SlotInvariant, PTL DEF Spec

\* The service is busy only while something will release it: the task command is on its way, the
\* worker is on the task, the answer is on its way back, or the process is gone or going
\* (service.py: _command, _write_command_loop, _update_event and _supervise).
THEOREM BusyIsJustifiedHolds == Spec => []BusyIsJustified
<1>1. SInv /\ CInv => BusyIsJustified
  <2> SUFFICES ASSUME SInv, CInv, active PROVE BusyIsJustified
      BY DEF BusyIsJustified
  <2>1. proc \in Launches /\ proc # 0
    BY ProcIsLaunch DEF CInv, ClaimIsHeld
  <2>2. CASE Going
    BY <2>1, <2>2 DEF Going, BusyIsJustified, Alive
  <2>3. CASE ~Going
    <3>1. os[proc] = "alive" /\ (CommandHeld \/ TaskHeld)
      BY <2>3 DEF CInv, ClaimIsHeld, Going
    <3>2. \A commands : Some(commands, TaskCommand(pending)) => InTransit("task", commands)
      BY DEF Some, TaskCommand, InTransit
    <3>3. Some(stdout[proc], ErrorAbout(pending)) \/ Some(stdout[proc], Ended)
             => \E i \in 1..Len(stdout[proc]) : stdout[proc][i].type \in {"ended", "error"}
      BY DEF Some, ErrorAbout, Ended
    <3>4. Some(stdout[proc], Started) => phase[proc] # "idle" \/ Some(stdout[proc], Ended)
      BY <2>1, <3>1 DEF Some, CInv, StartedIsFollowed, AllEnded
    <3> QED BY <2>1, <3>1, <3>2, <3>3, <3>4 DEF CommandHeld, TaskHeld, BusyIsJustified
  <2> QED BY <2>2, <2>3
<1> QED BY <1>1, SlotInvariant, ClaimInvariant, PTL

\* A process under the forced stop did not crash, and the mark of an expected exit outlives the
\* forced stop only together with the process it ended, or that outlived its terminator.
ForcedExitIsMarked ==
    proc # 0 => /\ sup \in {"expect", "kill"} => os[proc] # "crashed"
                /\ expectedExit /\ proc \notin survived
                        => sup = "kill" \/ os[proc] \notin {"alive", "crashed"}

\* A process that ends while nothing else happens keeps the mark true.
LEMMA MarkAfterExit ==
  ASSUME ForcedExitIsMarked, SInv, NEW p \in Launches, Alive(p), NEW how,
         os' = [os EXCEPT ![p] = how], UNCHANGED <<proc, sup, expectedExit, survived>>,
         how = "crashed" => sup \notin {"expect", "kill", "clear"}, how # "alive"
  PROVE  ForcedExitIsMarked'
<1>1. /\ proc # 0 => proc \in Launches
      /\ os \in [Launches -> {"none", "alive", "left", "crashed", "killed"}]
  BY ProcIsLaunch DEF SInv, SlotType
<1> QED BY <1>1 DEF ForcedExitIsMarked, Alive

\* Every step keeps the mark true, whether terminators work or not.
LEMMA MarkStep == ForcedExitIsMarked /\ SInv /\ [Next]_vars => ForcedExitIsMarked'
<1> SUFFICES ASSUME ForcedExitIsMarked, SInv, [Next]_vars PROVE ForcedExitIsMarked'
    OBVIOUS
<1> USE DEF flagVars, procVars, taskVars, channelVars, uiVars, supVars, workerVars, serviceVars
<1>1. /\ proc # 0 => proc \in Launches
      /\ os \in [Launches -> {"none", "alive", "left", "crashed", "killed"}]
  BY ProcIsLaunch DEF SInv, SlotType
<1>2. ASSUME UNCHANGED <<proc, os, expectedExit, survived>>,
             \/ sup' = sup
             \/ sup \in {"off", "loop"} /\ sup' \in {"loop", "launching", "poll", "done"}
             \/ sup \in {"clear", "beat", "launching"} /\ sup' = "loop"
      PROVE  ForcedExitIsMarked'
  BY <1>2 DEF ForcedExitIsMarked
<1>3. CASE User \/ UserCallEnds \/ Shutdown
  <2>1. UNCHANGED <<proc, os, expectedExit, survived>> /\ (sup' = sup \/ (sup = "off" /\ sup' = "loop"))
    BY <1>3 DEF User, UserCallEnds, Start, RestartStarts, RestartWorker, StartSection, Submit,
       StopTask, StopArmsDeadline, Shutdown
  <2> QED BY <1>2, <2>1
<1>4. CASE PipeThreads \/ Time
  <2>1. UNCHANGED <<proc, os, expectedExit, survived, sup>>
    BY <1>4 DEF PipeThreads, WriteCommand, WriteFails, ReadEvent, Time, DeadlineExpires,
       RestartDelayExpires
  <2> QED BY <1>2, <2>1
<1>5. CASE Worker
  <2>1. ASSUME NEW p \in Launches, WorkerExits(p) \/ WorkerCrashes(p) PROVE ForcedExitIsMarked'
    <3>1. Alive(p) /\ UNCHANGED <<proc, sup, expectedExit, survived>>
      BY <2>1 DEF WorkerExits, WorkerCrashes
    <3>2. \E how \in {"left", "killed", "crashed"} :
             /\ os' = [os EXCEPT ![p] = how]
             /\ how = "crashed" => sup \notin {"expect", "kill", "clear"}
      BY <2>1 DEF WorkerExits, WorkerCrashes, Exits
    <3> QED BY <3>1, <3>2, MarkAfterExit
  <2>2. ASSUME NEW p \in Launches,
               WorkerReads(p) \/ WorkerSeesEof(p) \/ WorkerEndsTask(p) \/ WorkerBeats(p)
        PROVE  ForcedExitIsMarked'
    <3>1. UNCHANGED <<proc, os, expectedExit, survived, sup>>
      BY <2>2 DEF WorkerReads, WorkerSeesEof, WorkerEndsTask, WorkerBeats
    <3> QED BY <1>2, <3>1
  <2> QED BY <1>5, <2>1, <2>2 DEF Worker
<1>6. CASE Supervisor
  <2>1. CASE SupervisorLooks \/ SpawnFails \/ ClearDeadline \/ CheckHeartbeat
    <3>1. /\ UNCHANGED <<proc, os, expectedExit, survived>>
          /\ \/ sup = "loop" /\ sup' \in {"loop", "launching", "poll", "done"}
             \/ sup \in {"clear", "beat", "launching"} /\ sup' = "loop"
      BY <2>1 DEF SupervisorLooks, SpawnFails, ClearDeadline, CheckHeartbeat
    <3> QED BY <1>2, <3>1
  <2>2. CASE Spawn
    BY <2>2 DEF Spawn, SInv, SlotOwned, ForcedExitIsMarked
  <2>3. CASE PublishProcess
    BY <2>3 DEF PublishProcess, ExpectedAtLaunch, ForcedExitIsMarked
  <2>4. CASE Reap
    BY <2>4 DEF Reap, ForcedExitIsMarked
  <2>5. CASE Poll
    BY <2>5 DEF Poll, Alive, ForcedExitIsMarked
  <2>6. CASE ExpectExit
    BY <2>6 DEF ExpectExit, ForcedExitIsMarked
  <2>7. CASE Kill
    <3>1. sup = "kill" /\ sup' = "clear" /\ proc' = proc
      BY <2>7 DEF Kill
    <3>2. proc # 0 /\ proc \notin survived' => os'[proc] \notin {"alive", "crashed"}
      <4>1. CASE Alive(proc) /\ Exits(proc, "killed")
        BY <1>1, <4>1 DEF Exits, Alive
      <4>2. CASE ~Alive(proc) /\ os' = os
        BY <1>1, <3>1, <4>2 DEF Alive, ForcedExitIsMarked
      <4>3. CASE survived' = survived \cup {proc}
        BY <4>3
      <4> QED BY <2>7, <4>1, <4>2, <4>3 DEF Kill
    <3> QED BY <3>1, <3>2 DEF ForcedExitIsMarked
  <2> QED BY <1>6, <2>1, <2>2, <2>3, <2>4, <2>5, <2>6, <2>7 DEF Supervisor
<1>7. CASE UNCHANGED vars
  <2>1. UNCHANGED <<proc, os, expectedExit, survived, sup>>
    BY <1>7 DEF vars
  <2> QED BY <1>2, <2>1
<1> QED BY <1>3, <1>4, <1>5, <1>6, <1>7 DEF Next

\* A crash that no stop and no shutdown explains is reported as a crash, so that it is restarted
\* while restarts are left (service.py, _supervise), also after a terminator failed: the mark of
\* an expected exit stays with the process that outlived it and is gone from the next one.
THEOREM CrashIsReportedHolds == Spec => CrashIsReported
<1>1. Init => ForcedExitIsMarked
  BY DEF Init, ForcedExitIsMarked
<1>2. ForcedExitIsMarked /\ SInv /\ [Next]_vars
        => [sup = "reap" /\ sup' = "loop" /\ Unexplained /\ proc \notin survived
               => workerState' = "crashed"]_vars
  <2> SUFFICES ASSUME ForcedExitIsMarked, SInv, Next, sup = "reap", sup' = "loop", Unexplained,
                      proc \notin survived
               PROVE  workerState' = "crashed"
      BY DEF vars, supVars
  <2>1. Reap
    BY DEF Next, User, UserCallEnds, Start, RestartStarts, StartSection, RestartWorker, Submit,
       StopTask, StopArmsDeadline, Shutdown, PipeThreads, WriteCommand, WriteFails, ReadEvent,
       Supervisor, SupervisorLooks, SpawnFails, Spawn, PublishProcess, Poll, ExpectExit, Kill,
       ClearDeadline, CheckHeartbeat, Time, DeadlineExpires, RestartDelayExpires, Worker,
       WorkerReads, WorkerSeesEof, WorkerEndsTask, WorkerBeats, WorkerExits, WorkerCrashes,
       supVars, serviceVars
  <2>2. proc # 0 /\ ~expectedExit
    BY DEF SInv, SlotOwned, ForcedExitIsMarked, Unexplained
  <2> QED BY <2>1, <2>2 DEF Reap, ExitExpected, Unexplained
<1> QED BY <1>1, <1>2, MarkStep, SlotInvariant, PTL DEF Spec, CrashIsReported

-----------------------------------------------------------------------------
(* The types of the service: what the slot and the channels do not say *)

States == {"stopped", "starting", "running", "stopping", "unresponsive", "crashed", "failed"}

FlagType ==
    /\ expectedExit \in BOOLEAN /\ pipeBroken \in BOOLEAN /\ active \in BOOLEAN
    /\ writing \in BOOLEAN
    /\ restartAt \in {"none", "waiting", "due"} /\ deadline \in {"none", "armed", "expired"}
    /\ workerState \in States /\ ui \in {"idle", "starting", "stopping"}
    /\ sup \in {"off", "loop", "launching", "spawned", "poll", "reap", "expect", "kill",
                "clear", "beat", "done"}
    /\ eof \in [Launches -> BOOLEAN] /\ survived \subseteq Launches

LookType == snap \in [due : BOOLEAN, set : BOOLEAN, closing : BOOLEAN]

CountType ==
    /\ restartCount \in 0..RestartLimit
    /\ pending \in 0..MaxCommands /\ lastTask \in 0..MaxCommands
    /\ stopAsked \subseteq 0..MaxCommands

\* the queue and the command pipes have room for what is in them
RoomType == Len(queue) <= QueueCapacity /\ \A p \in Launches : Len(stdin[p]) <= PipeCapacity

LEMMA FlagStep == FlagType /\ [Next]_vars => FlagType'
<1> SUFFICES ASSUME FlagType, [Next]_vars PROVE FlagType'
    OBVIOUS
<1> USE DEF FlagType, States, flagVars, procVars, taskVars, channelVars, uiVars, supVars, workerVars,
            serviceVars
<1>1. CASE User
  BY <1>1 DEF User, Start, StartSection, RestartWorker, Submit, StopTask, ActiveAfterFull
<1>2. CASE UserCallEnds \/ Shutdown
  BY <1>2 DEF UserCallEnds, RestartStarts, StartSection, StopArmsDeadline, Shutdown, StateAtShutdown
<1>3. CASE WriteCommand \/ WriteFails
  BY <1>3 DEF WriteCommand, WriteFails
<1>3a. ASSUME NEW p \in Launches, ReadEvent(p)
       PROVE  FlagType'
  <2>1. UNCHANGED <<expectedExit, pipeBroken, survived, writing, restartAt, ui, sup, eof>>
    BY <1>3a DEF ReadEvent
  <2>2. workerState' \in {workerState, "running"} /\ deadline' \in {deadline, "none"}
    BY <1>3a DEF ReadEvent
  <2>3. active' = active \/ active' = TRUE \/ active' = FALSE
    BY <1>3a DEF ReadEvent
  <2>4. active' \in BOOLEAN
    BY <2>3
  <2>5. workerState' \in States /\ deadline' \in {"none", "armed", "expired"}
    BY <2>2
  <2> QED BY <2>1, <2>4, <2>5
<1>4. CASE SupervisorLooks \/ SpawnFails \/ Spawn
  BY <1>4 DEF SupervisorLooks, SpawnFails, Spawn
<1>5. CASE PublishProcess \/ Poll
  BY <1>5 DEF PublishProcess, ExpectedAtLaunch, LateGrace, Poll
<1>6. CASE Reap
  BY <1>6 DEF Reap, ActiveAfterExit
<1>7. CASE ExpectExit \/ ClearDeadline \/ CheckHeartbeat
  BY <1>7 DEF ExpectExit, ClearDeadline, CheckHeartbeat
<1>7a. CASE Kill
  <2>1. UNCHANGED <<expectedExit, pipeBroken, active, writing, restartAt, deadline, workerState,
                    ui, eof>> /\ sup' = "clear"
    BY <1>7a DEF Kill
  <2>2. survived' \subseteq Launches
    BY <1>7a DEF Kill, Alive
  <2> QED BY <2>1, <2>2
<1>8. CASE Time \/ Worker
  BY <1>8 DEF Time, DeadlineExpires, RestartDelayExpires, Worker, WorkerReads, WorkerSeesEof,
     WorkerEndsTask, WorkerBeats, WorkerExits, WorkerCrashes
<1>9. CASE UNCHANGED vars
  BY <1>9 DEF vars
<1> QED BY <1>1, <1>2, <1>3, <1>3a, <1>4, <1>5, <1>6, <1>7, <1>7a, <1>8, <1>9
        DEF Next, Supervisor, PipeThreads

LEMMA LookStep == SInv /\ LookType /\ [Next]_vars => LookType'
<1> SUFFICES ASSUME SInv, LookType, [Next]_vars PROVE LookType'
    OBVIOUS
<1>1. NoLook \in [due : BOOLEAN, set : BOOLEAN, closing : BOOLEAN]
  BY DEF NoLook
<1>2. SupervisorLooks => LookType'
  <2> DEFINE due == deadline = "expired"
             set == deadline # "none"
  <2>1. due \in BOOLEAN /\ set \in BOOLEAN /\ closing \in BOOLEAN
    BY DEF SInv, SlotType
  <2>2. SupervisorLooks => snap' = snap \/ snap' = [due |-> due, set |-> set, closing |-> closing]
    BY DEF SupervisorLooks
  <2> HIDE DEF due, set
  <2> QED BY <2>1, <2>2 DEF LookType
<1>3. CASE UNCHANGED snap
  BY <1>3 DEF LookType
<1>4. CASE snap' = NoLook
  BY <1>1, <1>4 DEF LookType
<1>5. SupervisorLooks \/ UNCHANGED snap \/ snap' = NoLook
  BY DEF Next, User, Start, RestartWorker, Submit, StopTask, UserCallEnds, RestartStarts,
     StopArmsDeadline, Shutdown, PipeThreads, WriteCommand, WriteFails, ReadEvent, Supervisor,
     SpawnFails, Spawn, PublishProcess, Poll, Reap, ExpectExit, Kill, ClearDeadline, CheckHeartbeat,
     Time, DeadlineExpires, RestartDelayExpires, Worker, WorkerReads, WorkerSeesEof, WorkerEndsTask,
     WorkerBeats, WorkerExits, WorkerCrashes, serviceVars, supVars, vars
<1> QED BY <1>2, <1>3, <1>4, <1>5

LEMMA CountStep == CInv /\ CountType /\ [Next]_vars => CountType'
<1> SUFFICES ASSUME CInv, CountType, [Next]_vars PROVE CountType'
    OBVIOUS
<1> USE DEF CountType, flagVars, procVars, taskVars, channelVars, uiVars, supVars, workerVars,
            serviceVars
<1>0. issued \in 0..MaxCommands /\ MaxCommands \in Nat /\ RestartLimit \in Nat
  BY ServiceAssumption DEF CInv, ChannelType
<1>1. CASE Submit
  <2>1. UNCHANGED <<restartCount, stopAsked>> /\ issued + 1 \in 0..MaxCommands
    BY <1>0, <1>1 DEF Submit
  <2>2. pending' \in {0, issued + 1} /\ lastTask' \in {lastTask, issued + 1}
    BY <1>1 DEF Submit
  <2> QED BY <1>0, <2>1, <2>2
<1>1a. CASE StopTask
  <2>1. UNCHANGED <<restartCount, pending, lastTask>>
    BY <1>1a DEF StopTask
  <2>2. stopAsked' = stopAsked \/ stopAsked' = stopAsked \cup {lastTask}
    BY <1>1a DEF StopTask
  <2> QED BY <2>1, <2>2
<1>1b. CASE Start
  BY <1>1b DEF Start
<1>1c. CASE RestartWorker
  <2>1. restartCount' = 0 /\ UNCHANGED <<pending, lastTask, stopAsked>>
    BY <1>1c DEF RestartWorker
  <2> QED BY <1>0, <2>1
<1>2. CASE UserCallEnds \/ Shutdown
  BY <1>2 DEF UserCallEnds, RestartStarts, StopArmsDeadline, Shutdown
<1>3. CASE PipeThreads
  <2>1. UNCHANGED <<restartCount, lastTask, stopAsked>>
    BY <1>3 DEF PipeThreads, WriteCommand, WriteFails, ReadEvent
  <2>2. pending' \in {pending, 0}
    BY <1>3 DEF PipeThreads, WriteCommand, WriteFails, ReadEvent
  <2> QED BY <1>0, <2>1, <2>2
<1>4. CASE Reap
  BY <1>0, <1>4 DEF Reap, MayRestart
<1>5. CASE Supervisor /\ ~Reap
  BY <1>5 DEF Supervisor, SupervisorLooks, SpawnFails, Spawn, PublishProcess, Poll, ExpectExit, Kill,
     ClearDeadline, CheckHeartbeat
<1>8. CASE Time \/ Worker
  BY <1>8 DEF Time, DeadlineExpires, RestartDelayExpires, Worker, WorkerReads, WorkerSeesEof,
     WorkerEndsTask, WorkerBeats, WorkerExits, WorkerCrashes
<1>9. CASE UNCHANGED vars
  BY <1>9 DEF vars
<1> QED BY <1>1, <1>1a, <1>1b, <1>1c, <1>2, <1>3, <1>4, <1>5, <1>8, <1>9 DEF Next, User

\* shutdown() puts a command behind the others only where there is room
LEMMA ShutdownFits ==
  ASSUME NEW q \in Seq(Commands), Len(q) <= QueueCapacity
  PROVE  Len(WithShutdown(q)) <= QueueCapacity
<1> DEFINE stop == [kind |-> "stop", id |-> 0]
           end  == [kind |-> "shutdown", id |-> 0]
           one  == IF Len(q) < QueueCapacity THEN Append(q, stop) ELSE q
<1>0. QueueCapacity \in Nat
  BY ServiceAssumption
<1>1. stop \in Commands /\ end \in Commands
  BY ServiceAssumption DEF Commands
<1>2. WithShutdown(q) = IF Len(one) < QueueCapacity THEN Append(one, end) ELSE one
  BY DEF WithShutdown
<1> HIDE DEF stop, end
<1>3. one \in Seq(Commands) /\ Len(one) <= QueueCapacity
  BY <1>0, <1>1
<1> HIDE DEF one
<1> QED BY <1>0, <1>1, <1>2, <1>3

\* Nothing is put into the queue or a pipe that is full.
LEMMA RoomStep == SInv /\ CInv /\ RoomType /\ [Next]_vars => RoomType'
<1> SUFFICES ASSUME SInv, CInv, RoomType, [Next]_vars PROVE RoomType'
    OBVIOUS
<1> USE DEF flagVars, procVars, taskVars, channelVars, uiVars, supVars, workerVars, serviceVars
<1>0. /\ queue \in Seq(Commands) /\ stdin \in [Launches -> Seq(Commands)]
      /\ QueueCapacity \in Nat \ {0} /\ PipeCapacity \in Nat \ {0}
      /\ issued \in 0..MaxCommands /\ MaxCommands \in Nat
  BY ServiceAssumption DEF CInv, ChannelType
<1>a. ASSUME UNCHANGED stdin, Len(queue') <= QueueCapacity
      PROVE  RoomType'
  BY <1>a DEF RoomType
<1>b. ASSUME UNCHANGED <<queue, stdin>>
      PROVE  RoomType'
  BY <1>b DEF RoomType
<1>c. ASSUME NEW p \in Launches, NEW s, stdin' = [stdin EXCEPT ![p] = s], Len(s) <= PipeCapacity,
             Len(queue') <= QueueCapacity
      PROVE  RoomType'
  BY <1>0, <1>c DEF RoomType
<1>d. queue # <<>> => Len(Tail(queue)) <= QueueCapacity
  BY <1>0, HeadTailProperties DEF RoomType
<1>e. ASSUME NEW c \in Commands, ~QueueFull, queue' = Append(queue, c), UNCHANGED stdin
      PROVE  RoomType'
  BY <1>0, <1>a, <1>e DEF QueueFull
<1>1. CASE Submit
  <2>1. CASE QueueFull
    BY <1>1, <1>b, <2>1 DEF Submit
  <2>2. CASE ~QueueFull
    <3> DEFINE c == [kind |-> "task", id |-> issued + 1]
    <3>1. c \in Commands
      BY <1>0, <1>1 DEF Submit, Commands
    <3>2. queue' = Append(queue, c) /\ UNCHANGED stdin
      BY <1>1, <2>2 DEF Submit
    <3> HIDE DEF c
    <3> QED BY <1>e, <2>2, <3>1, <3>2
  <2> QED BY <2>1, <2>2
<1>2. CASE StopTask
  <2> DEFINE c == [kind |-> "stop", id |-> issued + 1]
  <2>1. c \in Commands
    BY <1>0, <1>2 DEF StopTask, Commands
  <2>2. queue' = Append(queue, c) /\ UNCHANGED stdin /\ ~QueueFull
    BY <1>2 DEF StopTask
  <2> HIDE DEF c
  <2> QED BY <1>e, <2>1, <2>2
<1>3. CASE Start \/ RestartWorker \/ UserCallEnds \/ Time
  BY <1>3, <1>b DEF Start, RestartWorker, UserCallEnds, RestartStarts, StopArmsDeadline, Time,
     DeadlineExpires, RestartDelayExpires
<1>4. CASE Shutdown
  <2>1. UNCHANGED stdin /\ queue' \in {queue, WithShutdown(queue)}
    BY <1>4 DEF Shutdown
  <2>2. Len(queue) <= QueueCapacity /\ Len(WithShutdown(queue)) <= QueueCapacity
    BY <1>0, ShutdownFits DEF RoomType
  <2> QED BY <1>a, <2>1, <2>2
<1>5. CASE WriteCommand
  <2>1. /\ proc \in Launches /\ queue # <<>> /\ queue' = Tail(queue)
        /\ stdin' = [stdin EXCEPT ![proc] = Append(stdin[proc], Head(queue))]
        /\ Len(stdin[proc]) < PipeCapacity
    BY <1>5, ProcIsLaunch DEF WriteCommand
  <2>2. Head(queue) \in Commands /\ stdin[proc] \in Seq(Commands)
    BY <1>0, <2>1
  <2>3. Len(Append(stdin[proc], Head(queue))) <= PipeCapacity
    BY <1>0, <2>1, <2>2
  <2> QED BY <1>c, <1>d, <2>1, <2>3
<1>6. CASE WriteFails
  BY <1>6, <1>a, <1>d DEF WriteFails
<1>7. CASE \E p \in Launches : ReadEvent(p)
  BY <1>7, <1>b DEF ReadEvent
<1>8. CASE PublishProcess
  <2>1. UNCHANGED stdin /\ queue' \in {<<>>, WithShutdown(<<>>)}
    BY <1>8 DEF PublishProcess
  <2>2. <<>> \in Seq(Commands) /\ Len(<<>>) = 0
    OBVIOUS
  <2>3. Len(<<>>) <= QueueCapacity
    BY <1>0, <2>2
  <2>4. Len(WithShutdown(<<>>)) <= QueueCapacity
    BY <2>2, <2>3, ShutdownFits
  <2> QED BY <1>a, <2>1, <2>3, <2>4
<1>9. CASE Reap
  <2>1. UNCHANGED stdin /\ queue' = <<>>
    BY <1>9 DEF Reap
  <2>2. Len(queue') <= QueueCapacity
    BY <1>0, <2>1
  <2> QED BY <1>a, <2>1, <2>2
<1>10. CASE Kill
  <2>1. UNCHANGED queue /\ (UNCHANGED stdin \/ \E p \in Launches : stdin' = [stdin EXCEPT ![p] = <<>>])
    BY <1>10 DEF Kill, Exits, Alive
  <2>2. Len(<<>>) <= PipeCapacity /\ Len(queue) <= QueueCapacity
    BY <1>0 DEF RoomType
  <2> QED BY <1>b, <1>c, <2>1, <2>2
<1>11. CASE SupervisorLooks \/ SpawnFails \/ Spawn \/ Poll \/ ExpectExit \/ ClearDeadline
            \/ CheckHeartbeat
  BY <1>11, <1>b DEF SupervisorLooks, SpawnFails, Spawn, Poll, ExpectExit, ClearDeadline,
     CheckHeartbeat
<1>12. ASSUME NEW p \in Launches, WorkerReads(p)
       PROVE  RoomType'
  <2>1. /\ stdin' = [stdin EXCEPT ![p] = Tail(stdin[p])] /\ stdin[p] # <<>> /\ UNCHANGED queue
        /\ stdin[p] \in Seq(Commands) /\ Len(stdin[p]) <= PipeCapacity
    BY <1>0, <1>12 DEF WorkerReads, RoomType
  <2>2. Len(Tail(stdin[p])) <= PipeCapacity
    BY <1>0, <2>1, HeadTailProperties
  <2>3. Len(queue') <= QueueCapacity
    BY <2>1 DEF RoomType
  <2> QED BY <1>c, <2>1, <2>2, <2>3
<1>13. ASSUME NEW p \in Launches, WorkerSeesEof(p) \/ WorkerEndsTask(p) \/ WorkerBeats(p)
       PROVE  RoomType'
  BY <1>13, <1>b DEF WorkerSeesEof, WorkerEndsTask, WorkerBeats
<1>14. ASSUME NEW p \in Launches, WorkerExits(p) \/ WorkerCrashes(p)
       PROVE  RoomType'
  <2>1. UNCHANGED queue /\ stdin' = [stdin EXCEPT ![p] = <<>>]
    BY <1>14 DEF WorkerExits, WorkerCrashes, Exits
  <2>2. Len(<<>>) <= PipeCapacity /\ Len(queue') <= QueueCapacity
    BY <1>0, <2>1 DEF RoomType
  <2> QED BY <1>c, <2>1, <2>2
<1>15. CASE UNCHANGED vars
  BY <1>15, <1>b DEF vars
<1> QED BY <1>1, <1>2, <1>3, <1>4, <1>5, <1>6, <1>7, <1>8, <1>9, <1>10, <1>11, <1>12, <1>13, <1>14,
           <1>15 DEF Next, User, PipeThreads, Supervisor, Worker

\* Every variable of the service keeps its type; restarts stay within their limit, and neither the
\* command queue nor a pipe is filled above its capacity (service.py).
THEOREM ServiceTypeCorrect == Spec => []TypeOK
<1>1. Init => FlagType /\ LookType /\ CountType /\ RoomType
  <2> SUFFICES ASSUME Init PROVE FlagType /\ LookType /\ CountType /\ RoomType
    OBVIOUS
  <2>1. FlagType
    BY DEF Init, FlagType, States
  <2>1a. CountType
    BY ServiceAssumption DEF Init, CountType
  <2>2. LookType
    BY DEF Init, LookType, NoLook
  <2>3. RoomType
    BY ServiceAssumption DEF Init, RoomType
  <2> QED BY <2>1, <2>1a, <2>2, <2>3
<1>2. SInv /\ CInv /\ (FlagType /\ LookType /\ CountType /\ RoomType) /\ [Next]_vars
          => (FlagType /\ LookType /\ CountType /\ RoomType)'
  BY FlagStep, LookStep, CountStep, RoomStep
<1>3. SInv /\ CInv /\ (FlagType /\ LookType /\ CountType /\ RoomType) => TypeOK
  BY DEF SInv, SlotType, CInv, ChannelType, FlagType, States, LookType, CountType, RoomType, TypeOK
<1> QED BY <1>1, <1>2, <1>3, SlotInvariant, ClaimInvariant, PTL DEF Spec

-----------------------------------------------------------------------------
(* The event buffer: sums and sequences *)

\* Whatever holds of some number in a set holds of a least one.
LEMMA LeastNumber ==
  ASSUME NEW S \in SUBSET Nat, S # {}
  PROVE  \E x \in S : \A y \in S : x <= y
<1> DEFINE Below == {0..x : x \in S}
           R     == StrictSubsetOrdering(Nat)
<1>1. Below \subseteq FiniteSubsetsOf(Nat) /\ Below # {}
  <2>1. \A x \in S : 0..x \in SUBSET Nat /\ IsFiniteSet(0..x)
    BY FS_Interval
  <2> QED BY <2>1 DEF FiniteSubsetsOf
<1>2. \E B \in Below : \A C \in Below : <<C, B>> \notin R
  <2> HIDE DEF Below, R
  <2> QED BY <1>1, FS_StrictSubsetOrderingWellFounded, WFMin DEF R
<1>3. PICK x \in S : \A y \in S : <<0..y, 0..x>> \notin R
  BY <1>2
<1>4. \A y \in S : x <= y
  <2> SUFFICES ASSUME NEW y \in S, y < x PROVE FALSE
      OBVIOUS
  <2>1. 0..y \subseteq 0..x /\ x \in 0..x /\ x \notin 0..y
    OBVIOUS
  <2>2. 0..y \in SUBSET Nat /\ 0..x \in SUBSET Nat
    OBVIOUS
  <2> QED BY <1>3, <2>1, <2>2 DEF StrictSubsetOrdering
<1> QED BY <1>4

\* g holds the sums of the first k numbers of c
Sums(c, k, g) ==
    /\ g \in [0..k -> Nat] /\ g[0] = 0
    /\ \A n \in 1..k : g[n] = g[n - 1] + c[n]

LEMMA SumsExist ==
  ASSUME NEW c \in Seq(Nat), NEW k \in 0..Len(c)
  PROVE  \E g : Sums(c, k, g)
<1> DEFINE Bad == {j \in 0..Len(c) : ~\E g : Sums(c, j, g)}
<1>1. SUFFICES ASSUME Bad # {} PROVE FALSE
  OBVIOUS
<1>2. Bad \in SUBSET Nat
  OBVIOUS
<1>3. PICK j \in Bad : \A y \in Bad : j <= y
  <2> HIDE DEF Bad
  <2> QED BY <1>1, <1>2, LeastNumber
<1>4. CASE j = 0
  <2> DEFINE g == [n \in 0..0 |-> 0]
  <2>1. Sums(c, 0, g)
    BY DEF Sums
  <2> QED BY <1>4, <2>1
<1>5. CASE j # 0
  <2>0. j \in 1..Len(c) /\ c[j] \in Nat
    BY <1>3, <1>5
  <2>1. j - 1 \in 0..Len(c) /\ j - 1 \notin Bad
    <3> HIDE DEF Bad
    <3> QED BY <1>3, <2>0
  <2>2. PICK h : Sums(c, j - 1, h)
    BY <2>1
  <2> DEFINE g == [n \in 0..j |-> IF n = j THEN h[j - 1] + c[j] ELSE h[n]]
  <2>3. g \in [0..j -> Nat] /\ g[0] = 0
    BY <2>0, <2>2 DEF Sums
  <2>4. ASSUME NEW n \in 1..j PROVE g[n] = g[n - 1] + c[n]
    <3>1. CASE n = j
      BY <2>0, <3>1
    <3>2. CASE n # j
      <4>1. n \in 1..(j - 1) /\ n \in 0..j /\ n - 1 \in 0..j /\ n - 1 # j
        BY <2>0, <3>2
      <4> QED BY <2>2, <3>2, <4>1 DEF Sums
    <3> QED BY <3>1, <3>2
  <2>5. Sums(c, j, g)
    BY <2>3, <2>4 DEF Sums
  <2> QED BY <2>5
<1> QED BY <1>4, <1>5

\* Two tables of sums agree as far as their numbers do.
LEMMA SumsAgree ==
  ASSUME NEW c, NEW d, NEW k \in Nat, NEW l \in Nat, k <= l,
         NEW g, NEW h, Sums(c, k, g), Sums(d, l, h), \A n \in 1..k : c[n] = d[n]
  PROVE  g[k] = h[k]
<1> DEFINE Bad == {j \in 0..k : g[j] # h[j]}
<1>1. SUFFICES ASSUME Bad # {} PROVE FALSE
  OBVIOUS
<1>2. Bad \in SUBSET Nat
  OBVIOUS
<1>3. PICK j \in Bad : \A y \in Bad : j <= y
  <2> HIDE DEF Bad
  <2> QED BY <1>1, <1>2, LeastNumber
<1>4. j # 0
  BY <1>3 DEF Sums
<1>5. j - 1 \in 0..k /\ j - 1 \notin Bad /\ j \in 1..k
  BY <1>3, <1>4
<1> QED BY <1>3, <1>5 DEF Sums

LEMMA SumIsLast ==
  ASSUME NEW c \in Seq(Nat)
  PROVE  \E g : Sums(c, Len(c), g) /\ SumOf(c) = g[Len(c)]
<1> DEFINE Table(g) == g = [n \in 0..Len(c) |-> IF n = 0 THEN 0 ELSE g[n - 1] + c[n]]
           sum == CHOOSE g : Table(g)
<1>1. Len(c) \in Nat
  OBVIOUS
<1>2. PICK h : Sums(c, Len(c), h)
  BY SumsExist
<1>3. Table(h)
  <2>1. h = [n \in 0..Len(c) |-> h[n]]
    BY <1>2 DEF Sums
  <2>2. \A n \in 0..Len(c) : h[n] = IF n = 0 THEN 0 ELSE h[n - 1] + c[n]
    BY <1>2 DEF Sums
  <2> QED BY <2>1, <2>2
<1>4. Table(sum)
  <2> HIDE DEF Table
  <2> QED BY <1>3
<1>5. /\ sum[0] = 0
      /\ \A n \in 1..Len(c) : sum[n] = sum[n - 1] + c[n]
  <2> HIDE DEF sum
  <2> QED BY <1>1, <1>4
<1>6. \A n \in 0..Len(c) : sum[n] = h[n]
  <2> DEFINE Bad == {j \in 0..Len(c) : sum[j] # h[j]}
  <2>1. SUFFICES ASSUME Bad # {} PROVE FALSE
    OBVIOUS
  <2>2. Bad \in SUBSET Nat
    OBVIOUS
  <2>3. PICK j \in Bad : \A y \in Bad : j <= y
    <3> HIDE DEF Bad
    <3> QED BY <2>1, <2>2, LeastNumber
  <2> HIDE DEF sum
  <2>4. j # 0
    BY <1>2, <1>5, <2>3 DEF Sums
  <2>5. j - 1 \in 0..Len(c) /\ j - 1 \notin Bad /\ j \in 1..Len(c)
    BY <2>3, <2>4
  <2> QED BY <1>2, <1>5, <2>3, <2>5 DEF Sums
<1>7. SumOf(c) = sum[Len(c)]
  BY DEF SumOf
<1> QED BY <1>1, <1>2, <1>6, <1>7

\* A sum is a number, and one more number adds to it.
LEMMA SumGrows ==
  ASSUME NEW c \in Seq(Nat)
  PROVE  /\ SumOf(c) \in Nat
         /\ \A d \in Seq(Nat) :
               Len(d) = Len(c) + 1 /\ (\A n \in 1..Len(c) : d[n] = c[n])
               => SumOf(d) = SumOf(c) + d[Len(d)]
<1>1. PICK g : Sums(c, Len(c), g) /\ SumOf(c) = g[Len(c)]
  BY SumIsLast
<1>2. SumOf(c) \in Nat
  BY <1>1 DEF Sums
<1>3. ASSUME NEW d \in Seq(Nat), Len(d) = Len(c) + 1, \A n \in 1..Len(c) : d[n] = c[n]
      PROVE  SumOf(d) = SumOf(c) + d[Len(d)]
  <2>1. PICK h : Sums(d, Len(d), h) /\ SumOf(d) = h[Len(d)]
    BY SumIsLast
  <2> DEFINE k == Len(c)
             l == Len(d)
  <2>2. k \in Nat /\ l \in Nat /\ k <= l /\ l = k + 1 /\ \A n \in 1..k : c[n] = d[n]
    BY <1>3
  <2>3. Sums(c, k, g) /\ Sums(d, l, h)
    BY <1>1, <2>1
  <2> HIDE DEF k, l
  <2>4. g[k] = h[k]
    BY <2>2, <2>3, SumsAgree
  <2>5. h[l] = h[k] + d[l]
    <3>1. k \in Nat /\ l = k + 1
      BY <2>2
    <3>2. l \in 1..l /\ l - 1 = k
      BY <3>1
    <3> QED BY <2>3, <3>2 DEF Sums
  <2> QED BY <1>1, <2>1, <2>4, <2>5 DEF k, l
<1> QED BY <1>2, <1>3

-----------------------------------------------------------------------------
(* The event buffer: the invariant *)

Offered == 1..Len(offers)

\* the offer under way holds _publish_lock
HolderIsUnderWay ==
    \A n \in Offered : offers[n].stage \in {"holding", "waiting", "placed"} => holder = n

\* no number is given twice, and the one being written to disk has the last
NumbersGrow ==
    \A n \in Offered :
        /\ offers[n].seq <= sequence
        /\ offers[n].stage = "placed" =>
              /\ offers[n].seq > 0
              /\ \A m \in Offered : m # n => offers[m].seq < offers[n].seq

\* what was seen was placed, and what is on disk was written
SeenWasPlaced ==
    /\ \A i \in 1..Len(SeenByGui) : offers[SeenByGui[i]].stage \in {"placed", "done"}
    /\ \A i \in 1..Len(disk) : offers[disk[i]].stage = "done"

Got(n) == \E i \in 1..Len(SeenByGui) : SeenByGui[i] = n

\* a critical event is never refused, and is seen once it is placed
CriticalIsSeen ==
    \A n \in Offered : offers[n].kind # "verbose" =>
        /\ offers[n].stage # "lost"
        /\ offers[n].stage \in {"placed", "done"} => Got(n)

BufferInv ==
    /\ BufferTypeOK /\ HolderIsUnderWay /\ NumbersGrow /\ SeenWasPlaced
    /\ OrderIsPreserved /\ CriticalIsSeen /\ LossIsAccounted

LEMMA OfferTypes ==
  ASSUME NEW calls \in Seq(Offer)
  PROVE  /\ Len(calls) \in Nat
         /\ \A n \in 1..Len(calls) : /\ calls[n] \in Offer /\ calls[n].kind \in Kinds
                                     /\ calls[n].stage \in Stages
                                     /\ calls[n].seq \in Nat /\ calls[n].count \in Nat
         /\ Counts(calls) \in Seq(Nat) /\ Len(Counts(calls)) = Len(calls)
         /\ \A n \in 1..Len(calls) : Counts(calls)[n] = calls[n].count
<1>1. Len(calls) \in Nat
  OBVIOUS
<1>2. \A n \in 1..Len(calls) : calls[n] \in Offer
  OBVIOUS
<1>3. \A n \in 1..Len(calls) : /\ calls[n].kind \in Kinds /\ calls[n].stage \in Stages
                               /\ calls[n].seq \in Nat /\ calls[n].count \in Nat
  BY <1>2 DEF Offer
<1>4. Counts(calls) \in Seq(Nat) /\ Len(Counts(calls)) = Len(calls)
  BY <1>1, <1>3, IsASeq DEF Counts
<1> QED BY <1>1, <1>2, <1>3, <1>4 DEF Counts

LEMMA SeenTypes ==
  ASSUME BufferTypeOK
  PROVE  /\ SeenByGui \in Seq(Offered) /\ buffer \in Seq(Offered) /\ delivered \in Seq(Offered)
         /\ disk \in Seq(Offered)
         /\ Len(SeenByGui) = Len(delivered) + Len(buffer)
         /\ \A i \in 1..Len(SeenByGui) : SeenByGui[i] \in Offered
         /\ \A i \in 1..Len(buffer) : SeenByGui[Len(delivered) + i] = buffer[i]
<1>1. buffer \in Seq(Offered) /\ delivered \in Seq(Offered) /\ disk \in Seq(Offered)
  BY DEF BufferTypeOK, Offered
<1>2. /\ SeenByGui \in Seq(Offered)
      /\ Len(SeenByGui) = Len(delivered) + Len(buffer)
      /\ \A i \in 1..(Len(delivered) + Len(buffer)) :
            SeenByGui[i] = IF i <= Len(delivered) THEN delivered[i] ELSE buffer[i - Len(delivered)]
  BY <1>1, ConcatProperties DEF SeenByGui
<1>3. \A i \in 1..Len(SeenByGui) : SeenByGui[i] \in Offered
  BY <1>2
<1>4. Len(buffer) \in Nat /\ Len(delivered) \in Nat
  BY <1>1
<1>5. ASSUME NEW i \in 1..Len(buffer) PROVE SeenByGui[Len(delivered) + i] = buffer[i]
  <2>1. /\ Len(delivered) + i \in 1..(Len(delivered) + Len(buffer))
        /\ ~(Len(delivered) + i <= Len(delivered)) /\ (Len(delivered) + i) - Len(delivered) = i
    BY <1>4
  <2> QED BY <1>2, <2>1
<1> QED BY <1>1, <1>2, <1>3, <1>5

\* Numbers that grow are different: nothing is seen twice.
LEMMA NothingTwice ==
  ASSUME BufferInv, NEW i \in 1..Len(SeenByGui), NEW j \in 1..Len(SeenByGui),
         SeenByGui[i] = SeenByGui[j]
  PROVE  i = j
<1>1. offers[SeenByGui[i]].seq \in Nat
  BY OfferTypes, SeenTypes DEF BufferInv, BufferTypeOK, Offered
<1>2. i \in Nat /\ j \in Nat
  OBVIOUS
<1> QED BY <1>1, <1>2 DEF BufferInv, OrderIsPreserved, InSequence

LEMMA LostIsFinite ==
  ASSUME BufferTypeOK
  PROVE  IsFiniteSet(LostEvents) /\ Cardinality(LostEvents) \in Nat
         /\ LostEvents = {n \in Offered : /\ offers[n].kind = "verbose"
                                          /\ offers[n].stage \in {"placed", "done", "lost"}
                                          /\ ~Got(n)}
<1>1. IsFiniteSet(Offered)
  <2>1. Len(offers) \in Int
    BY OfferTypes DEF BufferTypeOK
  <2> QED BY <2>1, FS_Interval DEF Offered
<1>2. LostEvents \in SUBSET Offered
  BY DEF LostEvents, Offered
<1>3. IsFiniteSet(LostEvents) /\ Cardinality(LostEvents) \in Nat
  BY <1>1, <1>2, FS_Subset, FS_CardinalityType
<1> QED BY <1>3 DEF LostEvents, Offered, Got

\* The numbers of the warnings stay, or one more is offered.
LEMMA CountsMove ==
  ASSUME NEW calls \in Seq(Offer), NEW later \in Seq(Offer),
         Len(later) \in {Len(calls), Len(calls) + 1},
         \A n \in 1..Len(calls) : later[n].count = calls[n].count
  PROVE  /\ SumOf(Counts(calls)) \in Nat
         /\ SumOf(Counts(later)) = IF Len(later) = Len(calls) THEN SumOf(Counts(calls))
                                   ELSE SumOf(Counts(calls)) + later[Len(later)].count
<1>1. /\ Len(calls) \in Nat /\ Counts(calls) \in Seq(Nat) /\ Len(Counts(calls)) = Len(calls)
      /\ \A n \in 1..Len(calls) : Counts(calls)[n] = calls[n].count
  BY OfferTypes
<1>2. /\ Counts(later) \in Seq(Nat) /\ Len(Counts(later)) = Len(later)
      /\ \A n \in 1..Len(later) : Counts(later)[n] = later[n].count
  BY OfferTypes
<1>3. \A n \in 1..Len(calls) : Counts(later)[n] = Counts(calls)[n]
  BY <1>1, <1>2
<1>4. CASE Len(later) = Len(calls)
  <2>1. Counts(later) = Counts(calls)
    BY <1>1, <1>2, <1>3, <1>4, SeqEqual
  <2> QED BY <1>1, <1>4, <2>1, SumGrows
<1>5. CASE Len(later) = Len(calls) + 1
  <2>1. SumOf(Counts(later)) = SumOf(Counts(calls)) + Counts(later)[Len(later)]
    BY <1>1, <1>2, <1>3, <1>5, SumGrows
  <2>2. Len(later) \in 1..Len(later) /\ Len(later) # Len(calls)
    BY <1>1, <1>5
  <2> QED BY <1>1, <1>2, <1>5, <2>1, <2>2, SumGrows
<1> QED BY <1>4, <1>5

-----------------------------------------------------------------------------
(* The event buffer: steps *)

\* How a call goes on without being placed.
Moves(o, p) ==
    \/ p.stage = o.stage
    \/ o.stage \in {"called", "holding", "waiting"} /\ p.stage \in {"holding", "waiting"}
    \/ o.stage = "holding" /\ p.stage = "lost" /\ o.kind = "verbose"
    \/ o.stage = "placed" /\ p.stage = "done"

Refused(o, p) == o.stage = "holding" /\ p.stage = "lost"

\* What a step keeps that places nothing: calls go on or are refused, and new ones may begin.
LEMMA RelabelKeeps ==
  ASSUME BufferInv, offers' \in Seq(Offer), Len(offers) <= Len(offers'),
         \A n \in Offered : /\ offers'[n].kind = offers[n].kind /\ offers'[n].seq = offers[n].seq
                            /\ Moves(offers[n], offers'[n]),
         \A n \in Offered' \ Offered : offers'[n].stage = "called" /\ offers'[n].seq = 0,
         UNCHANGED <<SeenByGui, sequence>>
  PROVE  /\ NumbersGrow' /\ CriticalIsSeen' /\ InSequence(SeenByGui)'
         /\ LostEvents' = LostEvents \cup {n \in Offered : Refused(offers[n], offers'[n])}
         /\ \A i \in 1..Len(SeenByGui) : offers'[SeenByGui[i]].stage \in {"placed", "done"}
<1>1. /\ Len(offers) \in Nat /\ Len(offers') \in Nat
      /\ \A n \in Offered : offers[n].seq \in Nat
  BY OfferTypes DEF BufferInv, BufferTypeOK, Offered
<1>2. Offered \subseteq Offered' /\ sequence \in Nat
  BY <1>1 DEF Offered, BufferInv, BufferTypeOK
<1>3. \A i \in 1..Len(SeenByGui) : SeenByGui[i] \in Offered
  BY SeenTypes DEF BufferInv
<1>4. \A n \in Offered' : /\ offers'[n].stage = "placed" =>
                                n \in Offered /\ offers[n].stage = "placed"
                          /\ offers'[n].stage \in {"placed", "done"} <=>
                                n \in Offered /\ offers[n].stage \in {"placed", "done"}
                          /\ offers'[n].stage = "lost" <=>
                                /\ n \in Offered
                                /\ \/ offers[n].stage = "lost"
                                   \/ Refused(offers[n], offers'[n])
                          /\ n \in Offered /\ Refused(offers[n], offers'[n]) =>
                                offers[n].kind = "verbose"
  BY <1>2 DEF Moves, Refused
<1>5. NumbersGrow'
  <2> SUFFICES ASSUME NEW n \in Offered'
               PROVE  /\ offers'[n].seq <= sequence
                      /\ offers'[n].stage = "placed" =>
                            /\ offers'[n].seq > 0
                            /\ \A m \in Offered' : m # n => offers'[m].seq < offers'[n].seq
      BY DEF NumbersGrow
  <2>1. offers'[n].seq <= sequence
    BY <1>2 DEF BufferInv, NumbersGrow
  <2>2. ASSUME offers'[n].stage = "placed", NEW m \in Offered'
        PROVE  offers'[n].seq > 0 /\ (m # n => offers'[m].seq < offers'[n].seq)
    <3>1. /\ n \in Offered /\ offers[n].stage = "placed" /\ offers'[n].seq = offers[n].seq
          /\ offers[n].seq > 0
      BY <1>4, <2>2 DEF BufferInv, NumbersGrow
    <3>2. CASE m \in Offered
      BY <2>2, <3>1, <3>2 DEF BufferInv, NumbersGrow
    <3>3. CASE m \notin Offered
      BY <1>1, <3>1, <3>3
    <3> QED BY <3>1, <3>2, <3>3
  <2> QED BY <2>1, <2>2 DEF Offered
<1>6. /\ CriticalIsSeen'
      /\ LostEvents' = LostEvents \cup {n \in Offered : Refused(offers[n], offers'[n])}
  <2>1. \A n : Got(n)' <=> Got(n)
    BY DEF Got
  <2>2. CriticalIsSeen'
    BY <1>4, <2>1 DEF BufferInv, CriticalIsSeen
  <2>3. LostEvents = {n \in Offered : /\ offers[n].kind = "verbose"
                                      /\ offers[n].stage \in {"placed", "done", "lost"}
                                      /\ ~Got(n)}
    BY DEF LostEvents, Got, Offered
  <2>4. LostEvents' = {n \in Offered' : /\ offers'[n].kind = "verbose"
                                        /\ offers'[n].stage \in {"placed", "done", "lost"}
                                        /\ ~Got(n)'}
    BY DEF LostEvents, Got, Offered
  <2>5. ASSUME NEW n \in Offered, Refused(offers[n], offers'[n])
        PROVE  ~Got(n)
    BY <2>5 DEF BufferInv, SeenWasPlaced, Got, Refused
  <2> QED BY <1>2, <1>4, <2>1, <2>2, <2>3, <2>4, <2>5
<1>7. InSequence(SeenByGui)'
  BY <1>3 DEF BufferInv, OrderIsPreserved, InSequence
<1>8. \A i \in 1..Len(SeenByGui) : offers'[SeenByGui[i]].stage \in {"placed", "done"}
  BY <1>2, <1>3, <1>4 DEF BufferInv, SeenWasPlaced
<1> QED BY <1>5, <1>6, <1>7, <1>8

\* The sequence b without its element at i, and behind d.
WithoutAt(b, i) == SubSeq(b, 1, i - 1) \o SubSeq(b, i + 1, Len(b))
Behind(d, b) == d \o b
Skipping(d, i, j) == IF j < Len(d) + i THEN j ELSE j + 1
RestBehind(d, b, i) == d \o WithoutAt(b, i)

LEMMA WithoutOne ==
  ASSUME NEW S, NEW d \in Seq(S), NEW b \in Seq(S), NEW i \in 1..Len(b)
  PROVE  /\ WithoutAt(b, i) \in Seq(S) /\ Len(WithoutAt(b, i)) = Len(b) - 1
         /\ RestBehind(d, b, i) \in Seq(S) /\ Len(RestBehind(d, b, i)) = Len(d) + Len(b) - 1
         /\ \A j \in 1..Len(RestBehind(d, b, i)) :
               RestBehind(d, b, i)[j] = Behind(d, b)[Skipping(d, i, j)]
<1> DEFINE f == SubSeq(b, 1, i - 1)
           g == SubSeq(b, i + 1, Len(b))
           m == Len(b)
           k == Len(d)
           r == WithoutAt(b, i)
           s == RestBehind(d, b, i)
           t == Behind(d, b)
<1>1. m \in Nat /\ k \in Nat /\ i \in Nat /\ i >= 1 /\ i <= m
  OBVIOUS
<1>2. f \in Seq(S) /\ Len(f) = i - 1 /\ \A j \in 1..(i - 1) : f[j] = b[j]
  BY <1>1, SubSeqProperties
<1>3. g \in Seq(S) /\ Len(g) = m - i /\ \A j \in 1..(m - i) : g[j] = b[i + j]
  BY <1>1, SubSeqProperties
<1>4. r = f \o g /\ s = d \o r /\ t = d \o b
  BY DEF WithoutAt, RestBehind, Behind
<1> HIDE DEF f, g, m, k, r, s, t
<1>5. /\ r \in Seq(S) /\ Len(r) = (i - 1) + (m - i)
      /\ \A j \in 1..((i - 1) + (m - i)) : r[j] = IF j <= i - 1 THEN f[j] ELSE g[j - (i - 1)]
  <2>1. /\ f \o g \in Seq(S) /\ Len(f \o g) = Len(f) + Len(g)
        /\ \A j \in 1..(Len(f) + Len(g)) :
              (f \o g)[j] = IF j <= Len(f) THEN f[j] ELSE g[j - Len(f)]
    <3>1. f \in Seq(S) /\ g \in Seq(S)
      BY <1>2, <1>3
    <3> QED BY ONLY <3>1, ConcatProperties
  <2> QED BY ONLY <1>2, <1>3, <1>4, <2>1
<1>6. (i - 1) + (m - i) = m - 1
  BY <1>1
<1>7. ASSUME NEW j \in 1..(m - 1) PROVE r[j] = b[IF j < i THEN j ELSE j + 1]
  <2>1. CASE j < i
    <3>1. j \in 1..(i - 1) /\ j <= i - 1
      BY <1>1, <2>1
    <3> QED BY <1>2, <1>5, <1>6, <2>1, <3>1
  <2>2. CASE ~(j < i)
    <3>1. j - (i - 1) \in 1..(m - i) /\ i + (j - (i - 1)) = j + 1 /\ ~(j <= i - 1)
      BY <1>1, <2>2
    <3>2. r[j] = g[j - (i - 1)] /\ g[j - (i - 1)] = b[i + (j - (i - 1))]
      BY <1>3, <1>5, <1>6, <3>1
    <3> QED BY <2>2, <3>1, <3>2
  <2> QED BY <2>1, <2>2
<1>8. /\ s \in Seq(S) /\ Len(s) = k + (m - 1)
      /\ \A j \in 1..(k + (m - 1)) : s[j] = IF j <= k THEN d[j] ELSE r[j - k]
  <2>1. /\ d \o r \in Seq(S) /\ Len(d \o r) = Len(d) + Len(r)
        /\ \A j \in 1..(Len(d) + Len(r)) :
              (d \o r)[j] = IF j <= Len(d) THEN d[j] ELSE r[j - Len(d)]
    <3>1. d \in Seq(S) /\ r \in Seq(S)
      BY <1>5
    <3> QED BY ONLY <3>1, ConcatProperties
  <2>2. Len(d) = k /\ Len(r) = m - 1
    BY <1>5, <1>6 DEF k
  <2> QED BY ONLY <1>4, <2>1, <2>2
<1>9. \A j \in 1..(k + m) : t[j] = IF j <= k THEN d[j] ELSE b[j - k]
  BY ConcatProperties DEF k, m, t, Behind
<1>10. ASSUME NEW j \in 1..(k + (m - 1))
       PROVE  s[j] = t[IF j < k + i THEN j ELSE j + 1]
  <2>1. j \in 1..(k + m) /\ j + 1 \in 1..(k + m)
    BY <1>1
  <2>2. CASE j <= k
    <3>1. j < k + i
      BY <1>1, <2>2
    <3> QED BY <1>8, <1>9, <2>1, <2>2, <3>1
  <2>3. CASE ~(j <= k)
    <3>1. j - k \in 1..(m - 1) /\ (j - k) + 1 = (j + 1) - k /\ ~(j + 1 <= k)
      BY <1>1, <2>3
    <3>2. s[j] = b[IF j - k < i THEN j - k ELSE (j - k) + 1]
      BY <1>7, <1>8, <2>3, <3>1
    <3>3. j - k < i <=> j < k + i
      BY <1>1, <2>3
    <3> QED BY <1>9, <2>1, <2>3, <3>1, <3>2, <3>3
  <2> QED BY <2>2, <2>3
<1>11. k + (m - 1) = k + m - 1
  BY <1>1
<1>12. \A j \in 1..Len(s) : s[j] = t[Skipping(d, i, j)]
  BY <1>8, <1>10 DEF Skipping, k
<1>13. WithoutAt(b, i) \in Seq(S) /\ Len(WithoutAt(b, i)) = Len(b) - 1
  BY ONLY <1>5, <1>6 DEF m, r
<1>14. /\ RestBehind(d, b, i) \in Seq(S)
       /\ Len(RestBehind(d, b, i)) = Len(d) + Len(b) - 1
  BY ONLY <1>1, <1>8, <1>11 DEF k, m, s
<1>15. \A j \in 1..Len(RestBehind(d, b, i)) :
          RestBehind(d, b, i)[j] = Behind(d, b)[Skipping(d, i, j)]
  BY ONLY <1>12 DEF s, t
<1> QED BY ONLY <1>13, <1>14, <1>15

\* what Place writes into the offer
LEMMA PlacedOffer ==
  ASSUME BufferTypeOK, NEW n \in Offered,
         offers' = [offers EXCEPT ![n].stage = "placed", ![n].seq = sequence + 1]
  PROVE  /\ offers' \in Seq(Offer) /\ Len(offers') = Len(offers)
         /\ \A m \in Offered : m # n => offers'[m] = offers[m]
         /\ offers'[n].stage = "placed" /\ offers'[n].seq = sequence + 1
         /\ offers'[n].kind = offers[n].kind /\ offers'[n].count = offers[n].count
<1> DEFINE o == [offers[n] EXCEPT !.stage = "placed", !.seq = sequence + 1]
<1>1. /\ offers \in Seq(Offer) /\ n \in 1..Len(offers) /\ offers[n] \in Offer
      /\ sequence + 1 \in Nat
  BY DEF BufferTypeOK, Offered
<1>2. /\ o \in Offer /\ o.stage = "placed" /\ o.seq = sequence + 1
      /\ o.kind = offers[n].kind /\ o.count = offers[n].count
  BY <1>1 DEF Offer, Stages
<1>3. offers' = [offers EXCEPT ![n] = o]
  OBVIOUS
<1> HIDE DEF o
<1>4. /\ offers' \in Seq(Offer) /\ Len(offers') = Len(offers)
      /\ \A m \in 1..Len(offers) : offers'[m] = IF m = n THEN o ELSE offers[m]
  <2>1. /\ [offers EXCEPT ![n] = o] \in Seq(Offer)
        /\ Len([offers EXCEPT ![n] = o]) = Len(offers)
        /\ \A m \in 1..Len(offers) : [offers EXCEPT ![n] = o][m] = IF m = n THEN o ELSE offers[m]
    BY ONLY <1>1, <1>2, ExceptSeq
  <2> QED BY ONLY <1>3, <2>1
<1> QED BY <1>1, <1>2, <1>4 DEF Offered

\* An event is placed behind the sequence s of those that are still there.
LEMMA PlaceKeeps ==
  ASSUME BufferInv, NEW n \in Offered, offers[n].stage = "holding", holder = n,
         NEW s \in Seq(Offered), InSequence(s),
         \A i \in 1..Len(s) : offers[s[i]].stage \in {"placed", "done"},
         Len(offers') = Len(offers), \A m \in Offered : m # n => offers'[m] = offers[m],
         offers'[n].stage = "placed", offers'[n].seq = sequence + 1,
         sequence' = sequence + 1, SeenByGui' = Append(s, n), UNCHANGED <<disk, holder>>
  PROVE  /\ HolderIsUnderWay' /\ NumbersGrow' /\ SeenWasPlaced' /\ OrderIsPreserved'
<1>1. /\ offers \in Seq(Offer) /\ sequence \in Nat /\ Len(offers) \in Nat /\ disk \in Seq(Offered)
      /\ \A m \in Offered : offers[m] \in Offer /\ offers[m].seq \in Nat
  BY OfferTypes, SeenTypes DEF BufferInv, BufferTypeOK, Offered
<1>2. Offered' = Offered
  BY DEF Offered
<1>3. HolderIsUnderWay'
  BY <1>2 DEF BufferInv, HolderIsUnderWay
<1>4. \A m \in Offered : offers[m].stage # "placed" /\ offers[m].seq < sequence + 1
  <2>1. \A m \in Offered : offers[m].stage # "placed"
    BY DEF BufferInv, HolderIsUnderWay
  <2> QED BY <1>1, <2>1 DEF BufferInv, NumbersGrow
<1>5. NumbersGrow'
  <2>1. \A m \in Offered : offers'[m].seq <= sequence + 1
    BY <1>1, <1>4
  <2>2. \A m \in Offered : m # n => offers'[m].seq < offers'[n].seq /\ offers'[m].stage # "placed"
    BY <1>1, <1>4
  <2> QED BY <1>1, <1>2, <2>1, <2>2 DEF NumbersGrow
<1>6. /\ Len(SeenByGui') = Len(s) + 1 /\ Len(s) \in Nat
      /\ \A i \in 1..Len(s) : SeenByGui'[i] = s[i] /\ s[i] \in Offered /\ s[i] # n
      /\ SeenByGui'[Len(s) + 1] = n
  <2>1. \A i \in 1..Len(s) : s[i] \in Offered /\ s[i] # n
    OBVIOUS
  <2> QED BY <2>1, AppendProperties
<1>7. \A i \in 1..Len(disk) : disk[i] \in Offered /\ disk[i] # n
  BY <1>1 DEF BufferInv, SeenWasPlaced
<1>8. SeenWasPlaced'
  <2>1. \A i \in 1..Len(SeenByGui') : offers'[SeenByGui'[i]].stage \in {"placed", "done"}
    <3> TAKE i \in 1..Len(SeenByGui')
    <3>1. i \in 1..Len(s) \/ i = Len(s) + 1
      BY <1>6
    <3> QED BY <1>6, <3>1
  <2>2. \A i \in 1..Len(disk) : offers'[disk[i]].stage = "done"
    BY <1>7 DEF BufferInv, SeenWasPlaced
  <2> QED BY <2>1, <2>2 DEF SeenWasPlaced
<1>9. InSequence(SeenByGui)'
  <2> SUFFICES ASSUME NEW i \in 1..Len(SeenByGui'), NEW j \in 1..Len(SeenByGui'), i < j
               PROVE  offers'[SeenByGui'[i]].seq < offers'[SeenByGui'[j]].seq
      BY DEF InSequence
  <2>1. i \in 1..Len(s)
    BY <1>6
  <2>2. offers'[SeenByGui'[i]] = offers[s[i]]
    BY <1>6, <2>1
  <2>3. CASE j = Len(s) + 1
    BY <1>4, <1>6, <2>1, <2>2, <2>3
  <2>4. CASE j # Len(s) + 1
    <3>1. j \in 1..Len(s)
      BY <1>6, <2>4
    <3>2. offers'[SeenByGui'[j]] = offers[s[j]]
      BY <1>6, <3>1
    <3> QED BY <2>1, <2>2, <3>1, <3>2 DEF InSequence
  <2> QED BY <2>3, <2>4
<1>10. InSequence(disk)'
  BY <1>7 DEF BufferInv, OrderIsPreserved, InSequence
<1> QED BY <1>3, <1>5, <1>8, <1>9, <1>10 DEF OrderIsPreserved

Elements(s) == {s[i] : i \in 1..Len(s)}

\* What the placing of n costs: the verbose events E that make room for it.
LEMMA PlaceLoses ==
  ASSUME BufferInv, NEW n \in Offered, offers[n].stage = "holding",
         NEW s \in Seq(Offered), NEW E \in SUBSET Offered,
         Elements(SeenByGui) = Elements(s) \cup E, Elements(s) \cap E = {},
         \A m \in E : offers[m].kind = "verbose",
         offers' \in Seq(Offer), Len(offers') = Len(offers),
         \A m \in Offered : m # n => offers'[m] = offers[m],
         offers'[n].stage = "placed", offers'[n].kind = offers[n].kind,
         offers'[n].count = offers[n].count, SeenByGui' = Append(s, n)
  PROVE  /\ CriticalIsSeen'
         /\ LostEvents' = LostEvents \cup E /\ LostEvents \cap E = {}
         /\ SumOf(Counts(offers')) = SumOf(Counts(offers))
<1>1. /\ Offered' = Offered /\ offers \in Seq(Offer) /\ Offered = 1..Len(offers)
      /\ \A m : Got(m) <=> m \in E \/ \E i \in 1..Len(s) : s[i] = m
      /\ \A m \in E : \A i \in 1..Len(s) : s[i] # m
  <2>1. \A m : Got(m) <=> m \in Elements(SeenByGui)
    BY DEF Got, Elements
  <2>2. \A m : m \in Elements(s) <=> \E i \in 1..Len(s) : s[i] = m
    BY DEF Elements
  <2>3. Offered' = Offered /\ offers \in Seq(Offer) /\ Offered = 1..Len(offers)
    BY DEF Offered, BufferInv, BufferTypeOK
  <2>4. \A m : Got(m) <=> m \in E \/ m \in Elements(s)
    BY ONLY <2>1, Elements(SeenByGui) = Elements(s) \cup E
  <2>5. \A m \in E : ~(m \in Elements(s))
    BY ONLY Elements(s) \cap E = {}
  <2> QED BY ONLY <2>2, <2>3, <2>4, <2>5
<1>2. /\ Len(SeenByGui') = Len(s) + 1 /\ Len(s) \in Nat
      /\ \A i \in 1..Len(s) : SeenByGui'[i] = s[i]
      /\ SeenByGui'[Len(s) + 1] = n
  BY AppendProperties
<1>3. ASSUME NEW m \in Offered
      PROVE  Got(m)' <=> m = n \/ \E i \in 1..Len(s) : s[i] = m
  <2>1. \A i \in 1..Len(SeenByGui') : i \in 1..Len(s) \/ i = Len(s) + 1
    BY <1>2
  <2>2. Len(s) + 1 \in 1..Len(SeenByGui') /\ 1..Len(s) \subseteq 1..Len(SeenByGui')
    BY <1>2
  <2> QED BY <1>2, <2>1, <2>2 DEF Got
<1>4. \A m \in Offered : Got(m) => offers[m].stage \in {"placed", "done"}
  BY DEF BufferInv, SeenWasPlaced, Got
<1>5. CriticalIsSeen'
  <2> SUFFICES ASSUME NEW m \in Offered, offers'[m].kind # "verbose"
               PROVE  /\ offers'[m].stage # "lost"
                      /\ offers'[m].stage \in {"placed", "done"} => Got(m)'
      BY <1>1 DEF CriticalIsSeen
  <2>1. CASE m = n
    BY <1>3, <2>1
  <2>2. CASE m # n
    BY <1>1, <1>3, <2>2 DEF BufferInv, CriticalIsSeen
  <2> QED BY <2>1, <2>2
<1>6. LostEvents = {m \in Offered : /\ offers[m].kind = "verbose"
                                    /\ offers[m].stage \in {"placed", "done", "lost"}
                                    /\ ~Got(m)}
  BY DEF LostEvents, Got, Offered
<1>7. LostEvents' = {m \in Offered : /\ offers'[m].kind = "verbose"
                                     /\ offers'[m].stage \in {"placed", "done", "lost"}
                                     /\ ~Got(m)'}
  BY <1>1 DEF LostEvents, Got, Offered
<1>8. LostEvents \cap E = {}
  BY <1>1, <1>6
<1>9. ASSUME NEW m \in Offered
      PROVE  m \in LostEvents' <=> m \in LostEvents \cup E
  <2>1. CASE m = n
    BY <1>1, <1>3, <1>4, <1>6, <1>7, <2>1
  <2>2. CASE m # n
    BY <1>1, <1>3, <1>4, <1>6, <1>7, <2>2
  <2> QED BY <2>1, <2>2
<1>10. LostEvents' = LostEvents \cup E
  BY <1>6, <1>7, <1>9
<1>11. SumOf(Counts(offers')) = SumOf(Counts(offers))
  <2>1. \A m \in 1..Len(offers) : offers'[m].count = offers[m].count
    BY <1>1
  <2> QED BY <1>1, <2>1, CountsMove
<1> QED BY <1>5, <1>8, <1>10, <1>11

\* The event n is placed in room, what is left of the buffer without the events E.
LEMMA PlaceInRoom ==
  ASSUME BufferInv, NEW n \in Offered, offers[n].stage = "holding", holder = n,
         NEW room \in Seq(Offered), Len(room) < Capacity, Place(n, room),
         NEW s, s = delivered \o room, InSequence(s),
         NEW E \in SUBSET Offered, IsFiniteSet(E), dropped' = dropped + Cardinality(E),
         Elements(SeenByGui) = Elements(s) \cup E, Elements(s) \cap E = {},
         \A m \in E : offers[m].kind = "verbose",
         UNCHANGED <<disk, diskWarning, delivered>>
  PROVE  BufferInv'
<1>1. /\ sequence' = sequence + 1 /\ holder' = n /\ buffer' = Append(room, n)
      /\ offers' = [offers EXCEPT ![n].stage = "placed", ![n].seq = sequence + 1]
  BY DEF Place, HolderAfterPlacing
<1>2. BufferTypeOK /\ sequence \in Nat /\ dropped \in Nat /\ disk \in Seq(Offered)
  BY SeenTypes DEF BufferInv, BufferTypeOK
<1>3. /\ offers' \in Seq(Offer) /\ Len(offers') = Len(offers)
      /\ \A m \in Offered : m # n => offers'[m] = offers[m]
      /\ offers'[n].stage = "placed" /\ offers'[n].seq = sequence + 1
      /\ offers'[n].kind = offers[n].kind /\ offers'[n].count = offers[n].count
  BY <1>1, <1>2, PlacedOffer
<1>4. /\ delivered \in Seq(Offered) /\ s \in Seq(Offered)
      /\ \A i \in 1..Len(s) : s[i] \in Offered
  <2>1. delivered \in Seq(Offered)
    BY <1>2, SeenTypes
  <2>2. s \in Seq(Offered)
    BY <2>1, ConcatProperties
  <2> QED BY <2>1, <2>2
<1>5. SeenByGui' = Append(s, n)
  <2>1. SeenByGui' = delivered \o Append(room, n)
    BY <1>1 DEF SeenByGui
  <2>2. <<n>> \in Seq(Offered)
    OBVIOUS
  <2>3. Append(room, n) = room \o <<n>> /\ Append(s, n) = s \o <<n>>
    BY <1>4, AppendIsConcat
  <2>4. (delivered \o room) \o <<n>> = delivered \o (room \o <<n>>)
    BY ONLY <1>4, <2>2, room \in Seq(Offered), ConcatAssociative
  <2> QED BY <2>1, <2>3, <2>4
<1>6. \A i \in 1..Len(s) : offers[s[i]].stage \in {"placed", "done"}
  <2> TAKE i \in 1..Len(s)
  <2>1. PICK k \in 1..Len(SeenByGui) : SeenByGui[k] = s[i]
    BY DEF Elements
  <2> QED BY <2>1 DEF BufferInv, SeenWasPlaced
<1>7. HolderIsUnderWay' /\ NumbersGrow' /\ SeenWasPlaced' /\ OrderIsPreserved'
  BY <1>1, <1>3, <1>4, <1>5, <1>6, PlaceKeeps
<1>8. /\ CriticalIsSeen' /\ LostEvents' = LostEvents \cup E /\ LostEvents \cap E = {}
      /\ SumOf(Counts(offers')) = SumOf(Counts(offers))
  BY <1>3, <1>4, <1>5, PlaceLoses
<1>9. LossIsAccounted'
  <2>1. IsFiniteSet(LostEvents) /\ Cardinality(LostEvents) \in Nat
    BY <1>2, LostIsFinite
  <2>2. Cardinality(E) \in Nat
    BY FS_CardinalityType
  <2>3. Cardinality(LostEvents') = Cardinality(LostEvents) + Cardinality(E)
    <3>1. Cardinality(LostEvents \cup E) =
             Cardinality(LostEvents) + Cardinality(E) - Cardinality(LostEvents \cap E)
      BY <2>1, FS_Union
    <3>2. Cardinality(LostEvents \cap E) = 0
      BY <1>8, FS_EmptySet
    <3> QED BY <1>8, <2>1, <2>2, <3>1, <3>2
  <2>4. SumOf(Counts(offers)) \in Nat
    BY <1>2, OfferTypes, SumGrows DEF BufferTypeOK
  <2>5. Cardinality(LostEvents) = dropped + SumOf(Counts(offers))
    BY DEF BufferInv, LossIsAccounted
  <2>6. Cardinality(LostEvents') = dropped' + SumOf(Counts(offers'))
    BY ONLY <1>2, <1>8, <2>1, <2>2, <2>3, <2>4, <2>5, dropped' = dropped + Cardinality(E)
  <2> QED BY <2>6 DEF LossIsAccounted
<1>10. BufferTypeOK'
  <2>1. Cardinality(E) \in Nat
    BY FS_CardinalityType
  <2>2. /\ buffer' \in Seq(Offered) /\ Len(buffer') = Len(room) + 1 /\ Len(room) \in Nat
    BY <1>1, AppendProperties
  <2>3. Capacity \in Nat /\ Len(buffer') <= Capacity
    BY <2>2, BufferAssumption
  <2>4. Len(offers) \in Nat /\ n \in 0..Len(offers') /\ Offered = 1..Len(offers')
    BY <1>3 DEF Offered
  <2> QED BY <1>1, <1>2, <1>3, <1>4, <2>1, <2>2, <2>3, <2>4 DEF BufferTypeOK
<1> QED BY <1>7, <1>8, <1>9, <1>10 DEF BufferInv

LEMMA PlaceWithRoom ==
  ASSUME BufferInv, NEW n \in Offered, offers[n].stage = "holding", holder = n,
         ~Full, Place(n, buffer), UNCHANGED <<dropped, disk, diskWarning, delivered>>
  PROVE  BufferInv'
<1>1. BufferTypeOK /\ buffer \in Seq(Offered) /\ Len(buffer) < Capacity
  <2>1. BufferTypeOK /\ buffer \in Seq(Offered) /\ Len(buffer) \in Nat
    BY SeenTypes DEF BufferInv
  <2> QED BY <2>1, BufferAssumption DEF Full
<1> DEFINE s == delivered \o buffer
           E == {}
<1>2. s = SeenByGui /\ InSequence(s)
  BY DEF SeenByGui, BufferInv, OrderIsPreserved
<1>3. /\ E \in SUBSET Offered /\ IsFiniteSet(E) /\ dropped' = dropped + Cardinality(E)
      /\ Elements(SeenByGui) = Elements(s) \cup E /\ Elements(s) \cap E = {}
      /\ \A m \in E : offers[m].kind = "verbose"
  <2>1. IsFiniteSet(E) /\ Cardinality(E) = 0
    BY FS_EmptySet
  <2>2. dropped \in Nat /\ dropped' = dropped
    BY <1>1 DEF BufferTypeOK
  <2> QED BY <1>2, <2>1, <2>2
<1>4. s = delivered \o buffer
  OBVIOUS
<1> HIDE DEF s, E
<1> QED BY <1>1, <1>2, <1>3, <1>4, PlaceInRoom

LEMMA PlaceByEviction ==
  ASSUME BufferInv, NEW n \in Offered, offers[n].stage = "holding", holder = n,
         NEW i \in 1..Len(buffer), Evictable(i),
         Place(n, SubSeq(buffer, 1, i - 1) \o SubSeq(buffer, i + 1, Len(buffer))),
         dropped' = dropped + 1, UNCHANGED <<disk, diskWarning, delivered>>
  PROVE  BufferInv'
<1> DEFINE room == SubSeq(buffer, 1, i - 1) \o SubSeq(buffer, i + 1, Len(buffer))
           s == delivered \o room
           E == {buffer[i]}
           k == Len(delivered) + i
           At(j) == IF j < k THEN j ELSE j + 1
<1>1. /\ BufferTypeOK /\ buffer \in Seq(Offered) /\ delivered \in Seq(Offered)
      /\ Len(buffer) \in Nat /\ Len(delivered) \in Nat
      /\ Len(SeenByGui) = Len(delivered) + Len(buffer)
      /\ SeenByGui[k] = buffer[i] /\ buffer[i] \in Offered
      /\ \A j \in 1..Len(SeenByGui) : SeenByGui[j] \in Offered
  <2>1. BufferTypeOK
    BY DEF BufferInv
  <2>2. buffer \in Seq(Offered) /\ delivered \in Seq(Offered)
    BY <2>1, SeenTypes
  <2>3. Len(buffer) \in Nat /\ Len(delivered) \in Nat /\ buffer[i] \in Offered
    BY <2>2
  <2> QED BY <2>1, <2>2, <2>3, SeenTypes
<1>2. /\ room \in Seq(Offered) /\ Len(room) = Len(buffer) - 1
      /\ s \in Seq(Offered) /\ Len(s) = Len(SeenByGui) - 1
      /\ \A j \in 1..Len(s) : s[j] = SeenByGui[At(j)]
  <2>1. SeenByGui = Behind(delivered, buffer)
    BY DEF SeenByGui, Behind
  <2>2. room = WithoutAt(buffer, i) /\ s = RestBehind(delivered, buffer, i)
    BY DEF WithoutAt, RestBehind
  <2>3. delivered \in Seq(Offered) /\ buffer \in Seq(Offered) /\ i \in 1..Len(buffer)
    BY <1>1
  <2> HIDE DEF room, s
  <2>4. /\ room \in Seq(Offered) /\ Len(room) = Len(buffer) - 1
        /\ s \in Seq(Offered) /\ Len(s) = Len(delivered) + Len(buffer) - 1
        /\ \A j \in 1..Len(s) : s[j] = SeenByGui[Skipping(delivered, i, j)]
    <3>1. Len(delivered) \in Nat /\ Len(buffer) \in Nat
      BY <1>1
    <3>2. /\ WithoutAt(buffer, i) \in Seq(Offered) /\ Len(WithoutAt(buffer, i)) = Len(buffer) - 1
          /\ RestBehind(delivered, buffer, i) \in Seq(Offered)
          /\ Len(RestBehind(delivered, buffer, i)) = Len(delivered) + Len(buffer) - 1
      BY ONLY <2>3, <3>1, WithoutOne
    <3>3. \A j \in 1..Len(RestBehind(delivered, buffer, i)) :
             RestBehind(delivered, buffer, i)[j]
                = Behind(delivered, buffer)[Skipping(delivered, i, j)]
      BY ONLY <2>3, <3>1, WithoutOne
    <3> QED BY ONLY <2>1, <2>2, <3>2, <3>3
  <2>5. \A j \in 1..Len(s) : s[j] = SeenByGui[At(j)]
    BY <2>4 DEF Skipping
  <2> QED BY <1>1, <2>4, <2>5
<1>3. Place(n, room) /\ s = delivered \o room
  OBVIOUS
<1>4. k \in 1..Len(SeenByGui) /\ Len(SeenByGui) \in Nat
  BY <1>1
<1> HIDE DEF room, s, k
<1>5. Len(room) < Capacity
  <2>1. Capacity \in Nat /\ Len(buffer) <= Capacity
    BY <1>1, BufferAssumption DEF BufferTypeOK
  <2> QED BY <1>1, <1>2, <2>1
<1>6. \A j \in 1..Len(s) : At(j) \in 1..Len(SeenByGui) /\ At(j) # k
  BY <1>2, <1>4
<1>7. InSequence(s)
  <2> SUFFICES ASSUME NEW a \in 1..Len(s), NEW b \in 1..Len(s), a < b
               PROVE  offers[s[a]].seq < offers[s[b]].seq
      BY DEF InSequence
  <2>1. At(a) < At(b)
    BY <1>2, <1>4
  <2>2. s[a] = SeenByGui[At(a)] /\ s[b] = SeenByGui[At(b)]
    BY <1>2
  <2> QED BY <1>6, <2>1, <2>2 DEF BufferInv, OrderIsPreserved, InSequence
<1>8. Elements(s) \cap E = {}
  <2> SUFFICES ASSUME NEW j \in 1..Len(s), s[j] = buffer[i] PROVE FALSE
      BY DEF Elements
  <2>1. SeenByGui[At(j)] = SeenByGui[k]
    BY <1>1, <1>2
  <2> QED BY <1>4, <1>6, <2>1, NothingTwice
<1>9. Elements(SeenByGui) = Elements(s) \cup E
  <2>1. ASSUME NEW j \in 1..Len(SeenByGui) PROVE SeenByGui[j] \in Elements(s) \cup E
    <3>1. CASE j = k
      BY <1>1, <3>1
    <3>2. CASE j < k
      <4>1. j \in 1..Len(s) /\ At(j) = j
        BY <1>2, <1>4, <3>2
      <4> QED BY <1>2, <4>1 DEF Elements
    <3>3. CASE j > k
      <4>1. j - 1 \in 1..Len(s) /\ At(j - 1) = j
        BY <1>2, <1>4, <3>3
      <4> QED BY <1>2, <4>1 DEF Elements
    <3> QED BY <1>4, <3>1, <3>2, <3>3
  <2>2. ASSUME NEW j \in 1..Len(s) PROVE s[j] \in Elements(SeenByGui)
    BY <1>2, <1>6 DEF Elements
  <2>3. buffer[i] \in Elements(SeenByGui)
    BY <1>1, <1>4 DEF Elements
  <2> QED BY <2>1, <2>2, <2>3 DEF Elements
<1>10. /\ E \in SUBSET Offered /\ IsFiniteSet(E) /\ dropped' = dropped + Cardinality(E)
       /\ \A m \in E : offers[m].kind = "verbose"
  <2>1. IsFiniteSet(E) /\ Cardinality(E) = 1
    BY FS_Singleton
  <2> QED BY <1>1, <2>1 DEF Evictable
<1> HIDE DEF E
<1> QED BY <1>2, <1>3, <1>5, <1>7, <1>8, <1>9, <1>10, PlaceInRoom

\* An offer in a new stage.
LEMMA StagedOffer ==
  ASSUME NEW calls \in Seq(Offer), NEW n \in 1..Len(calls), NEW st \in Stages,
         NEW later, later = [calls EXCEPT ![n].stage = st]
  PROVE  /\ later \in Seq(Offer) /\ Len(later) = Len(calls)
         /\ \A m \in 1..Len(calls) : m # n => later[m] = calls[m]
         /\ later[n].stage = st
         /\ \A m \in 1..Len(calls) : /\ later[m].kind = calls[m].kind
                                     /\ later[m].seq = calls[m].seq
                                     /\ later[m].count = calls[m].count
<1> DEFINE o == [calls[n] EXCEPT !.stage = st]
<1>1. calls[n] \in Offer
  OBVIOUS
<1>2. /\ o \in Offer /\ o.stage = st /\ o.kind = calls[n].kind
      /\ o.seq = calls[n].seq /\ o.count = calls[n].count
  BY <1>1 DEF Offer
<1>3. later = [calls EXCEPT ![n] = o]
  OBVIOUS
<1> HIDE DEF o
<1>4. /\ later \in Seq(Offer) /\ Len(later) = Len(calls)
      /\ \A m \in 1..Len(calls) : later[m] = IF m = n THEN o ELSE calls[m]
  <2>1. /\ [calls EXCEPT ![n] = o] \in Seq(Offer)
        /\ Len([calls EXCEPT ![n] = o]) = Len(calls)
        /\ \A m \in 1..Len(calls) : [calls EXCEPT ![n] = o][m] = IF m = n THEN o ELSE calls[m]
    BY ONLY <1>2, calls \in Seq(Offer), n \in 1..Len(calls), ExceptSeq
  <2> QED BY ONLY <1>3, <2>1
<1> QED BY <1>2, <1>4

\* One more offer.
LEMMA OneMoreOffer ==
  ASSUME NEW calls \in Seq(Offer), NEW by \in Readers \cup {"notifier"}, NEW kind \in Kinds,
         NEW count \in Nat, NEW later, later = Append(calls, NewOffer(by, kind, count))
  PROVE  /\ later \in Seq(Offer) /\ Len(later) = Len(calls) + 1
         /\ \A m \in 1..Len(calls) : later[m] = calls[m]
         /\ \A m \in 1..Len(later) : m \notin 1..Len(calls) =>
               m = Len(later) /\ later[m] = NewOffer(by, kind, count)
<1> DEFINE o == NewOffer(by, kind, count)
<1>1. o \in Offer
  BY DEF Offer, NewOffer, Stages
<1>2. later = Append(calls, o)
  OBVIOUS
<1> HIDE DEF o
<1>3. /\ later \in Seq(Offer) /\ Len(later) = Len(calls) + 1
      /\ \A m \in 1..Len(calls) : later[m] = calls[m]
      /\ later[Len(calls) + 1] = o
  BY <1>1, <1>2, AppendProperties
<1>4. \A m \in 1..Len(later) : m \notin 1..Len(calls) => m = Len(calls) + 1
  BY <1>3
<1> QED BY <1>3, <1>4 DEF o

\* A step that leaves what was seen, what was lost and what is on disk.
LEMMA QuietKeeps ==
  ASSUME BufferInv, offers' \in Seq(Offer), Len(offers') \in {Len(offers), Len(offers) + 1},
         \A n \in Offered : /\ offers'[n].kind = offers[n].kind /\ offers'[n].seq = offers[n].seq
                            /\ offers'[n].count = offers[n].count
                            /\ Moves(offers[n], offers'[n])
                            /\ ~Refused(offers[n], offers'[n]),
         \A n \in Offered' \ Offered : /\ offers'[n].stage = "called" /\ offers'[n].seq = 0
                                       /\ offers'[n].count = 0,
         holder' \in 0..Len(offers'), HolderIsUnderWay',
         UNCHANGED <<buffer, delivered, dropped, sequence, disk, diskWarning>>
  PROVE  BufferInv'
<1>1. BufferTypeOK /\ Len(offers) \in Nat /\ Len(offers') \in Nat /\ offers \in Seq(Offer)
  BY OfferTypes DEF BufferInv, BufferTypeOK
<1>2. Offered \subseteq Offered' /\ Len(offers) <= Len(offers') /\ SeenByGui' = SeenByGui
  BY <1>1 DEF Offered, SeenByGui
<1>3. /\ NumbersGrow' /\ CriticalIsSeen' /\ InSequence(SeenByGui)'
      /\ LostEvents' = LostEvents \cup {n \in Offered : Refused(offers[n], offers'[n])}
      /\ \A i \in 1..Len(SeenByGui) : offers'[SeenByGui[i]].stage \in {"placed", "done"}
  BY <1>2, RelabelKeeps
<1>4. LostEvents' = LostEvents
  BY <1>3
<1>5. SumOf(Counts(offers')) = SumOf(Counts(offers)) /\ SumOf(Counts(offers)) \in Nat
  <2>1. \A n \in 1..Len(offers) : offers'[n].count = offers[n].count
    BY DEF Offered
  <2>2. /\ SumOf(Counts(offers)) \in Nat
        /\ SumOf(Counts(offers')) = IF Len(offers') = Len(offers) THEN SumOf(Counts(offers))
                                    ELSE SumOf(Counts(offers)) + offers'[Len(offers')].count
    BY <1>1, <2>1, CountsMove
  <2>3. CASE Len(offers') = Len(offers)
    BY <2>2, <2>3
  <2>4. CASE Len(offers') # Len(offers)
    <3>1. Len(offers') \in Offered' \ Offered
      BY <1>1, <2>4 DEF Offered
    <3>2. offers'[Len(offers')].count = 0
      BY <3>1
    <3> QED BY <2>2, <2>4, <3>2
  <2> QED BY <2>3, <2>4
<1>6. LossIsAccounted'
  BY <1>4, <1>5 DEF BufferInv, LossIsAccounted
<1>7. SeenWasPlaced' /\ InSequence(disk)'
  <2>1. disk \in Seq(Offered) /\ \A i \in 1..Len(disk) : disk[i] \in Offered
    BY <1>1, SeenTypes
  <2>2. \A i \in 1..Len(disk) : offers'[disk[i]].stage = "done"
    BY <2>1 DEF BufferInv, SeenWasPlaced, Moves
  <2>3. InSequence(disk)'
    BY <2>1 DEF BufferInv, OrderIsPreserved, InSequence
  <2> QED BY <1>2, <1>3, <2>2, <2>3 DEF SeenWasPlaced
<1>8. BufferTypeOK'
  <2>1. \A q \in Seq(Offered) : q \in Seq(Offered')
    BY <1>2
  <2> QED BY <1>1, <2>1, SeenTypes DEF BufferTypeOK, Offered
<1> QED BY <1>3, <1>6, <1>7, <1>8 DEF BufferInv, OrderIsPreserved

LEMMA StageTypes ==
  ASSUME BufferInv
  PROVE  /\ offers \in Seq(Offer) /\ Len(offers) \in Nat /\ Offered = 1..Len(offers)
         /\ holder \in 0..Len(offers) /\ HolderIsUnderWay
         /\ \A n \in Offered : offers[n].kind \in Kinds /\ offers[n].count \in Nat
  BY OfferTypes DEF BufferInv, BufferTypeOK, Offered

LEMMA ReaderPublishesKeeps ==
  ASSUME BufferInv, NEW r \in Readers, NEW kind \in {"verbose", "critical"},
         ReaderPublishes(r, kind)
  PROVE  BufferInv'
<1>1. /\ offers \in Seq(Offer) /\ Len(offers) \in Nat /\ Offered = 1..Len(offers)
      /\ holder \in 0..Len(offers) /\ HolderIsUnderWay
  BY StageTypes
<1>2. /\ offers' \in Seq(Offer) /\ Len(offers') = Len(offers) + 1
      /\ \A m \in 1..Len(offers) : offers'[m] = offers[m]
      /\ \A m \in 1..Len(offers') : m \notin 1..Len(offers) =>
            offers'[m] = NewOffer(r, kind, 0)
  <2>1. offers' = Append(offers, NewOffer(r, kind, 0)) /\ kind \in Kinds
    BY DEF ReaderPublishes, Kinds
  <2> QED BY <1>1, <2>1, OneMoreOffer
<1>3. Offered' = 1..Len(offers')
  BY DEF Offered
<1>4. \A n \in Offered' \ Offered : /\ offers'[n].stage = "called" /\ offers'[n].seq = 0
                                    /\ offers'[n].count = 0
  BY <1>1, <1>2, <1>3 DEF NewOffer
<1>5. \A n \in Offered : /\ offers'[n].kind = offers[n].kind /\ offers'[n].seq = offers[n].seq
                         /\ offers'[n].count = offers[n].count
                         /\ Moves(offers[n], offers'[n])
                         /\ ~Refused(offers[n], offers'[n])
  BY <1>1, <1>2 DEF Moves, Refused
<1>6. holder' = holder /\ UNCHANGED <<buffer, delivered, dropped, sequence, disk, diskWarning>>
  BY DEF ReaderPublishes
<1>7. HolderIsUnderWay'
  <2> SUFFICES ASSUME NEW n \in Offered', offers'[n].stage \in {"holding", "waiting", "placed"}
               PROVE  holder' = n
      BY DEF HolderIsUnderWay
  <2>1. n \in Offered
    BY <1>4
  <2> QED BY <1>1, <1>2, <1>6, <2>1 DEF HolderIsUnderWay
<1>8. holder' \in 0..Len(offers')
  BY <1>1, <1>2, <1>6
<1> QED BY <1>2, <1>4, <1>5, <1>6, <1>7, <1>8, QuietKeeps

\* The offer n goes on: it takes the lock, or it waits for room.
LEMMA RestagedKeeps ==
  ASSUME BufferInv, NEW n \in Offered, NEW st \in {"holding", "waiting"},
         offers[n].stage \in {"called", "holding"}, holder \in {0, n}, holder' = n,
         offers' = [offers EXCEPT ![n].stage = st],
         UNCHANGED <<buffer, delivered, dropped, sequence, disk, diskWarning>>
  PROVE  BufferInv'
<1>1. /\ offers \in Seq(Offer) /\ Len(offers) \in Nat /\ Offered = 1..Len(offers)
      /\ HolderIsUnderWay
  BY StageTypes
<1>2. /\ offers' \in Seq(Offer) /\ Len(offers') = Len(offers)
      /\ \A m \in Offered : m # n => offers'[m] = offers[m]
      /\ offers'[n].stage = st
      /\ \A m \in Offered : /\ offers'[m].kind = offers[m].kind /\ offers'[m].seq = offers[m].seq
                            /\ offers'[m].count = offers[m].count
  <2>1. st \in Stages /\ n \in 1..Len(offers)
    BY <1>1 DEF Stages
  <2>2. offers' = [offers EXCEPT ![n].stage = st]
    OBVIOUS
  <2>3. /\ offers' \in Seq(Offer) /\ Len(offers') = Len(offers)
        /\ \A m \in 1..Len(offers) : m # n => offers'[m] = offers[m]
        /\ offers'[n].stage = st
        /\ \A m \in 1..Len(offers) : /\ offers'[m].kind = offers[m].kind
                                     /\ offers'[m].seq = offers[m].seq
                                     /\ offers'[m].count = offers[m].count
    BY ONLY <1>1, <2>1, <2>2, StagedOffer
  <2> QED BY <1>1, <2>3
<1>3. Offered' = Offered
  BY <1>2 DEF Offered
<1>4. \A m \in Offered : Moves(offers[m], offers'[m]) /\ ~Refused(offers[m], offers'[m])
  <2> TAKE m \in Offered
  <2>1. CASE m = n
    BY <1>2, <2>1 DEF Moves, Refused
  <2>2. CASE m # n
    BY <1>2, <2>2 DEF Moves, Refused
  <2> QED BY <2>1, <2>2
<1>5. HolderIsUnderWay'
  <2>1. \A m \in Offered : m # n => offers'[m].stage \notin {"holding", "waiting", "placed"}
    BY <1>1, <1>2 DEF HolderIsUnderWay
  <2> QED BY <1>3, <2>1 DEF HolderIsUnderWay
<1>6. holder' \in 0..Len(offers')
  BY <1>1, <1>2
<1> QED BY <1>2, <1>3, <1>4, <1>5, <1>6, QuietKeeps

\* A verbose event that finds no room is refused and counted.
LEMMA RefusedKeeps ==
  ASSUME BufferInv, NEW n \in Offered, offers[n].stage = "holding", offers[n].kind = "verbose",
         holder = n, holder' = 0, dropped' = dropped + 1,
         offers' = [offers EXCEPT ![n].stage = "lost"],
         UNCHANGED <<buffer, delivered, sequence, disk, diskWarning>>
  PROVE  BufferInv'
<1>1. /\ offers \in Seq(Offer) /\ Len(offers) \in Nat /\ Offered = 1..Len(offers)
      /\ HolderIsUnderWay /\ BufferTypeOK
  BY StageTypes DEF BufferInv
<1>2. /\ offers' \in Seq(Offer) /\ Len(offers') = Len(offers)
      /\ \A m \in Offered : m # n => offers'[m] = offers[m]
      /\ offers'[n].stage = "lost"
      /\ \A m \in Offered : /\ offers'[m].kind = offers[m].kind /\ offers'[m].seq = offers[m].seq
                            /\ offers'[m].count = offers[m].count
  <2>1. "lost" \in Stages /\ n \in 1..Len(offers)
    BY <1>1 DEF Stages
  <2>2. offers' = [offers EXCEPT ![n].stage = "lost"]
    OBVIOUS
  <2>3. /\ offers' \in Seq(Offer) /\ Len(offers') = Len(offers)
        /\ \A m \in 1..Len(offers) : m # n => offers'[m] = offers[m]
        /\ offers'[n].stage = "lost"
        /\ \A m \in 1..Len(offers) : /\ offers'[m].kind = offers[m].kind
                                     /\ offers'[m].seq = offers[m].seq
                                     /\ offers'[m].count = offers[m].count
    BY ONLY <1>1, <2>1, <2>2, StagedOffer
  <2> QED BY <1>1, <2>3
<1>3. Offered' = Offered /\ SeenByGui' = SeenByGui /\ Len(offers) <= Len(offers')
  BY <1>1, <1>2 DEF Offered, SeenByGui
<1>4. \A m \in Offered : /\ Moves(offers[m], offers'[m])
                         /\ Refused(offers[m], offers'[m]) <=> m = n
  <2> TAKE m \in Offered
  <2>1. CASE m = n
    BY <1>2, <2>1 DEF Moves, Refused
  <2>2. CASE m # n
    BY <1>2, <2>2 DEF Moves, Refused
  <2> QED BY <2>1, <2>2
<1>5. /\ NumbersGrow' /\ CriticalIsSeen' /\ InSequence(SeenByGui)'
      /\ LostEvents' = LostEvents \cup {m \in Offered : Refused(offers[m], offers'[m])}
      /\ \A i \in 1..Len(SeenByGui) : offers'[SeenByGui[i]].stage \in {"placed", "done"}
  BY <1>2, <1>3, <1>4, RelabelKeeps
<1>6. HolderIsUnderWay'
  BY <1>1, <1>2, <1>3 DEF HolderIsUnderWay
<1>7. LossIsAccounted'
  <2>1. LostEvents' = LostEvents \cup {n} /\ n \notin LostEvents
    <3>1. n \notin LostEvents
      BY DEF LostEvents
    <3>2. {m \in Offered : Refused(offers[m], offers'[m])} = {n}
      BY <1>4
    <3> QED BY <1>5, <3>1, <3>2
  <2>2. IsFiniteSet(LostEvents) /\ Cardinality(LostEvents) \in Nat
    BY <1>1, LostIsFinite
  <2>3. Cardinality(LostEvents \cup {n}) = Cardinality(LostEvents) + 1
    BY <2>1, <2>2, FS_AddElement
  <2>4. SumOf(Counts(offers')) = SumOf(Counts(offers)) /\ SumOf(Counts(offers)) \in Nat
    <3>1. \A m \in 1..Len(offers) : offers'[m].count = offers[m].count
      BY <1>1, <1>2
    <3> QED BY <1>1, <1>2, <3>1, CountsMove
  <2>5. Cardinality(LostEvents) = dropped + SumOf(Counts(offers)) /\ dropped \in Nat
    BY <1>1 DEF BufferInv, LossIsAccounted, BufferTypeOK
  <2>6. Cardinality(LostEvents') = dropped' + SumOf(Counts(offers'))
    BY ONLY <2>1, <2>2, <2>3, <2>4, <2>5, dropped' = dropped + 1
  <2> QED BY <2>6 DEF LossIsAccounted
<1>8. SeenWasPlaced' /\ InSequence(disk)'
  <2>1. disk \in Seq(Offered) /\ \A i \in 1..Len(disk) : disk[i] \in Offered
    BY <1>1, SeenTypes
  <2>2. \A i \in 1..Len(disk) : offers'[disk[i]].stage = "done"
    BY <1>4, <2>1 DEF BufferInv, SeenWasPlaced, Moves
  <2>3. InSequence(disk)'
    BY <1>2, <2>1 DEF BufferInv, OrderIsPreserved, InSequence
  <2> QED BY <1>3, <1>5, <2>2, <2>3 DEF SeenWasPlaced
<1>9. BufferTypeOK'
  BY <1>1, <1>2 DEF BufferTypeOK
<1> QED BY <1>5, <1>6, <1>7, <1>8, <1>9 DEF BufferInv, OrderIsPreserved

LEMMA PlaceEventKeeps ==
  ASSUME BufferInv, NEW n \in Offered, PlaceEvent(n)
  PROVE  BufferInv'
<1>1. /\ holder = n /\ offers[n].stage = "holding" /\ UNCHANGED <<disk, diskWarning, delivered>>
  BY DEF PlaceEvent
<1>2. CASE ~Full /\ Place(n, buffer) /\ UNCHANGED dropped
  BY <1>1, <1>2, PlaceWithRoom
<1>3. CASE /\ Full
           /\ \E i \in 1..Len(buffer) :
                 Evictable(i) /\ Place(n, SubSeq(buffer, 1, i - 1)
                                             \o SubSeq(buffer, i + 1, Len(buffer)))
           /\ dropped' = DroppedByEviction
  <2>1. PICK i \in 1..Len(buffer) :
           Evictable(i) /\ Place(n, SubSeq(buffer, 1, i - 1) \o SubSeq(buffer, i + 1, Len(buffer)))
    BY <1>3
  <2>2. dropped' = dropped + 1
    BY <1>3 DEF DroppedByEviction
  <2> QED BY <1>1, <2>1, <2>2, PlaceByEviction
<1>4. CASE /\ Full
           /\ ~\E i \in 1..Len(buffer) : Evictable(i)
           /\ IF offers[n].kind = "verbose"
              THEN /\ dropped' = dropped + 1 /\ holder' = 0
                   /\ offers' = [offers EXCEPT ![n].stage = "lost"]
              ELSE /\ offers' = [offers EXCEPT ![n].stage = "waiting"]
                   /\ UNCHANGED <<dropped, holder>>
           /\ UNCHANGED <<buffer, sequence>>
  <2>1. CASE offers[n].kind = "verbose"
    BY <1>1, <1>4, <2>1, RefusedKeeps
  <2>2. CASE offers[n].kind # "verbose"
    BY <1>1, <1>4, <2>2, RestagedKeeps
  <2> QED BY <2>1, <2>2
<1> QED BY <1>2, <1>3, <1>4 DEF PlaceEvent

LEMMA TakePublishLockKeeps ==
  ASSUME BufferInv, NEW n \in Offered, TakePublishLock(n)
  PROVE  BufferInv'
<1>1. /\ holder = 0 /\ offers[n].stage = "called" /\ holder' = n
      /\ offers' = [offers EXCEPT ![n].stage = "holding"]
      /\ UNCHANGED <<buffer, delivered, dropped, sequence, disk, diskWarning>>
  BY DEF TakePublishLock
<1> QED BY <1>1, RestagedKeeps

\* The calls after the write: the writer is done, and a failed write may be reported.
LEMMA PersistedOffers ==
  ASSUME BufferInv, NEW n \in Offered, NEW ok \in BOOLEAN, PersistEvent(n, ok)
  PROVE  /\ offers' \in Seq(Offer) /\ Len(offers') \in {Len(offers), Len(offers) + 1}
         /\ \A m \in Offered : m # n => offers'[m] = offers[m]
         /\ offers[n].stage = "placed" /\ offers'[n].stage = "done"
         /\ \A m \in Offered : /\ offers'[m].kind = offers[m].kind
                               /\ offers'[m].seq = offers[m].seq
                               /\ offers'[m].count = offers[m].count
         /\ \A m \in Offered' : m \notin Offered =>
               offers'[m].stage = "called" /\ offers'[m].seq = 0 /\ offers'[m].count = 0
<1> DEFINE done == [offers EXCEPT ![n].stage = "done"]
<1>1. offers \in Seq(Offer) /\ Len(offers) \in Nat /\ Offered = 1..Len(offers)
  BY StageTypes
<1>2. /\ done \in Seq(Offer) /\ Len(done) = Len(offers)
      /\ \A m \in 1..Len(offers) : m # n => done[m] = offers[m]
      /\ done[n].stage = "done"
      /\ \A m \in 1..Len(offers) : /\ done[m].kind = offers[m].kind
                                   /\ done[m].seq = offers[m].seq
                                   /\ done[m].count = offers[m].count
  <2>1. "done" \in Stages /\ n \in 1..Len(offers)
    BY <1>1 DEF Stages
  <2>2. done = [offers EXCEPT ![n].stage = "done"]
    OBVIOUS
  <2> HIDE DEF done
  <2> QED BY ONLY <1>1, <2>1, <2>2, StagedOffer
<1>3. /\ offers[n].stage = "placed"
      /\ \/ offers' = done
         \/ offers' = Append(done, NewOffer("notifier", "disk_warning", 0))
  BY DEF PersistEvent
<1> HIDE DEF done
<1>4. CASE offers' = done
  BY <1>1, <1>2, <1>3, <1>4 DEF Offered
<1>5. CASE offers' = Append(done, NewOffer("notifier", "disk_warning", 0))
  <2>1. /\ offers' \in Seq(Offer) /\ Len(offers') = Len(done) + 1
        /\ \A m \in 1..Len(done) : offers'[m] = done[m]
        /\ \A m \in 1..Len(offers') : m \notin 1..Len(done) =>
              m = Len(offers') /\ offers'[m] = NewOffer("notifier", "disk_warning", 0)
    <3>1. /\ "disk_warning" \in Kinds /\ "notifier" \in Readers \cup {"notifier"}
          /\ 0 \in Nat /\ done \in Seq(Offer) /\ Len(done) \in Nat
          /\ offers' = Append(done, NewOffer("notifier", "disk_warning", 0))
      BY <1>1, <1>2, <1>5 DEF Kinds
    <3>2. offers' \in Seq(Offer)
      BY ONLY <3>1, OneMoreOffer
    <3>3. Len(offers') = Len(done) + 1
      BY ONLY <3>1, OneMoreOffer
    <3>4. \A m \in 1..Len(done) : offers'[m] = done[m]
      BY ONLY <3>1, OneMoreOffer
    <3>5. \A m \in 1..Len(offers') : m \notin 1..Len(done) =>
              m = Len(offers') /\ offers'[m] = NewOffer("notifier", "disk_warning", 0)
      BY ONLY <3>1, OneMoreOffer
    <3> QED BY <3>2, <3>3, <3>4, <3>5
  <2>2. Offered' = 1..Len(offers') /\ Len(offers') = Len(offers) + 1
    BY <1>2, <2>1 DEF Offered
  <2>3. \A m \in Offered : offers'[m] = done[m]
    BY <1>1, <1>2, <2>1
  <2>4. \A m \in Offered' : m \notin Offered =>
           offers'[m].stage = "called" /\ offers'[m].seq = 0 /\ offers'[m].count = 0
    BY <1>1, <1>2, <2>1, <2>2 DEF NewOffer
  <2> QED BY <1>1, <1>2, <1>3, <2>1, <2>2, <2>3, <2>4
<1> QED BY <1>3, <1>4, <1>5

LEMMA PersistEventKeeps ==
  ASSUME BufferInv, NEW n \in Offered, NEW ok \in BOOLEAN, PersistEvent(n, ok)
  PROVE  BufferInv'
<1>1. /\ offers' \in Seq(Offer) /\ Len(offers') \in {Len(offers), Len(offers) + 1}
      /\ \A m \in Offered : m # n => offers'[m] = offers[m]
      /\ offers[n].stage = "placed" /\ offers'[n].stage = "done"
      /\ \A m \in Offered : /\ offers'[m].kind = offers[m].kind
                            /\ offers'[m].seq = offers[m].seq
                            /\ offers'[m].count = offers[m].count
      /\ \A m \in Offered' : m \notin Offered =>
            offers'[m].stage = "called" /\ offers'[m].seq = 0 /\ offers'[m].count = 0
  BY PersistedOffers
<1>2. /\ offers \in Seq(Offer) /\ Len(offers) \in Nat /\ Offered = 1..Len(offers)
      /\ HolderIsUnderWay /\ BufferTypeOK
  BY StageTypes DEF BufferInv
<1>3. /\ holder' = 0 /\ disk' = (IF ok THEN Append(disk, n) ELSE disk)
      /\ diskWarning' \in BOOLEAN /\ UNCHANGED <<buffer, dropped, sequence, delivered>>
  BY <1>2 DEF PersistEvent, BufferTypeOK
<1>4. /\ Len(offers') \in Nat /\ Len(offers) <= Len(offers') /\ SeenByGui' = SeenByGui
      /\ Offered' = 1..Len(offers') /\ Offered \subseteq Offered'
  BY <1>1, <1>2, <1>3 DEF Offered, SeenByGui
<1>5. \A m \in Offered : Moves(offers[m], offers'[m]) /\ ~Refused(offers[m], offers'[m])
  <2> TAKE m \in Offered
  <2>1. CASE m = n
    BY <1>1, <2>1 DEF Moves, Refused
  <2>2. CASE m # n
    BY <1>1, <2>2 DEF Moves, Refused
  <2> QED BY <2>1, <2>2
<1>6. /\ NumbersGrow' /\ CriticalIsSeen' /\ InSequence(SeenByGui)'
      /\ LostEvents' = LostEvents \cup {m \in Offered : Refused(offers[m], offers'[m])}
      /\ \A i \in 1..Len(SeenByGui) : offers'[SeenByGui[i]].stage \in {"placed", "done"}
  <2>1. \A m \in Offered' \ Offered : offers'[m].stage = "called" /\ offers'[m].seq = 0
    BY <1>1
  <2> QED BY <1>1, <1>3, <1>4, <1>5, <2>1, RelabelKeeps
<1>7. LossIsAccounted'
  <2>1. LostEvents' = LostEvents
    BY <1>5, <1>6
  <2>2. SumOf(Counts(offers')) = SumOf(Counts(offers)) /\ SumOf(Counts(offers)) \in Nat
    <3>1. \A m \in 1..Len(offers) : offers'[m].count = offers[m].count
      BY <1>1, <1>2
    <3>2. /\ SumOf(Counts(offers)) \in Nat
          /\ SumOf(Counts(offers')) = IF Len(offers') = Len(offers) THEN SumOf(Counts(offers))
                                      ELSE SumOf(Counts(offers)) + offers'[Len(offers')].count
      BY <1>1, <1>2, <3>1, CountsMove
    <3>3. Len(offers') # Len(offers) => offers'[Len(offers')].count = 0
      BY <1>1, <1>2, <1>4
    <3> QED BY <3>2, <3>3
  <2> QED BY <1>3, <2>1, <2>2 DEF BufferInv, LossIsAccounted
<1>8. HolderIsUnderWay'
  <2> SUFFICES ASSUME NEW m \in Offered', offers'[m].stage \in {"holding", "waiting", "placed"}
               PROVE  FALSE
      BY DEF HolderIsUnderWay
  <2>1. m \in Offered /\ m # n
    BY <1>1
  <2> QED BY <1>1, <1>2, <2>1 DEF HolderIsUnderWay
<1>9. /\ disk \in Seq(Offered)
      /\ \A i \in 1..Len(disk) :
            disk[i] \in Offered /\ disk[i] # n /\ offers[disk[i]].stage = "done"
  <2>1. disk \in Seq(Offered)
    BY <1>2, SeenTypes
  <2> QED BY <1>1, <2>1 DEF BufferInv, SeenWasPlaced
<1>10. disk' \in Seq(Offered) /\ (\A i \in 1..Len(disk') : offers'[disk'[i]].stage = "done")
       /\ InSequence(disk)'
  <2>1. CASE disk' = disk
    <3>1. \A i \in 1..Len(disk) : offers'[disk[i]] = offers[disk[i]]
      BY <1>1, <1>9
    <3> QED BY <1>9, <2>1, <3>1 DEF BufferInv, OrderIsPreserved, InSequence
  <2>2. CASE disk' = Append(disk, n)
    <3>1. /\ disk' \in Seq(Offered) /\ Len(disk') = Len(disk) + 1 /\ Len(disk) \in Nat
          /\ \A i \in 1..Len(disk) : disk'[i] = disk[i]
          /\ disk'[Len(disk) + 1] = n
      BY <1>9, <2>2, AppendProperties
    <3>2. \A i \in 1..Len(disk') : i \in 1..Len(disk) \/ i = Len(disk) + 1
      BY <3>1
    <3>3. \A i \in 1..Len(disk') : offers'[disk'[i]].stage = "done"
      BY <1>1, <1>9, <3>1, <3>2
    <3>4. \A i \in 1..Len(disk) : offers'[disk'[i]] = offers[disk[i]]
      BY <1>1, <1>9, <3>1
    <3>5. \A i \in 1..Len(disk) : offers[disk[i]].seq < offers'[n].seq
      BY <1>1, <1>9 DEF BufferInv, NumbersGrow
    <3>6. InSequence(disk)'
      <4> SUFFICES ASSUME NEW i \in 1..Len(disk'), NEW j \in 1..Len(disk'), i < j
                   PROVE  offers'[disk'[i]].seq < offers'[disk'[j]].seq
          BY DEF InSequence
      <4>1. i \in 1..Len(disk)
        BY <3>1
      <4>2. CASE j = Len(disk) + 1
        BY <3>1, <3>4, <3>5, <4>1, <4>2
      <4>3. CASE j # Len(disk) + 1
        <5>1. j \in 1..Len(disk)
          BY <3>2, <4>3
        <5> QED BY <3>4, <4>1, <5>1 DEF BufferInv, OrderIsPreserved, InSequence
      <4> QED BY <4>2, <4>3
    <3> QED BY <3>1, <3>3, <3>6
  <2> QED BY <1>3, <2>1, <2>2
<1>11. SeenWasPlaced' /\ OrderIsPreserved'
  BY <1>4, <1>6, <1>10 DEF SeenWasPlaced, OrderIsPreserved
<1>12. BufferTypeOK'
  <2>1. \A q \in Seq(Offered) : q \in Seq(Offered')
    <3>1. Offered \subseteq Offered'
      BY <1>4
    <3> QED BY ONLY <3>1
  <2>2. buffer \in Seq(Offered) /\ delivered \in Seq(Offered)
    BY <1>2, SeenTypes
  <2>3. disk' \in Seq(Offered') /\ buffer' \in Seq(Offered') /\ delivered' \in Seq(Offered')
    BY <1>3, <1>10, <2>1, <2>2
  <2> QED BY <1>1, <1>2, <1>3, <1>4, <2>3 DEF BufferTypeOK
<1> QED BY <1>6, <1>7, <1>8, <1>11, <1>12 DEF BufferInv

LEMMA WokenOffers ==
  ASSUME BufferInv
  PROVE  /\ Woken \in Seq(Offer) /\ Len(Woken) = Len(offers)
         /\ \A m \in Offered : /\ Woken[m].kind = offers[m].kind
                               /\ Woken[m].seq = offers[m].seq
                               /\ Woken[m].count = offers[m].count
                               /\ \/ Woken[m].stage = offers[m].stage
                                  \/ /\ offers[m].stage = "waiting"
                                     /\ Woken[m].stage = "holding"
<1>1. /\ offers \in Seq(Offer) /\ Len(offers) \in Nat /\ Offered = 1..Len(offers)
      /\ DOMAIN offers = 1..Len(offers)
  BY StageTypes
<1> DEFINE o(m) == IF offers[m].stage = "waiting"
                   THEN [offers[m] EXCEPT !.stage = "holding"] ELSE offers[m]
<1>2. Woken = [m \in 1..Len(offers) |-> o(m)]
  BY <1>1 DEF Woken, WakesPublisher
<1>3. \A m \in 1..Len(offers) :
         /\ o(m) \in Offer /\ o(m).kind = offers[m].kind
         /\ o(m).seq = offers[m].seq /\ o(m).count = offers[m].count
         /\ \/ o(m).stage = offers[m].stage
            \/ offers[m].stage = "waiting" /\ o(m).stage = "holding"
  <2> TAKE m \in 1..Len(offers)
  <2>1. offers[m] \in Offer
    BY <1>1
  <2>2. CASE offers[m].stage = "waiting"
    BY <2>1, <2>2 DEF Offer, Stages
  <2>3. CASE offers[m].stage # "waiting"
    BY <2>1, <2>3
  <2> QED BY <2>2, <2>3
<1> HIDE DEF o
<1>4. Woken \in Seq(Offer) /\ Len(Woken) = Len(offers)
  <2>1. [m \in 1..Len(offers) |-> o(m)] \in Seq(Offer)
    BY <1>1, <1>3, IsASeq
  <2> QED BY <1>1, <1>2, <2>1
<1>5. \A m \in Offered : Woken[m] = o(m)
  BY <1>1, <1>2
<1> QED BY <1>1, <1>3, <1>4, <1>5

\* The calls after a poll: the publisher goes on, and the losses may be reported.
LEMMA PolledOffers ==
  ASSUME BufferInv, NEW limit \in 1..Capacity, PollEvents(limit)
  PROVE  /\ offers' \in Seq(Offer)
         /\ \A m \in Offered : /\ offers'[m].kind = offers[m].kind
                               /\ offers'[m].seq = offers[m].seq
                               /\ offers'[m].count = offers[m].count
                               /\ \/ offers'[m].stage = offers[m].stage
                                  \/ /\ offers[m].stage = "waiting"
                                     /\ offers'[m].stage = "holding"
         /\ \A m \in Offered' \ Offered : offers'[m].stage = "called" /\ offers'[m].seq = 0
         /\ \/ Len(offers') = Len(offers) /\ dropped' = dropped
            \/ /\ Len(offers') = Len(offers) + 1 /\ dropped' = 0
               /\ offers'[Len(offers')].count = dropped
<1>1. /\ offers \in Seq(Offer) /\ Len(offers) \in Nat /\ Offered = 1..Len(offers)
      /\ dropped \in Nat
  BY StageTypes DEF BufferInv, BufferTypeOK
<1>2. /\ Woken \in Seq(Offer) /\ Len(Woken) = Len(offers)
      /\ \A m \in Offered : /\ Woken[m].kind = offers[m].kind
                            /\ Woken[m].seq = offers[m].seq
                            /\ Woken[m].count = offers[m].count
                            /\ \/ Woken[m].stage = offers[m].stage
                               \/ /\ offers[m].stage = "waiting"
                                  /\ Woken[m].stage = "holding"
  BY WokenOffers
<1>3. \/ offers' = Woken /\ dropped' = dropped
      \/ offers' = Append(Woken, NewOffer("notifier", "drop_warning", dropped)) /\ dropped' = 0
  BY DEF PollEvents
<1>4. CASE offers' = Woken /\ dropped' = dropped
  BY <1>1, <1>2, <1>4 DEF Offered
<1>5. CASE offers' = Append(Woken, NewOffer("notifier", "drop_warning", dropped)) /\ dropped' = 0
  <2>1. /\ offers' \in Seq(Offer) /\ Len(offers') = Len(Woken) + 1
        /\ \A m \in 1..Len(Woken) : offers'[m] = Woken[m]
        /\ \A m \in 1..Len(offers') : m \notin 1..Len(Woken) =>
              m = Len(offers') /\ offers'[m] = NewOffer("notifier", "drop_warning", dropped)
    <3>1. /\ "drop_warning" \in Kinds /\ "notifier" \in Readers \cup {"notifier"}
          /\ dropped \in Nat /\ Woken \in Seq(Offer)
          /\ offers' = Append(Woken, NewOffer("notifier", "drop_warning", dropped))
          /\ Len(Woken) \in Nat
      BY <1>1, <1>2, <1>5 DEF Kinds
    <3>2. offers' \in Seq(Offer)
      BY ONLY <3>1, OneMoreOffer
    <3>3. Len(offers') = Len(Woken) + 1
      BY ONLY <3>1, OneMoreOffer
    <3>4. \A m \in 1..Len(Woken) : offers'[m] = Woken[m]
      BY ONLY <3>1, OneMoreOffer
    <3>5. \A m \in 1..Len(offers') : m \notin 1..Len(Woken) =>
              m = Len(offers') /\ offers'[m] = NewOffer("notifier", "drop_warning", dropped)
      BY ONLY <3>1, OneMoreOffer
    <3> QED BY <3>2, <3>3, <3>4, <3>5
  <2>2. Offered' = 1..Len(offers') /\ Len(offers') = Len(offers) + 1
    BY <1>2, <2>1 DEF Offered
  <2>3. \A m \in Offered : offers'[m] = Woken[m]
    BY <1>1, <1>2, <2>1
  <2>4. \A m \in Offered' \ Offered : offers'[m].stage = "called" /\ offers'[m].seq = 0
    BY <1>1, <1>2, <2>1, <2>2 DEF NewOffer
  <2>5. offers'[Len(offers')].count = dropped
    <3>1. Len(offers') \in 1..Len(offers') /\ Len(offers') \notin 1..Len(Woken)
      BY <1>1, <1>2, <2>2
    <3> QED BY <2>1, <3>1 DEF NewOffer
  <2>6. \A m \in Offered : /\ offers'[m].kind = offers[m].kind
                            /\ offers'[m].seq = offers[m].seq
                            /\ offers'[m].count = offers[m].count
                            /\ \/ offers'[m].stage = offers[m].stage
                               \/ /\ offers[m].stage = "waiting"
                                  /\ offers'[m].stage = "holding"
    BY <1>2, <2>3
  <2> QED BY <1>5, <2>1, <2>2, <2>4, <2>5, <2>6
<1> QED BY <1>3, <1>4, <1>5

\* A poll moves the front of the buffer to the end of what was delivered.
LEMMA PolledEvents ==
  ASSUME BufferInv, NEW limit \in 1..Capacity, PollEvents(limit)
  PROVE  /\ SeenByGui' = SeenByGui /\ delivered' \in Seq(Offered)
         /\ buffer' \in Seq(Offered) /\ Len(buffer') <= Capacity
<1> DEFINE taken == Min({limit, Len(buffer)})
           front == SubSeq(buffer, 1, taken)
           back  == SubSeq(buffer, taken + 1, Len(buffer))
<1>1. /\ buffer \in Seq(Offered) /\ delivered \in Seq(Offered) /\ Len(buffer) \in Nat
      /\ Len(buffer) <= Capacity /\ Capacity \in Nat
  BY SeenTypes, BufferAssumption DEF BufferInv, BufferTypeOK
<1>2. taken \in 0..Len(buffer)
  <2>1. \E x \in {limit, Len(buffer)} : \A y \in {limit, Len(buffer)} : x <= y
    BY <1>1
  <2>2. taken \in {limit, Len(buffer)} /\ \A y \in {limit, Len(buffer)} : taken <= y
    BY <2>1 DEF Min
  <2> HIDE DEF taken
  <2> QED BY <1>1, <2>2
<1>3. delivered' = delivered \o front /\ buffer' = back
  BY DEF PollEvents
<1> HIDE DEF taken
<1>4. /\ front \in Seq(Offered)
      /\ back \in Seq(Offered) /\ Len(back) \in Nat /\ Len(back) <= Len(buffer)
  <2>1. \A i \in 1..taken : buffer[i] \in Offered
    BY <1>1, <1>2
  <2>2. \A i \in (taken + 1)..Len(buffer) : buffer[i] \in Offered
    BY <1>1, <1>2
  <2>3. front \in Seq(Offered)
    BY <1>2, <2>1, SubSeqProperties
  <2>4. /\ back \in Seq(Offered)
        /\ Len(back) = IF taken + 1 <= Len(buffer) THEN Len(buffer) - (taken + 1) + 1 ELSE 0
    BY <1>1, <1>2, <2>2, SubSeqProperties
  <2> HIDE DEF back
  <2> QED BY <1>1, <1>2, <2>3, <2>4
<1>5. front \o back = buffer
  <2>1. 1 \in 1..(Len(buffer) + 1) /\ taken \in (1 - 1)..Len(buffer)
        /\ Len(buffer) \in taken..Len(buffer)
    BY <1>1, <1>2
  <2>2. front \o back = SubSeq(buffer, 1, Len(buffer))
    BY <1>1, <2>1, ConcatAdjacentSubSeq
  <2> QED BY <1>1, <2>2, SubSeqFull
<1> HIDE DEF front, back
<1>6. SeenByGui' = SeenByGui
  <2>1. SeenByGui' = (delivered \o front) \o back
    BY <1>3 DEF SeenByGui
  <2>2. (delivered \o front) \o back = delivered \o (front \o back)
    <3>1. delivered \in Seq(Offered) /\ front \in Seq(Offered) /\ back \in Seq(Offered)
      BY <1>1, <1>4
    <3> QED BY ONLY <3>1, ConcatAssociative
  <2> QED BY <1>5, <2>1, <2>2 DEF SeenByGui
<1>7. delivered \o front \in Seq(Offered)
  BY ONLY <1>1, <1>4, ConcatProperties
<1> QED BY <1>1, <1>3, <1>4, <1>6, <1>7

LEMMA PollEventsKeeps ==
  ASSUME BufferInv, NEW limit \in 1..Capacity, PollEvents(limit)
  PROVE  BufferInv'
<1>1. /\ offers' \in Seq(Offer)
      /\ \A m \in Offered : /\ offers'[m].kind = offers[m].kind
                            /\ offers'[m].seq = offers[m].seq
                            /\ offers'[m].count = offers[m].count
                            /\ \/ offers'[m].stage = offers[m].stage
                               \/ offers[m].stage = "waiting" /\ offers'[m].stage = "holding"
      /\ \A m \in Offered' \ Offered : offers'[m].stage = "called" /\ offers'[m].seq = 0
      /\ \/ Len(offers') = Len(offers) /\ dropped' = dropped
         \/ /\ Len(offers') = Len(offers) + 1 /\ dropped' = 0
            /\ offers'[Len(offers')].count = dropped
  BY PolledOffers
<1>2. /\ SeenByGui' = SeenByGui /\ delivered' \in Seq(Offered)
      /\ buffer' \in Seq(Offered) /\ Len(buffer') <= Capacity
  BY PolledEvents
<1>3. UNCHANGED <<holder, sequence, disk, diskWarning>>
  BY DEF PollEvents
<1>4. /\ offers \in Seq(Offer) /\ Len(offers) \in Nat /\ Offered = 1..Len(offers)
      /\ holder \in 0..Len(offers) /\ HolderIsUnderWay /\ BufferTypeOK /\ dropped \in Nat
  BY StageTypes DEF BufferInv, BufferTypeOK
<1>5. /\ Len(offers') \in {Len(offers), Len(offers) + 1}
      /\ Len(offers') \in Nat /\ Len(offers) <= Len(offers') /\ dropped' \in Nat
      /\ Offered' = 1..Len(offers') /\ Offered \subseteq Offered'
  BY <1>1, <1>4 DEF Offered
<1>6. \A m \in Offered : Moves(offers[m], offers'[m]) /\ ~Refused(offers[m], offers'[m])
  BY <1>1 DEF Moves, Refused
<1>7. /\ NumbersGrow' /\ CriticalIsSeen' /\ InSequence(SeenByGui)'
      /\ LostEvents' = LostEvents \cup {m \in Offered : Refused(offers[m], offers'[m])}
      /\ \A i \in 1..Len(SeenByGui) : offers'[SeenByGui[i]].stage \in {"placed", "done"}
  BY <1>1, <1>2, <1>3, <1>5, <1>6, RelabelKeeps
<1>8. LossIsAccounted'
  <2>1. LostEvents' = LostEvents
    BY <1>6, <1>7
  <2>2. \A m \in 1..Len(offers) : offers'[m].count = offers[m].count
    BY <1>1, <1>4
  <2>3. /\ SumOf(Counts(offers)) \in Nat
        /\ SumOf(Counts(offers')) = IF Len(offers') = Len(offers) THEN SumOf(Counts(offers))
                                    ELSE SumOf(Counts(offers)) + offers'[Len(offers')].count
    BY <1>1, <1>4, <1>5, <2>2, CountsMove
  <2>4. dropped' + SumOf(Counts(offers')) = dropped + SumOf(Counts(offers))
    <3>1. CASE Len(offers') = Len(offers) /\ dropped' = dropped
      BY <2>3, <3>1
    <3>2. CASE /\ Len(offers') = Len(offers) + 1 /\ dropped' = 0
               /\ offers'[Len(offers')].count = dropped
      <4>1. SumOf(Counts(offers')) = SumOf(Counts(offers)) + dropped
        BY <1>4, <2>3, <3>2
      <4> QED BY <1>4, <2>3, <3>2, <4>1
    <3> QED BY <1>1, <3>1, <3>2
  <2> QED BY <2>1, <2>4 DEF BufferInv, LossIsAccounted
<1>9. HolderIsUnderWay'
  <2> SUFFICES ASSUME NEW m \in Offered', offers'[m].stage \in {"holding", "waiting", "placed"}
               PROVE  holder' = m
      BY DEF HolderIsUnderWay
  <2>1. m \in Offered
    BY <1>1
  <2>2. offers[m].stage \in {"holding", "waiting", "placed"}
    BY <1>1, <2>1
  <2> QED BY <1>3, <1>4, <2>1, <2>2 DEF HolderIsUnderWay
<1>10. SeenWasPlaced' /\ InSequence(disk)'
  <2>1. disk \in Seq(Offered) /\ \A i \in 1..Len(disk) : disk[i] \in Offered
    BY <1>4, SeenTypes
  <2>2. \A i \in 1..Len(disk) : offers'[disk[i]].stage = "done"
    BY <1>1, <2>1 DEF BufferInv, SeenWasPlaced
  <2>3. InSequence(disk)'
    BY <1>1, <1>3, <2>1 DEF BufferInv, OrderIsPreserved, InSequence
  <2> QED BY <1>2, <1>3, <1>7, <2>2, <2>3 DEF SeenWasPlaced
<1>11. BufferTypeOK'
  <2>1. \A q \in Seq(Offered) : q \in Seq(Offered')
    <3>1. Offered \subseteq Offered'
      BY <1>5
    <3> QED BY ONLY <3>1
  <2>2. disk \in Seq(Offered)
    BY <1>4, SeenTypes
  <2>3. /\ disk' \in Seq(Offered') /\ buffer' \in Seq(Offered') /\ delivered' \in Seq(Offered')
        /\ holder' \in 0..Len(offers')
    BY <1>2, <1>3, <1>4, <1>5, <2>1, <2>2
  <2> QED BY <1>1, <1>2, <1>3, <1>4, <1>5, <2>3 DEF BufferTypeOK
<1> QED BY <1>7, <1>8, <1>9, <1>10, <1>11 DEF BufferInv, OrderIsPreserved

LEMMA BufferInitHolds ==
  ASSUME BufferInit
  PROVE  BufferInv
<1>1. /\ offers = <<>> /\ holder = 0 /\ buffer = <<>> /\ dropped = 0 /\ sequence = 0
      /\ disk = <<>> /\ diskWarning = FALSE /\ delivered = <<>>
  BY DEF BufferInit
<1>2. Len(offers) = 0 /\ Offered = {} /\ offers \in Seq(Offer)
  BY <1>1 DEF Offered
<1>3. BufferTypeOK
  <2>1. Capacity \in Nat /\ 0 \in 0..Len(offers) /\ 0 <= Capacity
    BY <1>2, BufferAssumption
  <2>2. \A S : <<>> \in Seq(S)
    OBVIOUS
  <2>3. Len(buffer) = 0
    BY <1>1
  <2> QED BY <1>1, <1>2, <2>1, <2>2, <2>3 DEF BufferTypeOK
<1>4. SeenByGui \in Seq(Offered) /\ Len(SeenByGui) = 0
  <2>1. Len(SeenByGui) = Len(delivered) + Len(buffer) /\ SeenByGui \in Seq(Offered)
    BY <1>3, SeenTypes
  <2> QED BY <1>1, <2>1
<1>5. HolderIsUnderWay /\ NumbersGrow /\ SeenWasPlaced /\ CriticalIsSeen
  BY <1>1, <1>2, <1>4 DEF HolderIsUnderWay, NumbersGrow, SeenWasPlaced, CriticalIsSeen
<1>6. OrderIsPreserved
  BY <1>1, <1>4 DEF OrderIsPreserved, InSequence
<1>7. LossIsAccounted
  <2>1. LostEvents = {}
    BY <1>2 DEF LostEvents
  <2>2. Cardinality(LostEvents) = 0
    BY <2>1, FS_EmptySet
  <2>3. SumOf(Counts(offers)) = 0
    <3>1. Counts(offers) \in Seq(Nat) /\ Len(Counts(offers)) = 0
      BY <1>2, OfferTypes
    <3>2. PICK g : Sums(Counts(offers), Len(Counts(offers)), g)
                   /\ SumOf(Counts(offers)) = g[Len(Counts(offers))]
      BY <3>1, SumIsLast
    <3> QED BY <3>1, <3>2 DEF Sums
  <2> QED BY <1>1, <2>2, <2>3 DEF LossIsAccounted
<1> QED BY <1>3, <1>5, <1>6, <1>7 DEF BufferInv

LEMMA BufferStepKeeps ==
  ASSUME BufferInv, [BufferNext]_bufferVars
  PROVE  BufferInv'
<1>1. ASSUME NEW r \in Readers, NEW kind \in {"verbose", "critical"}, ReaderPublishes(r, kind)
      PROVE  BufferInv'
  BY <1>1, ReaderPublishesKeeps
<1>2. ASSUME NEW n \in Offered, TakePublishLock(n) PROVE BufferInv'
  BY <1>2, TakePublishLockKeeps
<1>3. ASSUME NEW n \in Offered, PlaceEvent(n) PROVE BufferInv'
  BY <1>3, PlaceEventKeeps
<1>4. ASSUME NEW n \in Offered, NEW ok \in BOOLEAN, PersistEvent(n, ok) PROVE BufferInv'
  BY <1>4, PersistEventKeeps
<1>5. ASSUME NEW limit \in 1..Capacity, PollEvents(limit) PROVE BufferInv'
  BY <1>5, PollEventsKeeps
<1>6. ASSUME UNCHANGED bufferVars PROVE BufferInv'
  BY <1>6 DEF bufferVars, BufferInv, BufferTypeOK, HolderIsUnderWay, NumbersGrow, SeenWasPlaced,
              OrderIsPreserved, InSequence, CriticalIsSeen, LossIsAccounted, LostEvents, Got,
              SeenByGui, Offered, Counts
<1> QED BY <1>1, <1>2, <1>3, <1>4, <1>5, <1>6 DEF BufferNext, Publisher, Gui, Offered

\* What the proofs of the buffer rest on holds always: the lock has one holder, numbers grow,
\* what was seen was placed, and no critical event is passed over.
THEOREM BufferInvariant == BufferSpec => []BufferInv
  BY BufferInitHolds, BufferStepKeeps, PTL DEF BufferSpec

\* The buffer never grows over its capacity, whatever the polls and the publishers do.
THEOREM BufferTypeCorrect == BufferSpec => []BufferTypeOK
<1>1. BufferInv => BufferTypeOK
  BY DEF BufferInv
<1> QED BY <1>1, BufferInvariant, PTL

\* _publish numbers an event and places it under one lock and writes it to disk under another
\* that it still holds: the GUI and the log file never see two events in the wrong order.
THEOREM OrderIsPreservedHolds == BufferSpec => []OrderIsPreserved
<1>1. BufferInv => OrderIsPreserved
  BY DEF BufferInv
<1> QED BY <1>1, BufferInvariant, PTL

LEMMA CriticalOnce ==
  ASSUME BufferInv
  PROVE  CriticalIsRetained
<1> SUFFICES ASSUME NEW n \in Offered, offers[n].kind # "verbose"
             PROVE  /\ offers[n].stage # "lost"
                    /\ offers[n].stage \in {"placed", "done"} =>
                          Cardinality({i \in 1..Len(SeenByGui) : SeenByGui[i] = n}) = 1
    BY DEF CriticalIsRetained, Offered
<1>1. offers[n].stage # "lost" /\ (offers[n].stage \in {"placed", "done"} => Got(n))
  BY DEF BufferInv, CriticalIsSeen
<1>2. ASSUME Got(n)
      PROVE  Cardinality({i \in 1..Len(SeenByGui) : SeenByGui[i] = n}) = 1
  <2>1. PICK i \in 1..Len(SeenByGui) : SeenByGui[i] = n
    BY <1>2 DEF Got
  <2>2. \A j \in 1..Len(SeenByGui) : SeenByGui[j] = n => j = i
    BY <2>1, NothingTwice
  <2>3. {j \in 1..Len(SeenByGui) : SeenByGui[j] = n} = {i}
    BY <2>1, <2>2
  <2> QED BY <2>3, FS_Singleton
<1> QED BY <1>1, <1>2

\* A full buffer costs verbose events only: whatever the capacity and however many events the
\* readers offer, each critical event that was placed is in the buffer or was delivered, once,
\* and the GUI is told of each verbose event that it never got, in the counter or in a warning.
THEOREM OverflowIsAccountedHolds == BufferSpec => []OverflowIsAccounted
<1>1. BufferInv => OverflowIsAccounted
  BY CriticalOnce DEF BufferInv, OverflowIsAccounted
<1> QED BY <1>1, BufferInvariant, PTL
=============================================================================
