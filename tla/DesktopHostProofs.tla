--------------------------- MODULE DesktopHostProofs ---------------------------
(***************************************************************************)
(* Proofs about the desktop host: about its process tree and the inference *)
(* engine in it, for any number of requests and llama-servers, and about   *)
(* the import of a standalone installation that every start of the host    *)
(* runs, for any entries, edits, damages and interruptions.                *)
(*                                                                         *)
(* The engine's lock is held throughout a start, so the llama-server that  *)
(* has not answered yet is the one its holder waits for.  A thread that    *)
(* ends HCS follows what it found below the server: all of it is listed,   *)
(* then dead before the root is, and the dead do not come back.            *)
(*                                                                         *)
(* The import: the receipt is written when nothing importable is missing,  *)
(* no credential is copied, and no run changes what HCS has.  The argument *)
(* follows a run through its stages: what lies behind the stage is         *)
(* settled, unless the run knows that it is incomplete.                    *)
(***************************************************************************)
EXTENDS LegacyMigration, DesktopHost, TLAPS

-----------------------------------------------------------------------------
(* The inference engine *)

\* A start holds the lock from the moment it takes it until it is over, and nobody else is inside.
Inside == {"check", "spawn", "wait"}
LockIsHeld == \A t \in Threads : step[t] \in Inside => lock = t

\* A llama-server that has not answered yet is the one a start is waiting for, unless the start
\* could not write the state file.
OnlyTheStartWaits ==
    process \in LiveServers => \/ process \in wasReady \cup unrecorded
                               \/ \E t \in Threads : step[t] = "wait"

EngineInv == EngineTypeOK /\ LockIsHeld /\ OnlyTheStartWaits /\ FailedStartLeavesNothing

LEMMA FreeIsNoThread == "free" \notin Threads
  BY EngineAssumption DEF Threads

\* Where a thread goes next.
LEMMA StepTypes ==
  ASSUME EngineTypeOK, NEW t \in Threads, NEW s \in Steps, Goto(t, s)
  PROVE  /\ step' \in [Threads -> Steps] /\ step'[t] = s
         /\ \A u \in Threads \ {t} : step'[u] = step[u]
  BY DEF EngineTypeOK, Goto

\* What llama-servers do on their own, or what the desktop host does to them.
LEMMA EngineAfterLlamas ==
  ASSUME EngineInv, UNCHANGED <<op, step, lock, process, history, port>>,
         llama' \in [Servers -> {"unborn", "loading", "serving", "dead"}],
         \A p \in Servers : llama'[p] \in {"loading", "serving"} =>
                                llama[p] \in {"loading", "serving"}
  PROVE  EngineInv'
<1> USE DEF history
<1>1. LiveServers' \subseteq LiveServers
  BY DEF LiveServers
<1>2. EngineTypeOK' /\ LockIsHeld'
  BY DEF EngineInv, EngineTypeOK, LockIsHeld
<1>3. OnlyTheStartWaits' /\ FailedStartLeavesNothing'
  BY <1>1 DEF EngineInv, OnlyTheStartWaits, FailedStartLeavesNothing
<1> QED BY <1>2, <1>3 DEF EngineInv

\* A process that was stopped runs no longer, and no other one started meanwhile.
LEMMA StoppedFacts ==
  ASSUME EngineTypeOK, llama' = Stopped
  PROVE  /\ llama' \in [Servers -> {"unborn", "loading", "serving", "dead"}]
         /\ LiveServers' = LiveServers \ {process}
         /\ \A p \in Servers : llama[p] # "unborn" => llama'[p] # "unborn"
<1>1. CASE Running
  <2>1. process \in Servers /\ llama' = [llama EXCEPT ![process] = "dead"]
    BY <1>1 DEF Running, LiveServers, Stopped
  <2> QED BY <2>1 DEF EngineTypeOK, LiveServers
<1>2. CASE ~Running
  <2>1. llama' = llama /\ process \notin LiveServers
    BY <1>2 DEF Running, Stopped
  <2> QED BY <2>1 DEF EngineTypeOK, LiveServers
<1> QED BY <1>1, <1>2

\* Every step of a thread of the server keeps the invariant.
LEMMA EngineThreadStep ==
  ASSUME EngineInv, NEW t \in Threads, Proceed(t) \/ \E o \in Operations : BeginRequest(t, o)
  PROVE  EngineInv'
<1>1. EngineTypeOK /\ step \in [Threads -> Steps] /\ lock \in Threads \cup {"free"}
  BY DEF EngineInv, EngineTypeOK
<1>2. ASSUME NEW s \in Steps, Goto(t, s) PROVE /\ step' \in [Threads -> Steps] /\ step'[t] = s
                                              /\ \A u \in Threads \ {t} : step'[u] = step[u]
  BY <1>1, <1>2, StepTypes
\* outside the lock nothing changes that the lock is about
<1>3. ASSUME NEW s \in Steps \ Inside, Goto(t, s), lock' = lock, step[t] \notin Inside
      PROVE  LockIsHeld'
  BY <1>1, <1>2, <1>3 DEF EngineInv, LockIsHeld
\* within it the thread stays the only one
<1>4. ASSUME NEW s \in Steps, Goto(t, s), step[t] \in Inside,
             lock' = lock \/ (lock' = "free" /\ s \notin Inside)
      PROVE  LockIsHeld'
  <2>1. \A u \in Threads \ {t} : step[u] \notin Inside
    BY <1>4 DEF EngineInv, LockIsHeld
  <2> QED BY <1>1, <1>2, <1>4, <2>1 DEF EngineInv, LockIsHeld
<1>4a. UNCHANGED history => UNCHANGED <<wasReady, unrecorded>>
  BY DEF history
<1>5. ASSUME UNCHANGED <<process, llama, history>>,
             \A u \in Threads : step[u] = "wait" => step'[u] = "wait"
      PROVE  OnlyTheStartWaits' /\ FailedStartLeavesNothing'
  <2>1. LiveServers' = LiveServers
    BY <1>5 DEF LiveServers
  <2> QED BY <1>4a, <1>5, <2>1 DEF EngineInv, OnlyTheStartWaits, FailedStartLeavesNothing
<1>6. ASSUME llama' = Stopped, process' = 0, UNCHANGED history
      PROVE  OnlyTheStartWaits' /\ FailedStartLeavesNothing'
  <2>1. LiveServers' = LiveServers \ {process} /\ 0 \notin LiveServers'
    BY <1>1, <1>6, StoppedFacts DEF LiveServers, Servers
  <2> QED BY <1>4a, <1>6, <2>1 DEF EngineInv, OnlyTheStartWaits, FailedStartLeavesNothing
<1>7. 0 \in 0..MaxServers /\ "free" \notin Threads
  BY EngineAssumption, FreeIsNoThread
<1> USE DEF Inside, Steps, Idle, history
<1>8. ASSUME NEW o \in Operations, BeginRequest(t, o) PROVE EngineInv'
  <2>1. PICK s \in {"start", "stop"} : Goto(t, s)
    BY <1>8 DEF BeginRequest
  <2>2. /\ step[t] = "idle" /\ op' = [op EXCEPT ![t] = o]
        /\ UNCHANGED <<lock, process, llama, history, port>>
    BY <1>8 DEF BeginRequest
  <2>3. EngineTypeOK'
    BY <1>1, <1>2, <2>1, <2>2 DEF EngineTypeOK
  <2>4. LockIsHeld'
    BY <1>3, <2>1, <2>2
  <2>5. OnlyTheStartWaits' /\ FailedStartLeavesNothing'
    BY <1>2, <1>5, <2>1, <2>2
  <2> QED BY <2>3, <2>4, <2>5 DEF EngineInv
<1>9. CASE Stop(t)
  <2>1. PICK s \in {"configure", "done"} : Goto(t, s)
    BY <1>9 DEF Stop
  <2>2. /\ step[t] = "stop" /\ llama' = Stopped /\ process' = 0 /\ port' = 0
        /\ UNCHANGED <<op, lock, history>>
    BY <1>9 DEF Stop
  <2>3. EngineTypeOK'
    BY <1>1, <1>2, <1>7, <2>1, <2>2, StoppedFacts DEF EngineTypeOK
  <2>4. LockIsHeld'
    BY <1>3, <2>1, <2>2
  <2> QED BY <1>6, <2>2, <2>3, <2>4 DEF EngineInv
<1>10. CASE Configure(t)
  <2>1. PICK s \in {"start", "done"} : Goto(t, s)
    BY <1>10 DEF Configure
  <2>2. /\ step[t] = "configure" /\ UNCHANGED <<op, lock, process, llama, history, port>>
    BY <1>10 DEF Configure
  <2>3. EngineTypeOK'
    BY <1>1, <1>2, <2>1, <2>2 DEF EngineTypeOK
  <2>4. LockIsHeld'
    BY <1>3, <2>1, <2>2
  <2>5. OnlyTheStartWaits' /\ FailedStartLeavesNothing'
    BY <1>2, <1>5, <2>1, <2>2
  <2> QED BY <2>3, <2>4, <2>5 DEF EngineInv
<1>11. CASE StartTakesLock(t)
  <2>1. /\ step[t] = "start" /\ lock = "free" /\ lock' = t /\ Goto(t, "check")
        /\ UNCHANGED <<op, process, llama, history, port>>
    BY <1>11 DEF StartTakesLock
  <2>2. EngineTypeOK'
    BY <1>1, <1>2, <2>1 DEF EngineTypeOK
  <2>3. LockIsHeld'
    BY <1>2, <1>7, <2>1 DEF EngineInv, LockIsHeld
  <2>4. OnlyTheStartWaits' /\ FailedStartLeavesNothing'
    BY <1>2, <1>5, <2>1
  <2> QED BY <2>2, <2>3, <2>4 DEF EngineInv
<1>12. CASE CheckRunning(t)
  <2>1. PICK s \in {"done", "spawn", "report"} :
           Goto(t, s) /\ (lock' = lock \/ (lock' = "free" /\ s # "spawn"))
    BY <1>12 DEF CheckRunning, FailBefore, AfterFailure
  <2>2. /\ step[t] = "check" /\ UNCHANGED <<op, process, llama, history, port>>
    BY <1>12 DEF CheckRunning
  <2>3. EngineTypeOK'
    BY <1>1, <1>2, <2>1, <2>2 DEF EngineTypeOK
  <2>4. LockIsHeld'
    BY <1>4, <2>1, <2>2
  <2>5. OnlyTheStartWaits' /\ FailedStartLeavesNothing'
    BY <1>2, <1>5, <2>1, <2>2
  <2> QED BY <2>3, <2>4, <2>5 DEF EngineInv
<1>13. CASE Spawn(t)
  <2>1. PICK p \in Servers : /\ llama[p] = "unborn" /\ process' = p /\ port' = p
                             /\ llama' = [llama EXCEPT ![p] = "loading"]
    BY <1>13 DEF Spawn
  <2>2. /\ step[t] = "spawn" /\ Goto(t, "wait") /\ UNCHANGED <<op, lock, history>>
    BY <1>13 DEF Spawn
  <2>3. EngineTypeOK'
    BY <1>1, <1>2, <2>1, <2>2 DEF EngineTypeOK, Servers
  <2>4. LockIsHeld'
    BY <1>4, <2>2
  <2>5. \A u \in Threads : step[u] # "wait"
    BY <2>2 DEF EngineInv, LockIsHeld
  <2>6. LiveServers' = LiveServers \cup {p}
    BY <1>1, <2>1 DEF EngineTypeOK, LiveServers
  <2>7. FailedStartLeavesNothing'
    BY <2>1, <2>2, <2>5, <2>6 DEF EngineInv, OnlyTheStartWaits, FailedStartLeavesNothing
  <2>8. OnlyTheStartWaits'
    BY <1>2, <2>2 DEF OnlyTheStartWaits
  <2> QED BY <2>3, <2>4, <2>7, <2>8 DEF EngineInv
<1>13a. CASE SpawnUnrecorded(t)
  <2>1. PICK p \in Servers : /\ llama[p] = "unborn" /\ process' = p
                             /\ llama' = [llama EXCEPT ![p] = "loading"]
                             /\ unrecorded' = unrecorded \cup {p} /\ port' = 0
    BY <1>13a DEF SpawnUnrecorded
  <2>2. PICK s \in {"done", "report"} : Goto(t, s)
    BY <1>13a DEF SpawnUnrecorded, FailBefore, AfterFailure
  <2>3. step[t] = "spawn" /\ lock' = "free" /\ UNCHANGED <<op, wasReady>>
    BY <1>13a DEF SpawnUnrecorded, FailBefore
  <2>4. EngineTypeOK'
    BY <1>1, <1>2, <1>7, <2>1, <2>2, <2>3 DEF EngineTypeOK, Servers
  <2>5. LockIsHeld'
    BY <1>4, <2>2, <2>3
  <2>6. \A u \in Threads : step[u] # "wait"
    BY <2>3 DEF EngineInv, LockIsHeld
  <2>7. LiveServers' = LiveServers \cup {p}
    BY <1>1, <2>1 DEF EngineTypeOK, LiveServers
  <2>8. FailedStartLeavesNothing' /\ OnlyTheStartWaits'
    BY <2>1, <2>3, <2>6, <2>7 DEF EngineInv, OnlyTheStartWaits, FailedStartLeavesNothing
  <2> QED BY <2>4, <2>5, <2>8 DEF EngineInv
<1>14. CASE StartSucceeds(t)
  <2>1. /\ step[t] = "wait" /\ Goto(t, "done") /\ process \in Servers /\ lock' = "free"
        /\ wasReady' = wasReady \cup {process} /\ port' = process
        /\ UNCHANGED <<op, process, llama, unrecorded>>
    BY <1>14 DEF StartSucceeds, history, Ready, Running, LiveServers
  <2>2. EngineTypeOK'
    BY <1>1, <1>2, <2>1 DEF EngineTypeOK, Servers
  <2>3. LockIsHeld'
    BY <1>4, <2>1
  <2>4. LiveServers' = LiveServers
    BY <2>1 DEF LiveServers
  <2>5. OnlyTheStartWaits' /\ FailedStartLeavesNothing'
    BY <2>1, <2>4 DEF EngineInv, OnlyTheStartWaits, FailedStartLeavesNothing
  <2> QED BY <2>2, <2>3, <2>5 DEF EngineInv
<1>15. CASE StartFails(t)
  <2>1. PICK s \in {"done", "report"} : Goto(t, s)
    BY <1>15 DEF StartFails, AfterFailure
  <2>2. /\ step[t] = "wait" /\ llama' = Stopped /\ process' = 0 /\ port' = 0 /\ lock' = "free"
        /\ UNCHANGED <<op, history>>
    BY <1>15 DEF StartFails, Terminated
  <2>3. EngineTypeOK'
    BY <1>1, <1>2, <1>7, <2>1, <2>2, StoppedFacts DEF EngineTypeOK
  <2>4. LockIsHeld'
    BY <1>4, <2>1, <2>2
  <2> QED BY <1>6, <2>2, <2>3, <2>4 DEF EngineInv
<1>16. CASE ReportFailure(t)
  <2>1. /\ step[t] = "report" /\ Goto(t, "done") /\ port' = 0
        /\ UNCHANGED <<op, lock, process, llama, history>>
    BY <1>16 DEF ReportFailure
  <2>2. EngineTypeOK'
    BY <1>1, <1>2, <1>7, <2>1 DEF EngineTypeOK
  <2>3. LockIsHeld'
    BY <1>3, <2>1
  <2>4. OnlyTheStartWaits' /\ FailedStartLeavesNothing'
    BY <1>2, <1>5, <2>1
  <2> QED BY <2>2, <2>3, <2>4 DEF EngineInv
<1> QED BY <1>8, <1>9, <1>10, <1>11, <1>12, <1>13, <1>13a, <1>14, <1>15, <1>16 DEF Proceed

LEMMA EngineStart == DesktopInit => EngineInv
<1> SUFFICES ASSUME DesktopInit PROVE EngineInv
    OBVIOUS
<1>1. LiveServers = {} /\ 0 \in 0..MaxServers
  BY EngineAssumption DEF DesktopInit, EngineInit, LiveServers
<1>2. EngineTypeOK
  BY <1>1 DEF DesktopInit, EngineInit, EngineTypeOK, Operations, Steps, Idle
<1>3. LockIsHeld
  BY DEF DesktopInit, EngineInit, LockIsHeld, Inside
<1> QED BY <1>1, <1>2, <1>3 DEF EngineInv, OnlyTheStartWaits, FailedStartLeavesNothing

\* A llama-server that is terminated, or that dies or loads its model, stays what it was or dies.
LEMMA EngineLlamaStep == EngineInv /\ Llamas => EngineInv'
<1> SUFFICES ASSUME EngineInv, NEW p \in Servers, ModelLoads(p) \/ LlamaDies(p)
             PROVE  EngineInv'
    BY DEF Llamas
<1>1. /\ UNCHANGED <<op, step, lock, process, history, port>>
      /\ \/ llama[p] = "loading" /\ llama' = [llama EXCEPT ![p] = "serving"]
         \/ llama' = [llama EXCEPT ![p] = "dead"]
  BY DEF ModelLoads, LlamaDies
<1>2. llama \in [Servers -> {"unborn", "loading", "serving", "dead"}]
  BY DEF EngineInv, EngineTypeOK
<1>3. /\ llama' \in [Servers -> {"unborn", "loading", "serving", "dead"}]
      /\ \A q \in Servers : llama'[q] \in {"loading", "serving"} =>
                                llama[q] \in {"loading", "serving"}
  BY <1>1, <1>2
<1> QED BY <1>1, <1>3, EngineAfterLlamas

\* What the desktop host does to the engine: it terminates llama-servers, or nothing.
LEMMA EngineStepHolds == EngineInv /\ [DesktopNext]_desktopVars => EngineInv'
<1> SUFFICES ASSUME EngineInv, [DesktopNext]_desktopVars PROVE EngineInv'
    OBVIOUS
<1>1. ASSUME UNCHANGED engineVars PROVE EngineInv'
  <2>1. UNCHANGED <<op, step, lock, process, llama, history, port>>
    BY <1>1 DEF engineVars
  <2>2. llama' \in [Servers -> {"unborn", "loading", "serving", "dead"}]
    BY <2>1 DEF EngineInv, EngineTypeOK
  <2> QED BY <2>1, <2>2, EngineAfterLlamas
<1>2. CASE Main \/ Processes \/ ServerDies \/ UNCHANGED desktopVars
  <2>1. UNCHANGED engineVars
    BY <1>2 DEF Main, StartServer, ServerIsReady, StartupFails, StartCodex, Finally, MainEnds,
       Processes, ServerBoots, WorkerLaunches, WorkerSeesHostGone, ServerDies, desktopVars
  <2> QED BY <1>1, <2>1
<1>3. CASE Engine
  <2>1. \/ \E t \in Threads : Proceed(t) \/ \E o \in Operations : BeginRequest(t, o)
        \/ Llamas
    BY <1>3 DEF Engine, EngineStep
  <2> QED BY <2>1, EngineThreadStep, EngineLlamaStep
<1>4. ASSUME NEW t \in Stoppers, StopStep(t) \/ Ask(t) PROVE EngineInv'
  <2>1. CASE TerminateListed(t)
    <3>1. /\ llama' = [p \in Servers |-> IF p \in listed[t] THEN "dead" ELSE llama[p]]
          /\ UNCHANGED <<op, step, lock, process, history, port>>
      BY <2>1 DEF TerminateListed
    <3>2. /\ llama' \in [Servers -> {"unborn", "loading", "serving", "dead"}]
          /\ \A p \in Servers : llama'[p] \in {"loading", "serving"} =>
                                    llama[p] \in {"loading", "serving"}
      BY <3>1 DEF EngineInv, EngineTypeOK
    <3> QED BY <3>1, <3>2, EngineAfterLlamas
  <2>2. CASE ~TerminateListed(t)
    <3>1. UNCHANGED engineVars
      BY <1>4, <2>2 DEF StopStep, Ask, SetExiting, StopCodex, ListTree, TerminateRoot, FinishExit
    <3> QED BY <1>1, <3>1
  <2> QED BY <2>1, <2>2
<1> QED BY <1>2, <1>3, <1>4 DEF DesktopNext

\* The engine's lock serves its purpose under every host: what holds of the engine in every
\* reachable state, whenever the server dies and whoever terminates a llama-server.
THEOREM EngineInvariant == DesktopSpec => []EngineInv
BY EngineStart, EngineStepHolds, PTL DEF DesktopSpec

\* A start that fails leaves no llama-server behind (engine.py, start and its except clause): one
\* that runs and is not the process of the engine was ready once, or its start could not write the
\* state file.
THEOREM FailedStartLeavesNothingHolds == DesktopSpec => []FailedStartLeavesNothing
<1>1. EngineInv => FailedStartLeavesNothing
  BY DEF EngineInv
<1> QED BY <1>1, EngineInvariant, PTL

-----------------------------------------------------------------------------
(* Exit and restart *)

\* the host's own variables
HostTypes ==
    /\ server \in {"none", "booting", "healthy", "dead"}
    /\ worker \in {"none", "launching", "running", "dead"}
    /\ main \in MainSteps /\ exiting \in BOOLEAN
    /\ stopper \in [Stoppers -> StopSteps]
    /\ listed \in [Stoppers -> SUBSET Servers] /\ seen \in [Stoppers -> SUBSET Servers]

\* There is a server from the moment the main thread has left its start, and before that nobody
\* ends HCS.
ServerComesFirst ==
    /\ server = "none" <=> main = "start"
    /\ server = "none" => \A t \in Stoppers : stopper[t] = "idle"

\* What a thread found below the server: nothing before it looked, then what it lists, each of
\* them born, and dead once it was terminated.
TreeIsFollowed ==
    \A t \in Stoppers :
        /\ stopper[t] \in {"idle", "asked", "codex", "list"} => seen[t] = {}
        /\ stopper[t] = "terminate" => seen[t] \subseteq listed[t]
        /\ stopper[t] \in {"root", "end"} => \A p \in seen[t] : llama[p] = "dead"
        /\ \A p \in seen[t] : llama[p] # "unborn"
        /\ stopper[t] = "end" => server = "dead"

DesktopInv == HostTypes /\ ServerComesFirst /\ TreeIsFollowed

\* A llama-server that is dead stays so, and none is unborn again.
Ages == \A p \in Servers : /\ llama[p] = "dead" => llama'[p] = "dead"
                           /\ llama[p] # "unborn" => llama'[p] # "unborn"

\* Whatever happens to the llama-servers meanwhile, the tree stays followed.
LEMMA TreeAges ==
  ASSUME DesktopInv, UNCHANGED hostVars, Ages
  PROVE  DesktopInv'
<1>1. UNCHANGED <<server, worker, main, exiting, stopper, listed, seen>>
  BY DEF hostVars
<1>2. \A t \in Stoppers : seen[t] \subseteq Servers
  BY DEF DesktopInv, HostTypes
<1>3. TreeIsFollowed'
  BY <1>1, <1>2 DEF DesktopInv, TreeIsFollowed, Ages
<1> QED BY <1>1, <1>3 DEF DesktopInv, HostTypes, ServerComesFirst

LEMMA StoppedAges == EngineTypeOK /\ llama' = Stopped => Ages
  BY DEF EngineTypeOK, Stopped, Running, LiveServers, Ages

LEMMA EngineAges == EngineTypeOK /\ Engine => Ages
<1> SUFFICES ASSUME EngineTypeOK, Engine PROVE Ages
    OBVIOUS
<1>1. llama \in [Servers -> {"unborn", "loading", "serving", "dead"}]
  BY DEF EngineTypeOK
<1>2. ASSUME llama' = llama PROVE Ages
  BY <1>2 DEF Ages
<1>3. ASSUME NEW t \in Threads, Proceed(t) PROVE Ages
  <2>1. CASE Stop(t) \/ StartFails(t)
    BY <2>1, StoppedAges DEF Stop, StartFails, Terminated
  <2>2. CASE Spawn(t) \/ SpawnUnrecorded(t)
    BY <1>1, <2>2 DEF Spawn, SpawnUnrecorded, Ages
  <2>3. CASE Configure(t) \/ StartTakesLock(t) \/ CheckRunning(t) \/ StartSucceeds(t)
             \/ ReportFailure(t)
    BY <1>2, <2>3 DEF Configure, StartTakesLock, CheckRunning, StartSucceeds, ReportFailure
  <2> QED BY <1>3, <2>1, <2>2, <2>3 DEF Proceed
<1>4. ASSUME NEW t \in Threads, NEW o \in Operations, BeginRequest(t, o) PROVE Ages
  BY <1>2, <1>4 DEF BeginRequest
<1>5. ASSUME NEW p \in Servers, ModelLoads(p) \/ LlamaDies(p) PROVE Ages
  BY <1>1, <1>5 DEF ModelLoads, LlamaDies, LiveServers, Ages
<1> QED BY <1>3, <1>4, <1>5 DEF Engine, EngineStep, Llamas

LEMMA DesktopStart == DesktopInit => DesktopInv
  BY DEF DesktopInit, DesktopInv, HostTypes, ServerComesFirst, TreeIsFollowed, MainSteps,
     StopSteps

LEMMA DesktopStep == DesktopInv /\ EngineInv /\ [DesktopNext]_desktopVars => DesktopInv'
<1> SUFFICES ASSUME DesktopInv, EngineInv, [DesktopNext]_desktopVars PROVE DesktopInv'
    OBVIOUS
<1> USE DEF MainSteps, StopSteps
<1>1. /\ EngineTypeOK
      /\ llama \in [Servers -> {"unborn", "loading", "serving", "dead"}]
  BY DEF EngineInv, EngineTypeOK
<1>2. CASE Engine
  <2>1. UNCHANGED hostVars
    BY <1>2 DEF Engine, EngineStep
  <2> QED BY <1>1, <1>2, <2>1, EngineAges, TreeAges
<1>3. CASE UNCHANGED desktopVars
  <2>1. UNCHANGED hostVars /\ Ages
    BY <1>3 DEF desktopVars, engineVars, Ages
  <2> QED BY <2>1, TreeAges
<1>4. CASE Processes \/ ServerDies
  <2>1. /\ \/ server \in {"booting", "healthy"} /\ server' \in {"healthy", "dead"}
           \/ server' = server
        /\ worker' \in {worker, "running", "dead"}
        /\ UNCHANGED <<llama, main, exiting, stopper, listed, seen>>
    BY <1>4 DEF Processes, ServerBoots, WorkerLaunches, WorkerSeesHostGone, ServerDies, engineVars
  <2> QED BY <2>1 DEF DesktopInv, HostTypes, ServerComesFirst, TreeIsFollowed
<1>5. CASE StartServer
  <2>1. /\ main = "start" /\ main' = "waiting" /\ server' = "booting"
        /\ UNCHANGED <<llama, worker, exiting, stopper, listed, seen>>
    BY <1>5 DEF StartServer, engineVars
  <2> QED BY <2>1 DEF DesktopInv, HostTypes, ServerComesFirst, TreeIsFollowed
<1>6. CASE ServerIsReady \/ StartupFails \/ StartCodex \/ MainEnds
  <2>1. /\ main # "start" /\ main' \in {"codex", "finally", "window", "gone"}
        /\ worker' \in {worker, "launching", "none"}
        /\ UNCHANGED <<llama, server, exiting, stopper, listed, seen>>
    BY <1>6 DEF ServerIsReady, StartupFails, StartCodex, MainEnds, engineVars
  <2> QED BY <2>1 DEF DesktopInv, HostTypes, ServerComesFirst, TreeIsFollowed
\* a thread goes on without touching the server or a llama-server
<1>7. ASSUME NEW t \in Stoppers, NEW s \in {"asked", "codex"},
             stopper[t] \in {"idle", "asked"}, server # "none",
             stopper' = [stopper EXCEPT ![t] = s], exiting' \in BOOLEAN,
             UNCHANGED <<llama, server, worker, main, listed, seen>>
      PROVE  DesktopInv'
  BY <1>7 DEF DesktopInv, HostTypes, ServerComesFirst, TreeIsFollowed
<1>8. main # "start" => server # "none"
  BY DEF DesktopInv, ServerComesFirst
<1>9. CASE Finally
  BY <1>7, <1>8, <1>9 DEF Finally, engineVars, Stoppers
<1>10. ASSUME NEW t \in Stoppers, StopStep(t) \/ Ask(t) PROVE DesktopInv'
  <2>1. stopper[t] # "idle" => server # "none"
    BY DEF DesktopInv, ServerComesFirst
  <2>2. CASE Ask(t)
    <3>1. exiting \in BOOLEAN
      BY DEF DesktopInv, HostTypes
    <3> QED BY <1>7, <1>8, <2>2, <3>1 DEF Ask, engineVars
  <2>3. CASE SetExiting(t)
    BY <1>7, <2>1, <2>3 DEF SetExiting, engineVars
  <2>4. CASE StopCodex(t)
    <3>1. /\ stopper[t] = "codex" /\ worker' \in {worker, "dead"}
          /\ \/ stopper' = [stopper EXCEPT ![t] = "list"]
             \/ server = "dead" /\ stopper' = [stopper EXCEPT ![t] = "end"]
          /\ UNCHANGED <<llama, server, main, exiting, listed, seen>>
      BY <2>1, <2>4 DEF StopCodex, engineVars, DesktopInv, HostTypes
    <3> QED BY <3>1 DEF DesktopInv, HostTypes, ServerComesFirst, TreeIsFollowed
  <2>5. CASE ListTree(t)
    <3>1. LiveServers \subseteq Servers /\ \A p \in LiveServers : llama[p] # "unborn"
      BY DEF LiveServers
    <3>2. /\ stopper[t] = "list"
          /\ UNCHANGED <<llama, server, worker, main, exiting>>
          /\ \/ /\ server = "dead" /\ stopper' = [stopper EXCEPT ![t] = "end"]
                /\ listed' = [listed EXCEPT ![t] = {}] /\ seen' = [seen EXCEPT ![t] = {}]
             \/ /\ stopper' = [stopper EXCEPT ![t] = "terminate"]
                /\ listed' = [listed EXCEPT ![t] = LiveServers]
                /\ seen' = [seen EXCEPT ![t] = LiveServers]
      BY <2>5 DEF ListTree, Descendants, engineVars
    <3> QED BY <2>1, <3>1, <3>2 DEF DesktopInv, HostTypes, ServerComesFirst, TreeIsFollowed
  <2>6. CASE TerminateListed(t)
    <3>1. /\ stopper[t] = "terminate" /\ stopper' = [stopper EXCEPT ![t] = "root"]
          /\ llama' = [p \in Servers |-> IF p \in listed[t] THEN "dead" ELSE llama[p]]
          /\ UNCHANGED <<server, worker, main, exiting, listed, seen>>
      BY <2>6 DEF TerminateListed
    <3>2. Ages /\ \A p \in Servers : p \in listed[t] => llama'[p] = "dead"
      BY <3>1 DEF Ages
    <3>3. \A u \in Stoppers : seen[u] \subseteq Servers
      BY DEF DesktopInv, HostTypes
    <3>4. TreeIsFollowed'
      BY <3>1, <3>2, <3>3 DEF DesktopInv, HostTypes, TreeIsFollowed, Ages
    <3> QED BY <2>1, <3>1, <3>4 DEF DesktopInv, HostTypes, ServerComesFirst
  <2>7. CASE TerminateRoot(t)
    <3>1. /\ stopper[t] = "root" /\ stopper' = [stopper EXCEPT ![t] = "end"]
          /\ server' = "dead"
          /\ UNCHANGED <<llama, worker, main, exiting, listed, seen>>
      BY <2>7 DEF TerminateRoot, RootAfter, engineVars
    <3> QED BY <3>1 DEF DesktopInv, HostTypes, ServerComesFirst, TreeIsFollowed
  <2>8. CASE FinishExit(t)
    <3>1. /\ stopper[t] = "end" /\ stopper' = [stopper EXCEPT ![t] = "done"]
          /\ listed' = [listed EXCEPT ![t] = {}] /\ seen' = [seen EXCEPT ![t] = {}]
          /\ UNCHANGED <<llama, server, worker, main, exiting>>
      BY <2>8 DEF FinishExit, engineVars
    <3> QED BY <2>1, <3>1 DEF DesktopInv, HostTypes, ServerComesFirst, TreeIsFollowed
  <2> QED BY <1>10, <2>2, <2>3, <2>4, <2>5, <2>6, <2>7, <2>8 DEF StopStep
<1> QED BY <1>2, <1>3, <1>4, <1>5, <1>6, <1>9, <1>10 DEF DesktopNext, Main

\* How the host follows the tree of the server it ends.
THEOREM DesktopInvariant == DesktopSpec => []DesktopInv
BY DesktopStart, DesktopStep, EngineInvariant, PTL DEF DesktopSpec

\* Every variable of the host and of the engine keeps its type.
THEOREM DesktopTypeCorrect == DesktopSpec => []DesktopTypeOK
<1>1. EngineInv /\ DesktopInv => DesktopTypeOK
  BY DEF EngineInv, DesktopInv, HostTypes, DesktopTypeOK
<1> QED BY <1>1, EngineInvariant, DesktopInvariant, PTL

\* Before a thread closes the window or launches HCS again, the server is gone and so is every
\* llama-server that ran below it when the thread came to it (desktop_host.py,
\* terminate_process_tree), for any number of requests and llama-servers, and whatever else the
\* server's threads and the other stopping thread do meanwhile.
THEOREM StoppedMeansGoneHolds == DesktopSpec => []StoppedMeansGone
<1>1. DesktopInv => StoppedMeansGone
  BY DEF DesktopInv, TreeIsFollowed, StoppedMeansGone, LiveServers
<1> QED BY <1>1, DesktopInvariant, PTL

-----------------------------------------------------------------------------
(* The import of a standalone installation *)

\* the entries whose category the run has left behind
Behind(i) ==
    \/ i[1] = "workspaces" /\ stage \in {"tasks", "journals", "config", "receipt"}
    \/ i[1] = "tasks" /\ stage \in {"journals", "config", "receipt"}
    \/ i[1] = "journals" /\ stage # "idle" /\ i[2] \notin journalsLeft
    \/ i[1] = "tornado" /\ stage \in {"config", "receipt"}
    \/ i[1] = "config" /\ stage = "receipt"

\* A run has learned every file before it writes, and the credential is in one of them.
SecretsAreKnown == secretAt \in Learned /\ (stage # "idle" => known = Learned)

\* The journals are dealt with before the stages that follow them.
JournalsAreDone == stage \in {"config", "receipt"} => journalsLeft = {}

\* What lies behind the stage is settled.
BehindIsSettled == ~incomplete => \A i \in legacy : Behind(i) => Settled(i)

IInv == /\ TypeOK /\ SecretsAreKnown /\ JournalsAreDone /\ BehindIsSettled
        /\ CompletedIsComplete /\ NoSecretIsCopied

-----------------------------------------------------------------------------
(* Lemmas *)

\* An entry belongs to one of the five categories; the second part names a journal.
LEMMA ItemFacts ==
    ASSUME NEW i \in Items
    PROVE  /\ i[1] \in {"workspaces", "tasks", "journals", "tornado", "config"}
           /\ i[1] = "journals" => i[2] \in Journals /\ FileOf(i) = <<"journals", i[2]>>
           /\ i[1] # "journals" => FileOf(i) = <<i[1]>>
<1>1. /\ i[1] \in {"workspaces", "tasks", "journals", "tornado", "config"}
      /\ i[1] = "journals" => i[2] \in Journals /\ i = <<"journals", i[2]>>
  BY DEF Items
<1> QED BY <1>1 DEF FileOf

\* Importing a file keeps what is there, copies no credential, and leaves nothing of the file
\* out but the conflicting entries, or the run knows that it is incomplete.
LEMMA ImportFacts ==
    ASSUME TypeOK, secretAt \in known, NoSecretIsCopied, NEW f, NEW C, ImportFile(f, C)
    PROVE  /\ disk' \in [Items -> Values] /\ incomplete' \in BOOLEAN
           /\ ~incomplete' => ~incomplete
           /\ \A i \in Items : disk[i] # "none" => disk'[i] = disk[i]
           /\ \A i \in Items : disk'[i] # "leaked"
           /\ ~incomplete' => \A i \in legacy : FileOf(i) = f /\ i \notin C => disk'[i] # "none"
<1>1. CASE f \in bad /\ legacy \cap ItemsOf(f) # {}
  BY <1>1 DEF ImportFile, TypeOK, NoSecretIsCopied
<1>2. CASE ~(f \in bad /\ legacy \cap ItemsOf(f) # {})
  <2> DEFINE items == (legacy \cap ItemsOf(f)) \ C
  <2>1. disk' = [i \in Items |-> IF i \in items /\ disk[i] = "none" THEN "legacy" ELSE disk[i]]
    BY <1>2 DEF ImportFile, Merged, Copied
  <2>2. UNCHANGED incomplete
    BY <1>2 DEF ImportFile
  <2>3. \A i \in legacy : FileOf(i) = f /\ i \notin C => i \in items
    BY DEF TypeOK, ItemsOf
  <2> HIDE DEF items
  <2>4. disk' \in [Items -> Values]
    BY <2>1 DEF TypeOK, Values
  <2> QED BY <2>1, <2>2, <2>3, <2>4 DEF TypeOK, NoSecretIsCopied, Values
<1> QED BY <1>1, <1>2

\* An entry stays settled while runs and HCS write, for removals are recorded.
LEMMA SettledStays ==
    ASSUME NEW i, Settled(i), removed \subseteq removed', refused \subseteq refused',
           disk[i] # "none" => disk'[i] # "none" \/ i \in removed'
    PROVE  Settled(i)'
BY DEF Settled

-----------------------------------------------------------------------------
(* The inductive invariant *)

LEMMA InitInvariant == Init => IInv
<1> SUFFICES ASSUME Init PROVE IInv
  OBVIOUS
<1>1. PICK k \in legacy : secretAt = FileOf(k)
  BY DEF Init
<1>2. legacy \subseteq Items /\ secretAt \in Files /\ secretAt \in Learned
  BY <1>1 DEF Init, Files, Learned
<1>3. TypeOK
  BY <1>2 DEF Init, TypeOK, Values, Stages
<1>4. SecretsAreKnown /\ JournalsAreDone /\ CompletedIsComplete /\ NoSecretIsCopied
  BY <1>2 DEF Init, SecretsAreKnown, JournalsAreDone, CompletedIsComplete, NoSecretIsCopied
<1>5. BehindIsSettled
  <2>1. \A i \in legacy : ~Behind(i)
    BY DEF Init, Behind
  <2> QED BY <2>1 DEF BehindIsSettled
<1> QED BY <1>3, <1>4, <1>5 DEF IInv

\* While no run writes, the invariant is about the receipt alone.
LEMMA IdleKeeps ==
    ASSUME IInv, TypeOK', stage = "idle", stage' = "idle",
           UNCHANGED <<legacy, secretAt, receipt, journalsLeft>>,
           \A i \in legacy : Settled(i) => Settled(i)', NoSecretIsCopied'
    PROVE  IInv'
<1> USE DEF IInv
<1>1. SecretsAreKnown' /\ JournalsAreDone' /\ CompletedIsComplete'
  BY DEF SecretsAreKnown, Learned, JournalsAreDone, CompletedIsComplete
<1>2. \A i \in legacy' : ~Behind(i)'
  BY DEF Behind
<1> QED BY <1>1, <1>2 DEF BehindIsSettled

\* A step of a run that imports file f without the entries C, and moves the stage.
LEMMA ImportKeeps ==
    ASSUME IInv, NEW f, NEW C, ImportFile(f, C), stage # "idle", stage' \in Stages \ {"idle"},
           journalsLeft' \subseteq Journals, refused' \subseteq Items, refused \subseteq refused',
           f \notin bad => C \subseteq refused',
           UNCHANGED <<source, bad, receipt, known, removed, bounds>>,
           JournalsAreDone',
           \A i \in legacy : Behind(i)' => Behind(i) \/ FileOf(i) = f
    PROVE  IInv'
<1> USE DEF IInv
<1>1. secretAt \in known
  BY DEF SecretsAreKnown
<1>2. /\ disk' \in [Items -> Values] /\ incomplete' \in BOOLEAN
      /\ ~incomplete' => ~incomplete
      /\ \A i \in Items : disk[i] # "none" => disk'[i] = disk[i]
      /\ \A i \in Items : disk'[i] # "leaked"
      /\ ~incomplete' => \A i \in legacy : FileOf(i) = f /\ i \notin C => disk'[i] # "none"
  BY <1>1, ImportFacts
<1>3. TypeOK'
  BY <1>2 DEF TypeOK, source, bounds
<1>4. SecretsAreKnown' /\ CompletedIsComplete' /\ NoSecretIsCopied'
  BY <1>2 DEF SecretsAreKnown, CompletedIsComplete, Settled, NoSecretIsCopied, Learned, source,
     TypeOK
<1>5. BehindIsSettled'
  <2> SUFFICES ASSUME ~incomplete', NEW i \in legacy, Behind(i)'
               PROVE  Settled(i)'
    BY DEF BehindIsSettled, source
  <2>0. i \in Items
    BY DEF TypeOK
  <2>1. CASE Behind(i)
    <3>1. Settled(i)
      BY <1>2, <2>1 DEF BehindIsSettled
    <3> QED BY <1>2, <2>0, <3>1 DEF Settled
  <2>2. CASE FileOf(i) = f
    <3>1. f \in bad => i \notin legacy \cap ItemsOf(f)
      BY DEF ImportFile
    <3>2. f \notin bad
      BY <2>0, <2>2, <3>1 DEF ItemsOf
    <3> QED BY <1>2, <2>2, <3>2 DEF Settled
  <2> QED BY <2>1, <2>2
<1> QED BY <1>3, <1>4, <1>5

\* A step of a run whose check of file f cannot run, and that moves the stage.
LEMMA CheckKeeps ==
    ASSUME IInv, NEW f, CheckFails(f), stage # "idle", stage' \in Stages \ {"idle"},
           journalsLeft' \subseteq Journals,
           UNCHANGED <<source, bad, receipt, known, removed>>,
           JournalsAreDone',
           \A i \in legacy : Behind(i)' => Behind(i) \/ FileOf(i) = f
    PROVE  IInv'
<1> USE DEF IInv
<1>1. /\ UNCHANGED <<disk, edits, damages>> /\ interrupts' \in Nat
      /\ refused' \subseteq Items /\ refused \subseteq refused' /\ incomplete' \in BOOLEAN
      /\ ~incomplete' => ~incomplete
      /\ ~incomplete' => \A i \in legacy : FileOf(i) = f => disk[i] # "none" \/ i \in refused'
  <2>1. interrupts' \in Nat /\ UNCHANGED <<disk, edits, damages>>
    BY DEF CheckFails, TypeOK
  <2>2. CASE /\ refused' = refused \cup {i \in legacy \cap ItemsOf(f) : disk[i] = "none"}
             /\ UNCHANGED incomplete
    BY <2>1, <2>2 DEF TypeOK, ItemsOf
  <2>3. CASE incomplete' = TRUE /\ UNCHANGED refused
    BY <2>1, <2>3 DEF TypeOK
  <2> QED BY <2>1, <2>2, <2>3 DEF CheckFails
<1>2. TypeOK'
  BY <1>1 DEF TypeOK, source
<1>3. SecretsAreKnown' /\ CompletedIsComplete' /\ NoSecretIsCopied'
  BY <1>1 DEF SecretsAreKnown, CompletedIsComplete, Settled, NoSecretIsCopied, Learned, source
<1>4. BehindIsSettled'
  BY <1>1 DEF BehindIsSettled, Settled, source
<1> QED BY <1>2, <1>3, <1>4

LEMMA NextInvariant == IInv /\ [Next]_vars => IInv'
<1> SUFFICES ASSUME IInv, [Next]_vars PROVE IInv'
  OBVIOUS
<1>a. TypeOK /\ SecretsAreKnown /\ JournalsAreDone /\ BehindIsSettled /\ CompletedIsComplete
      /\ NoSecretIsCopied
  BY DEF IInv
<1>b. \A i \in legacy : i \in Items
  BY <1>a DEF TypeOK
<1>1. CASE FindNothing
  <2>1. TypeOK' /\ SecretsAreKnown' /\ JournalsAreDone' /\ NoSecretIsCopied' /\ CompletedIsComplete'
    BY <1>a, <1>1 DEF FindNothing, TypeOK, SecretsAreKnown, JournalsAreDone, NoSecretIsCopied,
       CompletedIsComplete, Learned, source, progress, bounds
  <2>2. BehindIsSettled'
    BY <1>a, <1>1 DEF FindNothing, BehindIsSettled, Behind, Settled, source, progress
  <2> QED BY <2>1, <2>2 DEF IInv
<1>2. CASE Begin
  <2>1. \A i \in legacy : i[1] = "journals" => i[2] \in journalsLeft' /\ i[2] \in Journals
    BY <1>b, <1>2, ItemFacts DEF Begin
  <2>2. journalsLeft' \subseteq Journals /\ Learned \subseteq Files
    BY <1>b, <1>2, ItemFacts DEF Begin, Learned, Files
  <2>3. TypeOK'
    BY <1>a, <1>2, <2>2 DEF Begin, TypeOK, Stages, source, files, bounds
  <2>4. SecretsAreKnown' /\ JournalsAreDone' /\ NoSecretIsCopied' /\ CompletedIsComplete'
    BY <1>a, <1>2 DEF Begin, SecretsAreKnown, JournalsAreDone, NoSecretIsCopied,
       CompletedIsComplete, Settled, Learned, source, files
  <2>5. BehindIsSettled'
    BY <1>2, <2>1 DEF Begin, BehindIsSettled, Behind, source
  <2> QED BY <2>3, <2>4, <2>5 DEF IInv
<1>3. CASE ImportWorkspaces
  <2>1. \A i \in legacy : Behind(i)' => Behind(i) \/ FileOf(i) = <<"workspaces">>
    BY <1>3, <1>b, ItemFacts DEF ImportWorkspaces, Behind
  <2>2. CASE CheckFails(<<"workspaces">>)
    BY <1>a, <1>3, <2>1, <2>2, CheckKeeps
       DEF ImportWorkspaces, JournalsAreDone, Stages, TypeOK, source
  <2>3. ASSUME NEW C \in SUBSET {i \in legacy : Conflicts(i) /\ disk[i] = "none"},
               ImportFile(<<"workspaces">>, C), UNCHANGED bounds,
               refused' = IF <<"workspaces">> \in bad THEN refused ELSE refused \cup C
        PROVE  IInv'
    <3>1. C \subseteq Items /\ refused' \subseteq Items /\ refused \subseteq refused'
      BY <1>a, <2>3 DEF TypeOK
    <3> QED BY <1>a, <1>3, <2>1, <2>3, <3>1, ImportKeeps
            DEF ImportWorkspaces, JournalsAreDone, Stages, TypeOK, source, bounds
  <2> QED BY <1>3, <2>2, <2>3 DEF ImportWorkspaces
<1>4. CASE ImportTasks
  <2>1. \A i \in legacy : Behind(i)' => Behind(i) \/ FileOf(i) = <<"tasks">>
    BY <1>4, <1>b, ItemFacts DEF ImportTasks, Behind
  <2>2. CASE CheckFails(<<"tasks">>)
    BY <1>a, <1>4, <2>1, <2>2, CheckKeeps DEF ImportTasks, JournalsAreDone, Stages, TypeOK, source
  <2>3. CASE ImportFile(<<"tasks">>, {}) /\ UNCHANGED <<refused, bounds>>
    BY <1>a, <1>4, <2>1, <2>3, ImportKeeps
       DEF ImportTasks, JournalsAreDone, Stages, TypeOK, source, bounds
  <2> QED BY <1>4, <2>2, <2>3 DEF ImportTasks
<1>5. ASSUME NEW j \in Journals, ImportJournal(j) PROVE IInv'
  <2>1. \A i \in legacy : Behind(i)' => Behind(i) \/ FileOf(i) = <<"journals", j>>
    BY <1>5, <1>b, ItemFacts DEF ImportJournal, Behind
  <2>2. CASE CheckFails(<<"journals", j>>)
    BY <1>a, <1>5, <2>1, <2>2, CheckKeeps DEF ImportJournal, JournalsAreDone, Stages, TypeOK, source
  <2>3. CASE ImportFile(<<"journals", j>>, {}) /\ UNCHANGED <<refused, bounds>>
    BY <1>a, <1>5, <2>1, <2>3, ImportKeeps
       DEF ImportJournal, JournalsAreDone, Stages, TypeOK, source, bounds
  <2> QED BY <1>5, <2>2, <2>3 DEF ImportJournal
<1>6. CASE ImportTornado
  <2>1. \A i \in legacy : Behind(i)' => Behind(i) \/ FileOf(i) = <<"tornado">>
    BY <1>6, <1>b, ItemFacts DEF ImportTornado, Behind
  <2> QED BY <1>a, <1>6, <2>1, ImportKeeps
          DEF ImportTornado, JournalsAreDone, Stages, TypeOK, source, bounds
<1>7. CASE ImportConfig
  <2>1. \A i \in legacy : Behind(i)' => Behind(i) \/ FileOf(i) = Config
    BY <1>7, <1>b, ItemFacts DEF ImportConfig, Behind, Config
  <2> QED BY <1>a, <1>7, <2>1, ImportKeeps
          DEF ImportConfig, JournalsAreDone, Stages, TypeOK, source, bounds
<1>8. CASE End
  <2>1. \A i \in legacy : Behind(i)
    <3> TAKE i \in legacy
    <3>1. journalsLeft = {}
      BY <1>a, <1>8 DEF End, JournalsAreDone
    <3> QED BY <1>8, <1>b, <3>1, ItemFacts DEF End, Behind
  <2>2. ~incomplete => \A i \in legacy : Settled(i)
    BY <1>a, <2>1 DEF BehindIsSettled
  <2>3. TypeOK' /\ SecretsAreKnown' /\ JournalsAreDone' /\ NoSecretIsCopied'
    BY <1>a, <1>8 DEF End, TypeOK, Stages, SecretsAreKnown, JournalsAreDone, NoSecretIsCopied,
       Learned, source, bounds
  <2>4. CompletedIsComplete'
    BY <1>a, <1>8, <2>2 DEF End, WritesReceipt, CompletedIsComplete, Settled, source
  <2>5. BehindIsSettled'
    BY <1>8 DEF End, BehindIsSettled, Behind
  <2> QED BY <2>3, <2>4, <2>5 DEF IInv
<1>9. CASE Interrupted
  <2> USE <1>a, <1>9 DEF Interrupted
  <2>1. stage' \in Stages /\ journalsLeft' \subseteq Journals /\ known' \subseteq Files
    BY DEF Stages
  <2>4. incomplete' \in BOOLEAN
    OBVIOUS
  <2>5. interrupts' \in Nat
    BY DEF TypeOK
  <2>0. TypeOK'
    BY <2>1, <2>4, <2>5 DEF TypeOK, source, files
  <2>3. SecretsAreKnown' /\ JournalsAreDone' /\ NoSecretIsCopied'
    BY DEF SecretsAreKnown, JournalsAreDone, NoSecretIsCopied, Learned, source, files
  <2>2. CompletedIsComplete' /\ BehindIsSettled'
    BY DEF CompletedIsComplete, Settled, BehindIsSettled, Behind, source, files
  <2> QED BY <2>0, <2>3, <2>2 DEF IInv
<1>10. CASE \E i \in Items : HcsWrites(i) \/ HcsRemoves(i)
  <2>1. PICK i \in Items : HcsWrites(i) \/ HcsRemoves(i)
    BY <1>10
  <2>2. /\ UNCHANGED <<source, bad, receipt, progress, refused, damages, interrupts>>
        /\ disk' \in [Items -> Values] /\ removed' \subseteq Items /\ edits' \in Nat
        /\ removed \subseteq removed' /\ stage = "idle"
        /\ \A k \in Items : disk'[k] # "leaked"
        /\ \A k \in Items : disk[k] # "none" => disk'[k] # "none" \/ k \in removed'
    <3>1. CASE HcsWrites(i)
      BY <1>a, <3>1 DEF HcsWrites, TypeOK, Values, NoSecretIsCopied
    <3>2. CASE HcsRemoves(i)
      BY <1>a, <3>2 DEF HcsRemoves, TypeOK, Values, NoSecretIsCopied
    <3> QED BY <2>1, <3>1, <3>2
  <2>3. TypeOK'
    BY <1>a, <2>2 DEF TypeOK, source, progress
  <2>4. \A k \in legacy : Settled(k) => Settled(k)'
    BY <1>b, <2>2 DEF Settled
  <2> QED BY <2>2, <2>3, <2>4, IdleKeeps DEF NoSecretIsCopied, source, progress
<1>11. CASE \E f \in Files : Damage(f) \/ Repair(f)
  <2>1. PICK f \in Files : Damage(f) \/ Repair(f)
    BY <1>11
  <2>2. /\ UNCHANGED <<source, disk, receipt, progress, removed, refused, edits, interrupts>>
        /\ bad' \subseteq Files /\ damages' \in Nat /\ stage = "idle"
    BY <1>a, <2>1 DEF Damage, Repair, TypeOK, bounds
  <2>3. TypeOK'
    BY <1>a, <2>2 DEF TypeOK, source, progress
  <2>4. \A k \in legacy : Settled(k) => Settled(k)'
    BY <2>2 DEF Settled
  <2> QED BY <1>a, <2>2, <2>3, <2>4, IdleKeeps DEF NoSecretIsCopied, source, progress
<1>12. CASE Install
  <2>1. TypeOK'
    BY <1>a, <1>12 DEF Install, TypeOK, files, progress, bounds
  <2>2. \A k \in legacy : Settled(k) => Settled(k)'
    BY <1>12 DEF Install, Settled, files
  <2> QED BY <1>a, <1>12, <2>1, <2>2, IdleKeeps DEF Install, NoSecretIsCopied, files, progress
<1>13. CASE UNCHANGED vars
  <2>1. TypeOK' /\ SecretsAreKnown' /\ JournalsAreDone' /\ NoSecretIsCopied'
    BY <1>a, <1>13 DEF vars, TypeOK, SecretsAreKnown, JournalsAreDone, NoSecretIsCopied, Learned,
       source, files, progress, bounds
  <2>2. CompletedIsComplete' /\ BehindIsSettled'
    BY <1>a, <1>13 DEF vars, CompletedIsComplete, Settled, BehindIsSettled, Behind,
       source, files, progress
  <2> QED BY <2>1, <2>2 DEF IInv
<1> QED BY <1>1, <1>2, <1>3, <1>4, <1>5, <1>6, <1>7, <1>8, <1>9, <1>10, <1>11, <1>12, <1>13
        DEF Next, HostStart, Import

\* What holds at every stage of a run and between runs, for any installation and any number of
\* interruptions, edits and damaged files.
THEOREM InductiveInvariant == Spec => []IInv
BY InitInvariant, NextInvariant, PTL DEF Spec

\* Every variable keeps its type.
THEOREM TypeCorrect == Spec => []TypeOK
<1>1. IInv => TypeOK
  BY DEF IInv
<1> QED BY <1>1, InductiveInvariant, PTL

\* The receipt is never written while something importable is missing (migration.py writes it
\* last, and only for a run that preserved nothing).
THEOREM ReceiptIsHonest == Spec => []CompletedIsComplete
<1>1. IInv => CompletedIsComplete
  BY DEF IInv
<1> QED BY <1>1, InductiveInvariant, PTL

\* No credential of the installation is copied in clear text, whichever file declares it.
THEOREM SecretsStayOut == Spec => []NoSecretIsCopied
<1>1. IInv => NoSecretIsCopied
  BY DEF IInv
<1> QED BY <1>1, InductiveInvariant, PTL

\* No step of any run changes an entry that HCS has.
THEOREM ChoicesAreKept == Spec => HcsChoicesAreKept
<1>1. IInv /\ [Next]_vars =>
        [\A i \in Items : stage # "idle" /\ disk[i] # "none" => disk'[i] = disk[i]]_vars
  <2> SUFFICES ASSUME IInv, Next, stage # "idle", NEW i \in Items, disk[i] # "none"
               PROVE  disk'[i] = disk[i]
    OBVIOUS
  <2>0. TypeOK /\ NoSecretIsCopied /\ secretAt \in known
    BY DEF IInv, SecretsAreKnown
  <2>1. CASE \E f, C : ImportFile(f, C)
    BY <2>0, <2>1, ImportFacts
  <2>2. CASE UNCHANGED disk
    BY <2>2
  <2>3. (\E f, C : ImportFile(f, C)) \/ UNCHANGED disk
    BY DEF CheckFails, Next, HostStart, FindNothing, Begin, Import, ImportWorkspaces, ImportTasks,
       ImportJournal, ImportTornado, ImportConfig, End, Interrupted, Install, HcsWrites, HcsRemoves,
       Damage, Repair,
       files
  <2> QED BY <2>1, <2>2, <2>3
<1> QED BY <1>1, InductiveInvariant, PTL DEF Spec, HcsChoicesAreKept
=============================================================================
