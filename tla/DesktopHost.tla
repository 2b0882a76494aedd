----------------------------- MODULE DesktopHost ------------------------------
(***************************************************************************)
(* The desktop host (desktop_host.py) over its process tree: the host      *)
(* starts the HCS server, waits until it is healthy, starts Local Codex    *)
(* and opens the window; the server starts llama-server processes of its   *)
(* own (InternalEngine).  Exit and Restart come from the tray's thread,    *)
(* Restart also from the main thread when an update was found, and a       *)
(* failed startup ends in the same shutdown.  The tree of a process is     *)
(* listed, then terminated, and its root last, while the threads of the    *)
(* server go on until then.  A process that terminates does so at once, as *)
(* on Windows, and leaves its children alive.                              *)
(***************************************************************************)
EXTENDS InternalEngine

VARIABLES
    server,         \* the HCS server process
    worker,         \* the Local Codex worker process
    main,           \* where the main thread is
    exiting,        \* self.exiting
    stopper,        \* where each thread that ends HCS is, see StopSteps
    listed,         \* the llama-servers it found below the HCS server
    seen            \* history: the llama-servers that were alive when it listed them

hostVars == <<server, worker, main, exiting, stopper, listed, seen>>
desktopVars == <<engineVars, hostVars>>

Stoppers == {"tray", "main"}
StopSteps == {"idle", "asked", "codex", "list", "terminate", "root", "end", "done"}
MainSteps == {"start", "waiting", "codex", "window", "finally", "gone"}

DesktopInit ==
    /\ EngineInit
    /\ server = "none" /\ worker = "none" /\ main = "start"
    /\ exiting = FALSE
    /\ stopper = [t \in Stoppers |-> "idle"]
    /\ listed = [t \in Stoppers |-> {}] /\ seen = [t \in Stoppers |-> {}]

\* a thread of the host runs as long as the main thread does
Alive == main # "gone"

-----------------------------------------------------------------------------
(* Startup *)

StartServer ==
    /\ main = "start" /\ main' = "waiting"
    /\ server' = "booting"
    /\ UNCHANGED <<engineVars, worker, exiting, stopper, listed, seen>>

\* The server writes its port, starts the engine's thread and answers /health.
ServerBoots ==
    /\ server = "booting" /\ server' = "healthy"
    /\ UNCHANGED <<engineVars, worker, main, exiting, stopper, listed, seen>>

ServerDies ==
    /\ server \in {"booting", "healthy"} /\ server' = "dead"
    /\ UNCHANGED <<engineVars, worker, main, exiting, stopper, listed, seen>>

ServerIsReady ==
    /\ main = "waiting" /\ server = "healthy" /\ main' = "codex"
    /\ UNCHANGED <<engineVars, server, worker, exiting, stopper, listed, seen>>

\* The server has died, or has not answered within 30 seconds.
StartupFails ==
    /\ main = "waiting" /\ main' = "finally"
    /\ UNCHANGED <<engineVars, server, worker, exiting, stopper, listed, seen>>

\* The service starts its worker, if it can; its process exists a moment later.  Then the window
\* and the tray icon are made, which fails the startup too if it raises.
StartCodex ==
    /\ main = "codex" /\ main' \in {"window", "finally"}
    /\ worker' \in {"launching", "none"}
    /\ UNCHANGED <<engineVars, server, exiting, stopper, listed, seen>>

\* A worker is launched by a thread of the host.
WorkerLaunches ==
    /\ worker = "launching" /\ Alive /\ worker' = "running"
    /\ UNCHANGED <<engineVars, server, main, exiting, stopper, listed, seen>>

\* Its input ends with the host.
WorkerSeesHostGone ==
    /\ worker \in {"launching", "running"} /\ ~Alive /\ worker' = "dead"
    /\ UNCHANGED <<engineVars, server, main, exiting, stopper, listed, seen>>

-----------------------------------------------------------------------------
(* Exit, restart and a failed start *)

\* Exit or Restart in the tray's menu, or the answer to the update prompt in the main thread.
\* The flag is tested here and set in the next step.
Ask(t) ==
    /\ main = "window" /\ stopper[t] = "idle" /\ ~exiting
    /\ stopper' = [stopper EXCEPT ![t] = "asked"]
    /\ UNCHANGED <<engineVars, server, worker, main, exiting, listed, seen>>

SetExiting(t) ==
    /\ stopper[t] = "asked" /\ Alive
    /\ exiting' = TRUE
    /\ stopper' = [stopper EXCEPT ![t] = "codex"]
    /\ UNCHANGED <<engineVars, server, worker, main, listed, seen>>

Finally ==
    /\ main = "finally" /\ stopper["main"] = "idle"
    /\ exiting' = TRUE
    /\ stopper' = [stopper EXCEPT !["main"] = "codex"]
    /\ UNCHANGED <<engineVars, server, worker, main, listed, seen>>

\* The service's own shutdown, and the process it still reports; none while it is launching.
StopCodex(t) ==
    /\ stopper[t] = "codex" /\ Alive
    /\ worker' = IF worker = "running" THEN "dead" ELSE worker
    /\ stopper' = [stopper EXCEPT ![t] = IF server \in {"booting", "healthy"}
                                         THEN "list" ELSE "end"]
    /\ UNCHANGED <<engineVars, server, main, exiting, listed, seen>>

\* parent.children(recursive=True), which finds nothing below a process that has gone
Descendants_Tracked == IF process \in LiveServers THEN {process} ELSE {}
Descendants == LiveServers

ListTree(t) ==
    /\ stopper[t] = "list" /\ Alive
    /\ listed' = [listed EXCEPT ![t] = IF server = "dead" THEN {} ELSE Descendants]
    /\ seen' = [seen EXCEPT ![t] = IF server = "dead" THEN {} ELSE LiveServers]
    /\ stopper' = [stopper EXCEPT ![t] = IF server = "dead" THEN "end" ELSE "terminate"]
    /\ UNCHANGED <<engineVars, server, worker, main, exiting>>

TerminateListed(t) ==
    /\ stopper[t] = "terminate" /\ Alive
    /\ llama' = [p \in Servers |-> IF p \in listed[t] THEN "dead" ELSE llama[p]]
    /\ stopper' = [stopper EXCEPT ![t] = "root"]
    /\ UNCHANGED <<op, step, lock, process, history, port,
                   server, worker, main, exiting, listed, seen>>

RootAfter_Spared == server
RootAfter == "dead"

TerminateRoot(t) ==
    /\ stopper[t] = "root" /\ Alive
    /\ server' = RootAfter
    /\ stopper' = [stopper EXCEPT ![t] = "end"]
    /\ UNCHANGED <<engineVars, worker, main, exiting, listed, seen>>

\* After this Restart has launched the updater and a new HCS, and the main thread destroys the
\* window.
FinishExit(t) ==
    /\ stopper[t] = "end" /\ Alive
    /\ stopper' = [stopper EXCEPT ![t] = "done"]
    /\ listed' = [listed EXCEPT ![t] = {}] /\ seen' = [seen EXCEPT ![t] = {}]
    /\ UNCHANGED <<engineVars, server, worker, main, exiting>>

\* The main loop ends when the window is destroyed, the finally clause when its work is done.
MainBusy == stopper["main"] \notin {"idle", "done"}
MainEnds ==
    /\ main \in {"window", "finally"} /\ ~MainBusy
    /\ \E t \in Stoppers : stopper[t] = "done"
    /\ main' = "gone"
    /\ UNCHANGED <<engineVars, server, worker, exiting, stopper, listed, seen>>

-----------------------------------------------------------------------------
(* Composition *)

\* The threads of the engine live in the server, llama-server processes on their own.
MayRun(t) == server = "healthy" \/ (server = "booting" /\ t = "autostart")
EngineStep(t) == MayRun(t) /\ Proceed(t) /\ UNCHANGED hostVars
Engine == \/ \E t \in Threads : EngineStep(t)
          \/ \E t \in Threads, o \in Operations :
                MayRun(t) /\ BeginRequest(t, o) /\ UNCHANGED hostVars
          \/ Llamas /\ UNCHANGED hostVars

StopStep(t) == \/ SetExiting(t) \/ StopCodex(t) \/ ListTree(t)
               \/ TerminateListed(t) \/ TerminateRoot(t) \/ FinishExit(t)
Main == StartServer \/ ServerIsReady \/ StartupFails \/ StartCodex \/ Finally \/ MainEnds
Processes == ServerBoots \/ WorkerLaunches \/ WorkerSeesHostGone

DesktopNext == \/ Main \/ Processes \/ ServerDies \/ Engine
               \/ \E t \in Stoppers : StopStep(t) \/ Ask(t)

DesktopSpec == DesktopInit /\ [][DesktopNext]_desktopVars

\* Threads that can run do.  A start that waits is over after its time limit, and each thread
\* of the engine takes the lock a bounded number of times.
FairDesktopSpec ==
    /\ DesktopSpec
    /\ WF_desktopVars(Main) /\ WF_desktopVars(Processes)
    /\ WF_desktopVars(\E t \in Stoppers : StopStep(t))
    /\ WF_desktopVars(\E t \in Threads : EngineStep(t))

-----------------------------------------------------------------------------
(* Correctness *)

DesktopTypeOK ==
    /\ EngineTypeOK
    /\ server \in {"none", "booting", "healthy", "dead"}
    /\ worker \in {"none", "launching", "running", "dead"}
    /\ main \in MainSteps /\ exiting \in BOOLEAN
    /\ stopper \in [Stoppers -> StopSteps]
    /\ listed \in [Stoppers -> SUBSET Servers] /\ seen \in [Stoppers -> SUBSET Servers]

\* "Fully stop HCS, including the local model, to release its memory": before a thread closes
\* the window or launches HCS again, the server is gone and so is every llama-server that ran
\* below it when the thread came to it, those that the engine has lost track of included.
StoppedMeansGone ==
    \A t \in Stoppers : stopper[t] = "end" => server = "dead" /\ seen[t] \cap LiveServers = {}

\* A start that fails leaves no llama-server behind: one that the engine does not track was
\* ready once and did not answer a later start, or its start could not write the state file.
FailedStartLeavesNothing ==
    \A p \in LiveServers : p # process => p \in wasReady \/ p \in unrecorded

\* The lock is held for as long as a model loads, and still every request is answered, unless
\* the server ends: no path out of a start, a failed one included, keeps it.
RequestsFinish ==
    \A t \in Threads : step[t] \notin Idle ~> step[t] = "done" \/ server = "dead"

\* Exit, Restart and a failed startup end the host, the HCS server and the worker, also when
\* the worker is just being launched, the server dies meanwhile, or two threads end HCS.
ExitEnds == exiting ~> main = "gone" /\ server = "dead" /\ worker \in {"none", "dead"}

\* No start that fails leaves a llama-server that the engine has lost.  No run checks it: a start
\* whose first write of the state file raises leaves its process, which the next start replaces.
NoStartIsLost == \A p \in LiveServers : p # process => p \in wasReady

\* The memory of the local model is released: no llama-server outlives HCS.
ExitStopsTheModel == main = "gone" => LiveServers = {}

\* The engine runs one llama-server.
OneModelServer == Cardinality(LiveServers) <= 1
=============================================================================
