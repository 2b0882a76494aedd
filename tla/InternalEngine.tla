---------------------------- MODULE InternalEngine ----------------------------
(***************************************************************************)
(* The internal inference engine (engine.py): the threads of one HCS       *)
(* server that start, stop and reconfigure llama-server.  A lock is held   *)
(* during a whole start, up to the moment the model answers or the start   *)
(* has timed out, and during a stop; what a start writes into the state    *)
(* file is read back while it waits.  The thread that starts the engine    *)
(* with the server records its failure after it has released the lock.     *)
(***************************************************************************)
EXTENDS Naturals, FiniteSets

CONSTANTS
    Requests,       \* threads that serve a request about the engine
    MaxServers      \* bound: llama-servers started

Threads   == Requests \cup {"autostart"}

\* Each thread starts one llama-server at most.
ASSUME EngineAssumption ==
    /\ {"autostart", "free"} \cap Requests = {} /\ IsFiniteSet(Requests)
    /\ MaxServers \in Nat /\ Cardinality(Threads) <= MaxServers

Operations == {"start", "stop", "config"}
Servers   == 1..MaxServers          \* llama-server processes, in the order of their start
Idle      == {"idle", "done"}
Steps     == Idle \cup {"start", "check", "spawn", "wait", "stop", "configure", "report"}

VARIABLES
    op,             \* what a thread was asked for
    step,           \* where it is
    lock,           \* the thread that holds _lock, or "free"
    process,        \* _process, or 0
    llama,          \* what each llama-server process does
    wasReady,       \* history: the processes that have been ready
    unrecorded,     \* history: those whose start could not write the state file
    port            \* the process whose port is in inference_state.json, or 0

history == <<wasReady, unrecorded>>
engineVars == <<op, step, lock, process, llama, history, port>>

EngineInit ==
    /\ op = [t \in Threads |-> "start"] /\ step = [t \in Threads |-> "idle"]
    /\ lock = "free" /\ process = 0
    /\ llama = [p \in Servers |-> "unborn"] /\ wasReady = {} /\ unrecorded = {}
    /\ port = 0

LiveServers == {p \in Servers : llama[p] \in {"loading", "serving"}}
Running == process \in LiveServers
\* status()["ready"]: something answers at the port in the state file
Ready == Running /\ port # 0 /\ llama[port] = "serving"

Goto(t, s) == step' = [step EXCEPT ![t] = s]

\* The server runs the auto-start thread; a request arrives.
BeginRequest(t, o) ==
    /\ step[t] = "idle"
    /\ t = "autostart" => o = "start"
    /\ op' = [op EXCEPT ![t] = o]
    /\ Goto(t, IF o = "start" THEN "start" ELSE "stop")
    /\ UNCHANGED <<lock, process, llama, history, port>>

Stopped == IF Running THEN [llama EXCEPT ![process] = "dead"] ELSE llama

\* stop() as a whole: nothing it does waits for another thread
Stop(t) ==
    /\ step[t] = "stop" /\ lock = "free"
    /\ llama' = Stopped
    /\ process' = 0
    /\ port' = 0
    /\ Goto(t, IF op[t] = "config" THEN "configure" ELSE "done")
    /\ UNCHANGED <<op, lock, history>>

\* configure() selects another model, and may ask for a start; the lock is free meanwhile.
Configure(t) ==
    /\ step[t] = "configure"
    /\ \E autoStart \in BOOLEAN : Goto(t, IF autoStart THEN "start" ELSE "done")
    /\ UNCHANGED <<op, lock, process, llama, history, port>>

StartTakesLock(t) ==
    /\ step[t] = "start" /\ lock = "free"
    /\ lock' = t
    /\ Goto(t, "check")
    /\ UNCHANGED <<op, process, llama, history, port>>

\* auto_start catches the failure of start and records it without the lock.
AfterFailure(t) == IF t = "autostart" THEN "report" ELSE "done"

FailBefore_Locked(t) == Goto(t, AfterFailure(t)) /\ UNCHANGED lock
FailBefore(t) == Goto(t, AfterFailure(t)) /\ lock' = "free"

\* A llama-server that runs is kept when it answers within 0.35 seconds, which a busy one may
\* not do.  Otherwise a new one is started, unless the executable or the selected model is
\* missing, no port is free, or the process cannot be created.
CheckRunning(t) ==
    /\ step[t] = "check"
    /\ \/ Ready /\ Goto(t, "done") /\ lock' = "free"
       \/ Goto(t, "spawn") /\ UNCHANGED lock
       \/ FailBefore(t)
    /\ UNCHANGED <<op, process, llama, history, port>>

Spawn(t) ==
    /\ step[t] = "spawn"
    /\ \E p \in Servers :
          /\ llama[p] = "unborn" /\ \A q \in 1..(p - 1) : llama[q] # "unborn"
          /\ process' = p
          /\ llama' = [llama EXCEPT ![p] = "loading"]
          /\ port' = p
    /\ Goto(t, "wait")
    /\ UNCHANGED <<op, lock, history>>

\* The state file cannot be written, outside the try: the start fails and leaves its process
\* to be loading.  The file has no port, or one that is nobody's.
SpawnUnrecorded(t) ==
    /\ step[t] = "spawn"
    /\ \E p \in Servers :
          /\ llama[p] = "unborn" /\ \A q \in 1..(p - 1) : llama[q] # "unborn"
          /\ process' = p
          /\ llama' = [llama EXCEPT ![p] = "loading"]
          /\ unrecorded' = unrecorded \cup {p}
          /\ port' = 0
    /\ FailBefore(t)
    /\ UNCHANGED <<op, wasReady>>

StartSucceeds(t) ==
    /\ step[t] = "wait" /\ Ready
    /\ wasReady' = wasReady \cup {process}
    /\ port' = process
    /\ lock' = "free"
    /\ Goto(t, "done")
    /\ UNCHANGED <<op, process, llama, unrecorded>>

Terminated_NotKilled == llama
Terminated == Stopped

\* The process has exited, or the model did not become ready in time.  The port that stays in
\* the state file is nobody's.
StartFails(t) ==
    /\ step[t] = "wait"
    /\ llama' = Terminated
    /\ process' = 0
    /\ port' = 0
    /\ lock' = "free"
    /\ Goto(t, AfterFailure(t))
    /\ UNCHANGED <<op, history>>

ReportFailure(t) ==
    /\ step[t] = "report"
    /\ port' = 0
    /\ Goto(t, "done")
    /\ UNCHANGED <<op, lock, process, llama, history>>

\* llama-server loads its model, and may die at any time.
ModelLoads(p) ==
    /\ llama[p] = "loading"
    /\ llama' = [llama EXCEPT ![p] = "serving"]
    /\ UNCHANGED <<op, step, lock, process, history, port>>

LlamaDies(p) ==
    /\ p \in LiveServers
    /\ llama' = [llama EXCEPT ![p] = "dead"]
    /\ UNCHANGED <<op, step, lock, process, history, port>>

Proceed(t) == \/ Stop(t) \/ Configure(t) \/ StartTakesLock(t) \/ CheckRunning(t) \/ Spawn(t)
              \/ SpawnUnrecorded(t) \/ StartSucceeds(t) \/ StartFails(t) \/ ReportFailure(t)

\* what the server's own threads do
EngineThreads == \E t \in Threads : Proceed(t) \/ \E o \in Operations : BeginRequest(t, o)
Llamas == \E p \in Servers : ModelLoads(p) \/ LlamaDies(p)
EngineNext == EngineThreads \/ Llamas

EngineTypeOK ==
    /\ op \in [Threads -> Operations] /\ step \in [Threads -> Steps]
    /\ lock \in Threads \cup {"free"} /\ process \in 0..MaxServers
    /\ llama \in [Servers -> {"unborn", "loading", "serving", "dead"}]
    /\ wasReady \subseteq Servers /\ unrecorded \subseteq Servers
    /\ port \in 0..MaxServers
=============================================================================
