--------------------------- MODULE WorkerContract ---------------------------
(***************************************************************************)
(* What the Local Codex worker promises to the service that owns it, in    *)
(* terms of the events it writes: one task at a time, each opened by a     *)
(* task_started or task_resumed and closed by exactly one terminal event;  *)
(* `task_completed' only for a task whose review was approved and that was *)
(* not cancelled; `worker_stopped' once, with no task open, and last.      *)
(***************************************************************************)
EXTENDS Naturals, Sequences

VARIABLES
    phase,      \* "idle", "running" or "cancelled"
    approved,   \* the review of the running task was approved
    down,       \* worker_stopped was written
    log         \* the events written

contractVars == <<phase, approved, down, log>>

Opening  == {"task_started", "task_resumed"}
Closing  == {"task_completed", "task_blocked", "task_failed"}
Neutral  == {"command_error", "status_snapshot", "approval_required"}

ContractInit == phase = "idle" /\ approved = FALSE /\ down = FALSE /\ log = <<>>

\* the types of the events a step appends
Writes(types) ==
    /\ Len(log') = Len(log) + Len(types)
    /\ \A i \in 1..Len(log) : log'[i] = log[i]
    /\ \A i \in 1..Len(types) : log'[Len(log) + i].type = types[i]

Begin ==
    /\ phase = "idle" /\ ~down
    /\ phase' = "running" /\ approved' = FALSE
    /\ \E t \in Opening : Writes(<<t>>)
    /\ UNCHANGED down

Review ==
    /\ phase = "running"
    /\ approved' \in BOOLEAN
    /\ Writes(<<"approval_resolved">>)
    /\ log'[Len(log')].ok = approved'
    /\ UNCHANGED <<phase, down>>

Cancel ==
    /\ phase = "running"
    /\ phase' = "cancelled"
    /\ Writes(<<"task_stopping">>) \/ Writes(<<"worker_stopping", "task_stopping">>)
    /\ UNCHANGED <<approved, down>>

End ==
    /\ phase \in {"running", "cancelled"}
    /\ phase' = "idle"
    /\ \E t \in Closing :
          /\ t = "task_completed" => phase = "running" /\ approved
          /\ \/ Writes(<<t>>) /\ UNCHANGED down
             \/ Writes(<<t, "worker_stopped">>) /\ down' = TRUE
    /\ UNCHANGED approved

GoDown ==
    /\ phase = "idle" /\ ~down
    /\ down' = TRUE
    /\ Writes(<<"worker_stopping", "worker_stopped">>)
    /\ UNCHANGED <<phase, approved>>

Chatter ==
    /\ ~down
    /\ \/ \E t \in Neutral : Writes(<<t>>)
       \/ phase = "cancelled" /\ Writes(<<"worker_stopping">>)
    /\ UNCHANGED <<phase, approved, down>>

ContractNext == Begin \/ Review \/ Cancel \/ End \/ GoDown \/ Chatter

ContractSpec == ContractInit /\ [][ContractNext]_contractVars
=============================================================================
