-------------------------- MODULE PublishContract --------------------------
(***************************************************************************)
(* What finalizing a task promises (local_codex/git_workflow.py, as the    *)
(* e-mail worker reports it): after the approval the work reaches the      *)
(* remote target branch at once and once, or not at all, and only what     *)
(* reached it is reported as done.                                         *)
(***************************************************************************)

VARIABLES
    outcome,    \* what the user is told
    published   \* the whole work is on the remote target branch

vars == <<outcome, published>>

Init == outcome = "ready" /\ published = FALSE

Approve  == outcome = "ready" /\ outcome' = "running" /\ UNCHANGED published
Publish  == outcome = "running" /\ ~published /\ published' = TRUE /\ UNCHANGED outcome
Complete == outcome = "running" /\ published /\ outcome' = "done" /\ UNCHANGED published
Refuse   == outcome = "running" /\ outcome' = "blocked" /\ UNCHANGED published

Next == Approve \/ Publish \/ Complete \/ Refuse

Spec == Init /\ [][Next]_vars
=============================================================================
