---------------------------- MODULE GitFinalize ----------------------------
(***************************************************************************)
(* Finalizing an approved task (local_codex/git_workflow.py, finalize),    *)
(* called by _handle_final_reply and again by recover: commit, push the    *)
(* task branch, verify the target branch, merge, push the target branch,   *)
(* with a checkpoint saved after each of them.  The worker may crash       *)
(* between any git command and the checkpoint that records it, any         *)
(* command may fail, and others push to the target branch meanwhile.       *)
(*                                                                         *)
(* A commit is the set of the commits it is made of since the commit the   *)
(* task started from: {} is expected_target_sha, and a commit is an        *)
(* ancestor of another when it is a subset of it.                          *)
(***************************************************************************)
EXTENDS Naturals

CONSTANTS
    Foreign,        \* commits others push to the target branch
    MaxCrashes      \* bound: crashes of the worker

ASSUME FinalizeAssumption ==
    /\ {"early", "work", "merge"} \cap Foreign = {}
    /\ MaxCrashes \in Nat

VARIABLES
    status,         \* the task's saved status
    fit,            \* tests passed, the diff was inspected, the branch is known
    dirty,          \* the worktree holds uncommitted work
    head,           \* the branch checked out
    taskTip, targetTip,         \* the local branches
    remoteTask, remoteTarget,   \* the same branches of origin
    saved,          \* checkpoints in task.finalization
    savedMerged,    \* task.finalization["merged_sha"]
    merged,         \* merged_sha, the local variable
    pc,             \* the next step of finalize
    why,            \* blocked_reason
    crashes

localVars  == <<dirty, head, taskTip, targetTip>>
remoteVars == <<remoteTask, remoteTarget>>
savedVars  == <<status, saved, savedMerged>>
vars == <<savedVars, fit, localVars, remoteVars, merged, pc, why, crashes>>

-----------------------------------------------------------------------------
Expected == {}
Own == {"early", "work"}
Keys == {"commit_created", "task_branch_pushed", "target_verified", "merge_completed",
         "target_pushed"}
Steps == {"gate", "checkout", "commit", "committed", "push_task", "task_pushed", "verify",
          "verified", "merge", "merged", "fetch", "push", "pushed", "finish", "refused"}

\* The agent may have committed some of its work itself.
Init ==
    /\ status = "ready_for_final_approval" /\ fit \in BOOLEAN
    /\ dirty \in BOOLEAN /\ head \in {"task", "target"}
    /\ taskTip \in {Expected, {"early"}} /\ targetTip = Expected
    /\ remoteTask = Expected /\ remoteTarget = Expected
    /\ saved = {} /\ savedMerged = Expected /\ merged = Expected
    /\ pc = "idle" /\ why = "none" /\ crashes = 0

-----------------------------------------------------------------------------
(* finalize *)

Refused(reason) == pc' = "refused" /\ why' = reason

\* the approval; the status is saved before finalize runs
Begin ==
    /\ pc = "idle" /\ status = "ready_for_final_approval"
    /\ status' = "finalizing" /\ pc' = "gate"
    /\ UNCHANGED <<saved, savedMerged, fit, localVars, remoteVars, merged, why, crashes>>

Gate ==
    /\ pc = "gate"
    /\ \/ ~fit /\ Refused("not ready")
       \/ fit /\ UNCHANGED why
          /\ pc' = IF "commit_created" \in saved THEN "push_task" ELSE "checkout"
    /\ UNCHANGED <<savedVars, fit, localVars, remoteVars, merged, crashes>>

CheckoutTask ==
    /\ pc = "checkout"
    /\ \/ head' = "task" /\ pc' = "commit" /\ UNCHANGED why
       \/ head # "task" /\ Refused("could not checkout task branch") /\ UNCHANGED head
    /\ UNCHANGED <<savedVars, fit, dirty, taskTip, targetTip, remoteVars, merged, crashes>>

\* git add -A and commit; the commit goes to the branch that is checked out
Commit ==
    /\ pc = "commit"
    /\ \/ /\ dirty /\ dirty' = FALSE
          /\ taskTip' = taskTip \cup {c \in {"work"} : head = "task"}
          /\ targetTip' = targetTip \cup {c \in {"work"} : head = "target"}
          /\ pc' = "committed" /\ UNCHANGED why
       \/ dirty /\ Refused("git commit failed") /\ UNCHANGED <<dirty, taskTip, targetTip>>
       \/ /\ Refused("could not inspect staged changes")
          /\ UNCHANGED <<dirty, taskTip, targetTip>>
       \/ ~dirty /\ pc' = "committed" /\ UNCHANGED <<dirty, taskTip, targetTip, why>>
    /\ UNCHANGED <<savedVars, fit, head, remoteVars, merged, crashes>>

\* committed_sha is saved just before commit_created and decides nothing
CommitCheckpoints == {"commit_created"}
CheckpointCommit ==
    /\ pc = "committed"
    /\ \/ taskTip = Expected /\ Refused("no task changes to commit") /\ UNCHANGED saved
       \/ taskTip # Expected /\ saved' = saved \cup CommitCheckpoints
          /\ pc' = "push_task" /\ UNCHANGED why
    /\ UNCHANGED <<status, savedMerged, fit, localVars, remoteVars, merged, crashes>>

\* the push of the task branch, which nobody else pushes to
PushTask ==
    /\ pc = "push_task"
    /\ \/ "task_branch_pushed" \in saved /\ pc' = "verify" /\ UNCHANGED <<remoteTask, why>>
       \/ /\ "task_branch_pushed" \notin saved
          /\ \/ remoteTask' = taskTip /\ pc' = "task_pushed" /\ UNCHANGED why
             \/ Refused("task branch push failed") /\ remoteTask' \in {remoteTask, taskTip}
    /\ UNCHANGED <<savedVars, fit, localVars, remoteTarget, merged, crashes>>

CheckpointTaskPush ==
    /\ pc = "task_pushed"
    /\ saved' = saved \cup {"task_branch_pushed"} /\ pc' = "verify"
    /\ UNCHANGED <<status, savedMerged, fit, localVars, remoteVars, merged, why, crashes>>

\* is_ancestor(task_branch, target_branch) in the local repository
AlreadyMerged_Assumed == targetTip # Expected
AlreadyMerged == targetTip # Expected /\ taskTip \subseteq targetTip

Verify ==
    /\ pc = "verify"
    /\ \/ "target_verified" \in saved /\ pc' = "merge" /\ UNCHANGED why
       \/ /\ "target_verified" \notin saved
          /\ \/ /\ remoteTarget = Expected \/ (remoteTarget = targetTip /\ AlreadyMerged)
                /\ pc' = "verified" /\ UNCHANGED why
             \/ /\ remoteTarget # Expected /\ ~(remoteTarget = targetTip /\ AlreadyMerged)
                /\ Refused("target branch diverged from expected commit")
             \/ Refused("could not fetch target branch")
    /\ UNCHANGED <<savedVars, fit, localVars, remoteVars, merged, crashes>>

CheckpointVerified ==
    /\ pc = "verified"
    /\ saved' = saved \cup {"target_verified"} /\ pc' = "merge"
    /\ UNCHANGED <<status, savedMerged, fit, localVars, remoteVars, merged, why, crashes>>

Merge ==
    /\ pc = "merge"
    /\ \/ /\ "merge_completed" \in saved
          /\ merged' = savedMerged /\ pc' = "fetch" /\ UNCHANGED <<head, targetTip, why>>
       \/ /\ "merge_completed" \notin saved /\ AlreadyMerged
          /\ merged' = targetTip /\ pc' = "merged" /\ UNCHANGED <<head, targetTip, why>>
       \/ /\ "merge_completed" \notin saved /\ targetTip # Expected /\ ~AlreadyMerged
          /\ Refused("local target branch diverged from expected commit")
          /\ UNCHANGED <<head, targetTip, merged>>
       \/ /\ "merge_completed" \notin saved /\ targetTip = Expected
          /\ \/ /\ targetTip' = taskTip \cup {"merge"} /\ head' = "target"
                /\ merged' = targetTip' /\ pc' = "merged" /\ UNCHANGED why
             \/ Refused("merge failure") /\ head' \in {head, "task", "target"}
                /\ UNCHANGED <<targetTip, merged>>
    /\ UNCHANGED <<savedVars, fit, dirty, taskTip, remoteVars, crashes>>

\* merged_sha is saved just before merge_completed, and overwritten unless that is saved too
CheckpointMerge ==
    /\ pc = "merged"
    /\ saved' = saved \cup {"merge_completed"} /\ savedMerged' = merged /\ pc' = "fetch"
    /\ UNCHANGED <<status, fit, localVars, remoteVars, merged, why, crashes>>

FetchTarget ==
    /\ pc = "fetch"
    /\ \/ "target_pushed" \in saved /\ pc' = "finish" /\ UNCHANGED <<head, why>>
       \/ /\ "target_pushed" \notin saved
          /\ \/ Refused("could not fetch target branch") /\ UNCHANGED head
             \/ remoteTarget = merged /\ pc' = "pushed" /\ UNCHANGED <<head, why>>
             \/ remoteTarget \notin {merged, Expected}
                /\ Refused("target branch diverged before push") /\ UNCHANGED head
             \/ /\ remoteTarget # merged /\ remoteTarget = Expected
                /\ \/ head' = "target" /\ pc' = "push" /\ UNCHANGED why
                   \/ Refused("could not checkout target branch") /\ UNCHANGED head
    /\ UNCHANGED <<savedVars, fit, dirty, taskTip, targetTip, remoteVars, merged, crashes>>

\* origin takes a push only when it is a fast-forward
PushAccepted_Forced == TRUE
PushAccepted == remoteTarget \subseteq targetTip

\* the push may take effect although its answer is lost
PushTarget ==
    /\ pc = "push"
    /\ \/ PushAccepted /\ remoteTarget' = targetTip /\ pc' = "pushed" /\ UNCHANGED why
       \/ PushAccepted /\ remoteTarget' = targetTip /\ Refused("target branch push failed")
       \/ Refused("target branch push failed") /\ UNCHANGED remoteTarget
    /\ UNCHANGED <<savedVars, fit, localVars, remoteTask, merged, crashes>>

CheckpointTargetPush ==
    /\ pc = "pushed"
    /\ saved' = saved \cup {"target_pushed"} /\ pc' = "finish"
    /\ UNCHANGED <<status, savedMerged, fit, localVars, remoteVars, merged, why, crashes>>

-----------------------------------------------------------------------------
(* The caller, crashes and the other users of origin *)

ReportDone ==
    /\ pc = "finish" /\ status' = "done" /\ pc' = "idle"
    /\ UNCHANGED <<saved, savedMerged, fit, localVars, remoteVars, merged, why, crashes>>

ReportBlocked ==
    /\ pc = "refused" /\ status' = "blocked" /\ pc' = "idle"
    /\ UNCHANGED <<saved, savedMerged, fit, localVars, remoteVars, merged, why, crashes>>

\* The worker crashes, or a checked git command raises: either way finalize is over and only
\* what was saved remains.
Crash ==
    /\ pc # "down" /\ crashes < MaxCrashes
    /\ pc' = "down" /\ crashes' = crashes + 1
    /\ merged' = Expected /\ why' = IF status = "blocked" THEN why ELSE "none"
    /\ UNCHANGED <<savedVars, fit, localVars, remoteVars>>

\* recover after the restart
Recovered_Never == {}
Recovered == {"finalizing"}
Recover ==
    /\ pc = "down"
    /\ pc' = IF status \in Recovered THEN "gate" ELSE "idle"
    /\ UNCHANGED <<savedVars, fit, localVars, remoteVars, merged, why, crashes>>

ForeignPush(f) ==
    /\ f \in Foreign \ remoteTarget
    /\ remoteTarget' = remoteTarget \cup {f}
    /\ UNCHANGED <<savedVars, fit, localVars, remoteTask, merged, pc, why, crashes>>

\* somebody updates the target branch of the workspace
Pull ==
    /\ targetTip \subseteq remoteTarget /\ targetTip # remoteTarget
    /\ targetTip' = remoteTarget
    /\ UNCHANGED <<savedVars, fit, dirty, head, taskTip, remoteVars, merged, pc, why, crashes>>

-----------------------------------------------------------------------------
Finalize == \/ Gate \/ CheckoutTask \/ Commit \/ CheckpointCommit
            \/ PushTask \/ CheckpointTaskPush \/ Verify \/ CheckpointVerified
            \/ Merge \/ CheckpointMerge \/ FetchTarget \/ PushTarget \/ CheckpointTargetPush
            \/ ReportDone \/ ReportBlocked
Others == Pull \/ \E f \in Foreign : ForeignPush(f)

Next == Begin \/ Finalize \/ Crash \/ Recover \/ Others

Spec == Init /\ [][Next]_vars

\* finalize is a straight line of commands that end, and a worker that went down is restarted.
FairSpec == Spec /\ WF_vars(Finalize) /\ WF_vars(Recover)

-----------------------------------------------------------------------------
(* Correctness *)

Commits == SUBSET (Own \cup {"merge"} \cup Foreign)

\* Every variable keeps its type; the steps of finalize are taken by a finalizing task only.
TypeOK ==
    /\ status \in {"ready_for_final_approval", "finalizing", "done", "blocked"}
    /\ fit \in BOOLEAN /\ dirty \in BOOLEAN /\ head \in {"task", "target"}
    /\ taskTip \in SUBSET Own /\ remoteTask \in SUBSET Own
    /\ {targetTip, remoteTarget, savedMerged, merged} \subseteq Commits
    /\ saved \subseteq Keys /\ pc \in Steps \cup {"idle", "down"}
    /\ pc \in Steps => status = "finalizing"
    /\ crashes \in 0..MaxCrashes

Published == taskTip \cup {"merge"} \subseteq remoteTarget

\* A task is reported as completed only when all of its work, the uncommitted part included, is
\* on the task branch and on the target branch of origin, also when the worker crashed between
\* a git command and its checkpoint.
DoneMeansPublished ==
    status = "done" => Published /\ taskTip \subseteq remoteTask /\ ~dirty

\* The target push adds exactly the approved work, merged into the very commit the task started
\* from: never on top of somebody else's commits, and never removing them.
PublishesOnlyTheTask ==
    [][("merge" \in remoteTarget' /\ "merge" \notin remoteTarget) =>
          /\ remoteTarget = Expected /\ remoteTarget' = taskTip \cup {"merge"}
          /\ status = "finalizing" /\ taskTip # Expected]_vars

\* Finalizing implements the atomic publication of PublishContract.
Contract == INSTANCE PublishContract WITH
    outcome   <- CASE status = "ready_for_final_approval" -> "ready"
                   [] status = "finalizing" -> "running" [] OTHER -> status,
    published <- Published
ImplementsContract == Contract!Spec

\* Whoever approved a task learns how it ended, although the worker crashes.
ApprovalIsAnswered == status = "finalizing" ~> status \in {"done", "blocked"}
=============================================================================
