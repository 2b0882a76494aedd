------------------------- MODULE GitFinalizeProofs -------------------------
(***************************************************************************)
(* Proofs about GitFinalize, for any set of foreign commits and any number *)
(* of crashes.                                                             *)
(***************************************************************************)
EXTENDS GitFinalize, TLAPS

AfterCommit == {"push_task", "task_pushed", "verify", "verified", "merge", "merged", "fetch",
                "push", "pushed", "finish"}
AfterTaskPush == {"verify", "verified", "merge", "merged", "fetch", "push", "pushed", "finish"}
AfterMerge == {"fetch", "push", "pushed", "finish"}

\* A target branch holds the whole merge or nothing of the task.
Whole(tip) == taskTip \cup {"merge"} \subseteq tip
Untouched(tip) == tip \subseteq Foreign

Progress ==
    /\ pc \in AfterCommit => "commit_created" \in saved
    /\ pc \in AfterTaskPush => "task_branch_pushed" \in saved
    /\ pc \in AfterMerge => "merge_completed" \in saved
    /\ status = "done" \/ pc = "finish" => "target_pushed" \in saved
    /\ pc = "commit" => head = "task"
    /\ pc \in {"checkout", "commit", "committed"} => "commit_created" \notin saved
    /\ pc = "committed" => ~dirty

Checkpointed ==
    /\ "commit_created" \in saved => ~dirty /\ taskTip # Expected
    /\ "commit_created" \notin saved => saved = {} /\ Untouched(targetTip) /\ Untouched(remoteTarget)
    /\ "task_branch_pushed" \in saved \/ pc = "task_pushed" => remoteTask = taskTip
    /\ "merge_completed" \in saved => Whole(targetTip) /\ Whole(savedMerged)
                                      /\ "task_branch_pushed" \in saved
    /\ pc = "merged" \/ pc \in AfterMerge => Whole(merged) /\ Whole(targetTip)
    /\ "target_pushed" \in saved \/ pc = "pushed" => Published
    /\ "target_pushed" \in saved => "merge_completed" \in saved

Tips ==
    /\ Untouched(targetTip) \/ Whole(targetTip)
    /\ Untouched(remoteTarget) \/ Whole(remoteTarget)
    /\ ~Untouched(targetTip) /\ Untouched(remoteTarget) => targetTip = taskTip \cup {"merge"}
    /\ ~Untouched(remoteTarget) => ~Untouched(targetTip)

IInv == TypeOK /\ Progress /\ Checkpointed /\ Tips

USE DEF Expected

-----------------------------------------------------------------------------
(* The invariant is inductive *)

LEMMA InitInv == Init => IInv
  BY FinalizeAssumption
     DEF Init, IInv, TypeOK, Progress, Checkpointed, Tips, Whole, Untouched, Published, AfterCommit, AfterTaskPush, AfterMerge, Own, Keys, Steps, Commits

LEMMA StepInv == IInv /\ [Next]_vars => IInv'
<1> SUFFICES ASSUME IInv, [Next]_vars PROVE IInv'
    OBVIOUS
<1> USE FinalizeAssumption
    DEF IInv, TypeOK, Progress, Checkpointed, Tips, Whole, Untouched, Published, AfterCommit, AfterTaskPush, AfterMerge, savedVars, localVars, remoteVars
<1>1. CASE Begin
  BY <1>1 DEF Begin, Own, Keys, Steps, Commits
<1>2. CASE Gate
  BY <1>2 DEF Gate, Refused, Own, Keys, Steps, Commits
<1>3. CASE CheckoutTask
  BY <1>3 DEF CheckoutTask, Refused, Own, Keys, Steps, Commits
<1>4. CASE Commit
  <2>1. /\ pc = "commit" /\ saved = {} /\ Untouched(targetTip) /\ Untouched(remoteTarget)
        /\ targetTip' = targetTip
        /\ taskTip' \in {taskTip, taskTip \cup {"work"}}
    BY <1>4 DEF Commit
  <2>2. /\ UNCHANGED <<savedVars, fit, head, remoteVars, merged, crashes>>
        /\ pc' \in {"committed", "refused"}
    BY <1>4 DEF Commit, Refused
  <2>3. dirty' \in BOOLEAN
    BY <1>4 DEF Commit
  <2>4. pc' = "committed" => ~dirty'
    BY <1>4 DEF Commit, Refused
  <2>5. TypeOK'
    <3>1. taskTip' \in SUBSET Own
      BY <2>1 DEF Own
    <3>2. /\ remoteTask' \in SUBSET Own
          /\ {targetTip', remoteTarget', savedMerged', merged'} \subseteq Commits
      BY <2>1, <2>2
    <3> QED
      BY <3>1, <3>2, <2>1, <2>2, <2>3 DEF Steps
  <2>6. Progress' /\ Checkpointed' /\ Tips'
    BY <2>1, <2>2, <2>4
  <2> QED
    BY <2>5, <2>6
<1>5. CASE CheckpointCommit
  BY <1>5 DEF CheckpointCommit, Refused, CommitCheckpoints, Own, Keys, Steps, Commits
<1>6. CASE PushTask
  BY <1>6 DEF PushTask, Refused, Own, Keys, Steps, Commits
<1>7. CASE CheckpointTaskPush
  BY <1>7 DEF CheckpointTaskPush, Own, Keys, Steps, Commits
<1>8. CASE Verify
  BY <1>8 DEF Verify, Refused, AlreadyMerged, Own, Keys, Steps, Commits
<1>9. CASE CheckpointVerified
  BY <1>9 DEF CheckpointVerified, Own, Keys, Steps, Commits
<1>10. CASE Merge
  <2>1. TypeOK'
    <3>1. taskTip \cup {"merge"} \in Commits
      BY DEF Commits
    <3>2. /\ pc = "merge" /\ pc' \in {"fetch", "merged", "refused"}
          /\ targetTip' \in {targetTip, taskTip \cup {"merge"}}
          /\ merged' \in {merged, savedMerged, targetTip, taskTip \cup {"merge"}}
          /\ head' \in {"task", "target"}
          /\ UNCHANGED <<savedVars, fit, dirty, taskTip, remoteVars, crashes>>
      BY <1>10 DEF Merge, Refused
    <3> QED
      BY <3>1, <3>2 DEF Steps
  <2>2. Progress'
    BY <1>10 DEF Merge, Refused, AlreadyMerged, Own, Keys, Steps, Commits
  <2>3. Checkpointed'
    BY <1>10 DEF Merge, Refused, AlreadyMerged, Own, Keys, Steps, Commits
  <2>4. Tips'
    BY <1>10 DEF Merge, Refused, AlreadyMerged, Own, Keys, Steps, Commits
  <2> QED
    BY <2>1, <2>2, <2>3, <2>4
<1>11. CASE CheckpointMerge
  BY <1>11 DEF CheckpointMerge, Own, Keys, Steps, Commits
<1>12. CASE FetchTarget
  <2>1. TypeOK'
    BY <1>12 DEF FetchTarget, Refused, Own, Keys, Steps, Commits
  <2>2. Progress'
    BY <1>12 DEF FetchTarget, Refused, Own, Keys, Steps, Commits
  <2>3. Checkpointed'
    BY <1>12 DEF FetchTarget, Refused, Own, Keys, Steps, Commits
  <2>4. Tips'
    BY <1>12 DEF FetchTarget, Refused, Own, Keys, Steps, Commits
  <2> QED
    BY <2>1, <2>2, <2>3, <2>4
<1>13. CASE PushTarget
  <2>1. /\ pc = "push" /\ pc' \in {"pushed", "refused"}
        /\ remoteTarget' \in {remoteTarget, targetTip}
        /\ pc' = "pushed" => remoteTarget' = targetTip
        /\ UNCHANGED <<savedVars, fit, localVars, remoteTask, merged, crashes>>
    BY <1>13 DEF PushTarget, Refused
  <2>2. TypeOK'
    BY <2>1 DEF Steps
  <2>3. Progress' /\ Checkpointed' /\ Tips'
    BY <2>1
  <2> QED
    BY <2>2, <2>3
<1>14. CASE CheckpointTargetPush
  BY <1>14 DEF CheckpointTargetPush, Own, Keys, Steps, Commits
<1>15. CASE ReportDone
  BY <1>15 DEF ReportDone, Own, Keys, Steps, Commits
<1>16. CASE ReportBlocked
  BY <1>16 DEF ReportBlocked, Own, Keys, Steps, Commits
<1>17. CASE Crash
  BY <1>17 DEF Crash, Own, Keys, Steps, Commits
<1>18. CASE Recover
  BY <1>18 DEF Recover, Recovered, Own, Keys, Steps, Commits
<1>19. CASE Pull
  BY <1>19 DEF Pull, Own, Keys, Steps, Commits
<1>20. ASSUME NEW f \in Foreign, ForeignPush(f) PROVE IInv'
  BY <1>20 DEF ForeignPush, Own, Keys, Steps, Commits
<1>21. CASE UNCHANGED vars
  BY <1>21 DEF vars
<1> QED
  BY <1>1, <1>2, <1>3, <1>4, <1>5, <1>6, <1>7, <1>8, <1>9, <1>10, <1>11, <1>12, <1>13, <1>14, <1>15, <1>16, <1>17, <1>18, <1>19, <1>20, <1>21 DEF Next, Finalize, Others

\* The invariant holds in every reachable state.
THEOREM InductiveInvariant == Spec => []IInv
BY InitInv, StepInv, PTL DEF Spec

-----------------------------------------------------------------------------
(* What follows from it *)

\* Every variable of finalize keeps its type, for any number of crashes.
THEOREM TypeCorrect == Spec => []TypeOK
<1>1. IInv => TypeOK
  BY DEF IInv
<1> QED
  BY <1>1, InductiveInvariant, PTL

\* A task reported as completed is on both branches of origin, whole.
THEOREM DoneIsPublished == Spec => []DoneMeansPublished
<1>1. IInv => DoneMeansPublished
  BY DEF IInv, Progress, Checkpointed, DoneMeansPublished
<1> QED
  BY <1>1, InductiveInvariant, PTL

\* The target push of a finalizing task adds its work to the commit it started from, and nothing
\* else, whatever others push.
THEOREM OnlyTheTaskIsPublished == Spec => PublishesOnlyTheTask
<1> DEFINE Adds == ("merge" \in remoteTarget' /\ "merge" \notin remoteTarget) =>
                      /\ remoteTarget = Expected /\ remoteTarget' = taskTip \cup {"merge"}
                      /\ status = "finalizing" /\ taskTip # Expected
<1>1. ASSUME IInv, [Next]_vars PROVE [Adds]_vars
  <2> USE <1>1, FinalizeAssumption DEF IInv, Tips, Untouched, Whole
  <2>1. CASE PushTarget
    <3>1. /\ pc = "push" /\ remoteTarget' \in {remoteTarget, targetTip}
          /\ remoteTarget' # remoteTarget => remoteTarget \subseteq targetTip
      BY <2>1 DEF PushTarget, PushAccepted, Refused
    <3>2. status = "finalizing" /\ taskTip # Expected /\ taskTip \subseteq Own
      BY <3>1 DEF TypeOK, Progress, Checkpointed, Steps, AfterCommit
    <3> QED
      BY <3>1, <3>2 DEF Own
  <2>2. ASSUME NEW f \in Foreign, ForeignPush(f) PROVE Adds
    BY <2>2 DEF ForeignPush
  <2>3. CASE UNCHANGED remoteTarget
    BY <2>3
  <2>4. PushTarget \/ (\E f \in Foreign : ForeignPush(f)) \/ UNCHANGED remoteTarget
    BY DEF Next, Finalize, Others, vars, localVars, remoteVars, savedVars, Begin, Gate,
           CheckoutTask, Commit, CheckpointCommit, PushTask, CheckpointTaskPush, Verify,
           CheckpointVerified, Merge, CheckpointMerge, FetchTarget, CheckpointTargetPush,
           ReportDone, ReportBlocked, Crash, Recover, Pull
  <2> QED
    BY <2>1, <2>2, <2>3, <2>4
<1> QED
  BY <1>1, InductiveInvariant, PTL DEF Spec, PublishesOnlyTheTask

-----------------------------------------------------------------------------
(* Finalizing implements the atomic publication *)

\* a step that changes neither what the user is told nor what is on the remote target branch
LEMMA Stutters ==
  ASSUME status' = status, Published' = Published
  PROVE  [Contract!Next]_Contract!vars
  BY DEF Contract!vars

LEMMA StepRefines == IInv /\ [Next]_vars => [Contract!Next]_Contract!vars
<1> SUFFICES ASSUME IInv, [Next]_vars PROVE [Contract!Next]_Contract!vars
    OBVIOUS
<1> USE FinalizeAssumption DEF IInv, savedVars, localVars, remoteVars
<1>1. CASE Begin
  <2>1. status = "ready_for_final_approval" /\ status' = "finalizing" /\ Published' = Published
    BY <1>1 DEF Begin, Published
  <2> QED
    BY <2>1 DEF Contract!Next, Contract!Approve
<1>2. CASE ReportDone
  <2>1. status = "finalizing" /\ status' = "done" /\ Published /\ Published'
    BY <1>2 DEF ReportDone, Published, TypeOK, Steps, Progress, Checkpointed
  <2> QED
    BY <2>1 DEF Contract!Next, Contract!Complete
<1>3. CASE ReportBlocked
  <2>1. status = "finalizing" /\ status' = "blocked" /\ Published' = Published
    BY <1>3 DEF ReportBlocked, Published, TypeOK, Steps
  <2> QED
    BY <2>1 DEF Contract!Next, Contract!Refuse
<1>4. CASE PushTarget
  <2>1. pc = "push" /\ status' = status /\ taskTip' = taskTip
        /\ (remoteTarget' = remoteTarget \/ (remoteTarget \subseteq targetTip
                                             /\ remoteTarget' = targetTip))
    BY <1>4 DEF PushTarget, PushAccepted, Refused
  <2>2. status = "finalizing"
    BY <2>1 DEF TypeOK, Steps
  <2>3. CASE Published' = Published
    BY <2>1, <2>3, Stutters
  <2>4. CASE Published' # Published
    <3>1. ~Published /\ Published'
      BY <2>1, <2>4 DEF Published
    <3> QED
      BY <2>1, <2>2, <3>1 DEF Contract!Next, Contract!Publish
  <2> QED
    BY <2>3, <2>4
<1>5. CASE Commit
  <2>1. status' = status /\ remoteTarget' = remoteTarget /\ Untouched(remoteTarget)
    BY <1>5 DEF Commit, Progress, Checkpointed
  <2>2. Published' = Published
    BY <2>1 DEF Published, Untouched
  <2> QED
    BY <2>1, <2>2, Stutters
<1>6. ASSUME NEW f \in Foreign, ForeignPush(f) PROVE [Contract!Next]_Contract!vars
  <2>1. status' = status /\ Published' = Published
    BY <1>6 DEF ForeignPush, Published, TypeOK, Own
  <2> QED
    BY <2>1, Stutters
<1>7. CASE UNCHANGED <<status, taskTip, remoteTarget>>
  BY <1>7, Stutters DEF Published
<1>8. \/ Begin \/ ReportDone \/ ReportBlocked \/ PushTarget \/ Commit
      \/ (\E f \in Foreign : ForeignPush(f)) \/ UNCHANGED <<status, taskTip, remoteTarget>>
  BY DEF Next, Finalize, Others, vars, Gate, CheckoutTask, CheckpointCommit, PushTask,
         CheckpointTaskPush, Verify, CheckpointVerified, Merge, CheckpointMerge, FetchTarget,
         CheckpointTargetPush, Crash, Recover, Pull
<1> QED
  BY <1>1, <1>2, <1>3, <1>4, <1>5, <1>6, <1>7, <1>8

\* Finalizing a task, crashes and restarts included, is one atomic publication of its work.
THEOREM FinalizeImplementsContract == Spec => ImplementsContract
<1>1. Init => Contract!Init
  BY FinalizeAssumption DEF Init, Contract!Init, Published
<1>2. IInv /\ [Next]_vars => [Contract!Next]_Contract!vars
  BY StepRefines
<1> QED
  BY <1>1, <1>2, InductiveInvariant, PTL DEF Spec, ImplementsContract, Contract!Spec
=============================================================================
