-------------------------- MODULE AgentController --------------------------
(***************************************************************************)
(* The coding agent's loop (local_codex/controller.py) with the actions it *)
(* executes (actions.py), the workspace it edits (workspace.py) and the    *)
(* task journal it saves after each of them (state.py).                    *)
(*                                                                         *)
(* One turn is: begin, bootstrap or gate, chat, execute, record, count,    *)
(* conclude.  The journal is saved in almost every step, so the journal's  *)
(* variables are what a restarted worker finds; the controller's own are   *)
(* lost in a crash and rebuilt from the journal.  A file is one that needs *)
(* tests or one that does not; an action is its kind.                      *)
(***************************************************************************)
EXTENDS Naturals

CONSTANTS
    MaxFailed,      \* max_failed_actions
    MaxCrashes      \* bound: crashes of the process

ASSUME ControllerAssumption == MaxFailed \in Nat \ {0} /\ MaxCrashes \in Nat

VARIABLES
    \* the journal on disk
    status,         \* journal.status
    began,          \* journal.steps is not empty
    changed,        \* journal.files_changed
    snapshot,       \* journal.original_files: what it holds of each file
    testsRun,       \* journal.tests_run holds a passing run (and so may journal.steps)
    diffStep,       \* journal.steps holds a git_diff that worked
    observedStep,   \* journal.steps holds an observation since the last project_command
    failures,       \* journal.consecutive_failures
    torn,           \* a crash cut a save short: the file is not valid JSON
    \* the workspace
    edited,         \* files that differ from what the task found
    \* the controller
    seenDiff, seenTests, observed,  \* seen_diff, seen_passing_tests, project_observations_...
    lastInspection,     \* last_successful_inspection_key
    pauseRequested,     \* pause_requested
    cancelled,          \* cancel_event
    \* the turn
    pc, act, ok,    \* the next step, the action and its result["ok"]
    owed,           \* answers of the model its client was not told the outcome of
    crashes

stepVars == <<began, diffStep, observedStep>>
fileVars == <<changed, snapshot, edited>>
gateVars == <<seenDiff, seenTests, observed, lastInspection>>
signalVars == <<pauseRequested, cancelled>>
vars == <<status, stepVars, fileVars, testsRun, failures, torn, gateVars, signalVars,
          pc, act, ok, owed, crashes>>

-----------------------------------------------------------------------------
Files == {"code", "doc"}
NeedTests == {"code"}                                   \* _file_requires_tests
Inspections == {"read", "git_diff", "observe", "diagnose"}  \* guarded_inspections
Runs == {"git_diff", "tests", "run"}                    \* the ones that start a process
Actions == Files \cup Inspections \cup Runs \cup {"project_command", "finish", "invalid"}
Steps == {"begin", "bootstrap", "gate", "chat", "execute", "list", "write", "record", "count",
          "conclude", "fail", "note"}
Over == {"ended", "off"}
\* _resumable_journal
Resumable == {"working", "interrupted", "blocked", "paused", "ready_for_approval"}

Init ==
    /\ status = "working" /\ began = FALSE /\ failures = 0 /\ torn = FALSE
    /\ changed = {} /\ snapshot = [f \in Files |-> "none"] /\ edited = {}
    /\ testsRun = FALSE /\ diffStep = FALSE /\ observedStep = FALSE
    /\ seenDiff = FALSE /\ seenTests = FALSE /\ observed = FALSE /\ lastInspection = "none"
    /\ pauseRequested = FALSE /\ cancelled = FALSE
    /\ pc = "begin" /\ act = "none" /\ ok = FALSE /\ owed = 0
    /\ crashes = 0

-----------------------------------------------------------------------------
(* The turn up to the model's answer *)

End(s) == pc' = "ended" /\ status' = s

StopSeen_AtStart == cancelled /\ ~began
StopSeen == cancelled

\* run: a cancelled run ends between two turns; run_one_step marks the task as worked on
Begin ==
    /\ pc = "begin"
    /\ IF StopSeen
       THEN End("interrupted")
       ELSE /\ status' = IF status \in {"paused", "blocked"} THEN status ELSE "working"
            /\ pc' = IF began THEN "gate" ELSE "bootstrap"
    /\ UNCHANGED <<stepVars, fileVars, testsRun, failures, torn, gateVars, signalVars,
                   act, ok, owed, crashes>>

\* _ensure_bootstrap: the first listing of the workspace, which may fail or raise
Bootstrap ==
    /\ pc = "bootstrap" /\ act' = "bootstrap"
    /\ \/ pc' = "record" /\ ok' \in BOOLEAN
       \/ pc' = "fail" /\ ok' = FALSE
    /\ UNCHANGED <<status, stepVars, fileVars, testsRun, failures, torn, gateVars, signalVars,
                   owed, crashes>>

AtLimit == failures >= MaxFailed

\* pause and the failure limit are looked at before the model is asked
Gate ==
    /\ pc = "gate"
    /\ \/ pauseRequested /\ End("paused")
       \/ ~pauseRequested /\ AtLimit /\ End("blocked")
       \/ ~pauseRequested /\ ~AtLimit /\ pc' = "chat" /\ UNCHANGED status
    /\ act' = "none" /\ ok' = FALSE
    /\ UNCHANGED <<stepVars, fileVars, testsRun, failures, torn, gateVars, signalVars,
                   owed, crashes>>

\* the inspection that just succeeded, or an observation nothing could have outdated
Repeated(a) == \/ a = "observe" /\ observed
               \/ a \in Inspections /\ a = lastInspection

\* An inspection but git_diff stands for all of its kind: the exact one is a repetition, and
\* another file, text or view is not.
OfItsKind == Inspections \ {"git_diff"}

\* client.chat: an error of the model's server, or an answer; an answer that is not an action,
\* or repeats an inspection, is reported and not executed
Chat ==
    /\ pc = "chat"
    /\ \/ pc' = "fail" /\ UNCHANGED <<act, owed>>
       \/ \E a \in Actions :
             /\ act' = a
             /\ \/ /\ a = "invalid" \/ Repeated(a)
                   /\ pc' = "fail" /\ UNCHANGED owed
                \/ /\ a # "invalid" /\ (Repeated(a) => a \in OfItsKind)
                   /\ pc' = "execute" /\ owed' = owed + 1
    /\ UNCHANGED <<status, stepVars, fileVars, testsRun, failures, torn, gateVars, signalVars,
                   ok, crashes>>

-----------------------------------------------------------------------------
(* ActionExecutor.execute *)

\* what run_one_step catches; anything else ends the run, and the worker saves `failed'
Raises == pc' = "fail" /\ owed' = owed - 1 /\ UNCHANGED status
Escapes == End("failed") /\ UNCHANGED owed

\* The inspections, the commands and finish; a test run is noted at once.  What a command writes
\* itself is neither an edit of the agent nor snapshotted, and no variable here tells of it.
Execute ==
    /\ pc = "execute" /\ act \notin Files
    /\ \/ /\ pc' = "record" /\ UNCHANGED <<status, owed>>
          /\ ok' \in IF act = "finish" THEN {TRUE} ELSE BOOLEAN
          /\ testsRun' = (testsRun \/ (act = "tests" /\ ok'))
       \/ /\ \/ act \in Runs \cup {"read"} /\ Raises
             \/ act \in Runs /\ Escapes                            \* TimeoutExpired
          /\ UNCHANGED <<ok, testsRun>>
    /\ UNCHANGED <<stepVars, fileVars, failures, torn, gateVars, signalVars, act, crashes>>

ContentOf(f) == IF f \in edited THEN "edited" ELSE "original"
SnapshotOf_Latest(f) == ContentOf(f)
SnapshotOf(f) == IF snapshot[f] = "none" THEN ContentOf(f) ELSE snapshot[f]

\* _prepare_write: the snapshot is saved first, ...
Snapshot ==
    /\ pc = "execute" /\ act \in Files
    /\ \/ /\ pc' = "list" /\ UNCHANGED <<status, owed>>
          /\ snapshot' = [snapshot EXCEPT ![act] = SnapshotOf(act)]
       \/ Raises /\ UNCHANGED snapshot                              \* dry run, no match
    /\ UNCHANGED <<stepVars, changed, edited, testsRun, failures, torn, gateVars, signalVars,
                   act, ok, crashes>>

Listed_FirstOnly == IF changed = {} THEN {act} ELSE changed
Listed == changed \cup {act}

\* ... then the file is listed as changed, ...
ListFile ==
    /\ pc = "list" /\ pc' = "write"
    /\ changed' = Listed
    /\ UNCHANGED <<status, stepVars, snapshot, edited, testsRun, failures, torn, gateVars,
                   signalVars, act, ok, owed, crashes>>

\* ... and then it is written
WriteFile ==
    /\ pc = "write"
    /\ \/ pc' = "record" /\ ok' = TRUE /\ edited' = edited \cup {act}
          /\ UNCHANGED <<status, owed>>
       \/ Raises /\ UNCHANGED <<ok, edited>>
       \/ Escapes /\ edited' \in {edited, edited \cup {act}} /\ UNCHANGED ok
    /\ UNCHANGED <<stepVars, changed, snapshot, testsRun, failures, torn, gateVars, signalVars,
                   act, crashes>>

-----------------------------------------------------------------------------
(* The rest of the turn *)

\* journal.record_step, then the report to the client: finish is reported by Conclude
Record ==
    /\ pc = "record" /\ pc' = "count"
    /\ began' = TRUE
    /\ diffStep' = (diffStep \/ (act = "git_diff" /\ ok))
    /\ observedStep' = IF act = "project_command" /\ ok THEN FALSE
                       ELSE observedStep \/ (act = "observe" /\ ok)
    /\ owed' = IF act \in {"finish", "bootstrap"} THEN owed ELSE owed - 1
    /\ UNCHANGED <<status, fileVars, testsRun, failures, torn, gateVars, signalVars, act, ok,
                   crashes>>

ObservedAfter_Kept == observed \/ (act = "observe")
ObservedAfter == IF act = "project_command" THEN FALSE ELSE observed \/ act = "observe"

\* a result that is ok clears the failures, one that is not counts; the gates follow
Count ==
    /\ pc = "count"
    /\ pc' = IF act = "bootstrap" THEN "gate" ELSE "conclude"
    /\ failures' = IF ok THEN 0 ELSE failures + 1
    /\ IF ok /\ act # "bootstrap"
       THEN /\ lastInspection' = IF act \in Inspections THEN act ELSE "none"
            /\ observed' = ObservedAfter
            /\ seenDiff' = (seenDiff \/ act = "git_diff")
            /\ seenTests' = (seenTests \/ act = "tests")
       ELSE UNCHANGED gateVars
    /\ UNCHANGED <<status, stepVars, fileVars, testsRun, torn, signalVars, act, ok, owed,
                   crashes>>

\* _completion_allowed
CompletionAllowed ==
    changed # {} => /\ seenDiff
                    /\ changed \cap NeedTests # {} => seenTests

\* whether the task only asks for a report is a matter of its text
MayReport == ok /\ act = "diagnose" /\ changed = {}

\* the turn is over: the run ends with a status, or goes on
Return(s) == End(s) /\ act' = "none" /\ ok' = FALSE
Continue == pc' = "begin" /\ act' = "none" /\ ok' = FALSE /\ UNCHANGED status

\* a reporting task ends with its report, finish ends a task that passed the gate
Conclude ==
    /\ pc = "conclude"
    /\ \/ /\ MayReport \/ (act = "finish" /\ CompletionAllowed)
          /\ Return("ready_for_approval")
       \/ /\ act = "finish" /\ ~CompletionAllowed
          /\ pc' = "fail" /\ UNCHANGED <<status, act, ok>>
       \/ /\ act # "finish"
          /\ IF AtLimit THEN Return("blocked") ELSE Continue
    /\ owed' = IF act = "finish" THEN owed - 1 ELSE owed
    /\ UNCHANGED <<stepVars, fileVars, testsRun, failures, torn, gateVars, signalVars, crashes>>

FailuresAfter == failures + 1

\* _record_failure: journal.record_failure ...
Fail ==
    /\ pc = "fail" /\ pc' = "note"
    /\ failures' = FailuresAfter
    /\ UNCHANGED <<status, stepVars, fileVars, testsRun, torn, gateVars, signalVars, act, ok,
                   owed, crashes>>

\* ... and the controller_error step; an error of the model's server blocks the task
Note ==
    /\ pc = "note" /\ began' = TRUE
    /\ \/ act = "bootstrap" /\ pc' = "gate" /\ UNCHANGED <<status, act, ok>>
       \/ (act = "none" \/ (act # "bootstrap" /\ AtLimit)) /\ Return("blocked")
       \/ act \notin {"bootstrap", "none"} /\ ~AtLimit /\ Continue
    /\ UNCHANGED <<diffStep, observedStep, fileVars, testsRun, failures, torn, gateVars,
                   signalVars, owed, crashes>>

Turn == \/ Begin \/ Bootstrap \/ Gate \/ Chat \/ Execute \/ Snapshot \/ ListFile \/ WriteFile
        \/ Record \/ Count \/ Conclude \/ Fail \/ Note

-----------------------------------------------------------------------------
(* The owner of the controller, crashes and restarts *)

\* stop_task sets the event at any time; the e-mail worker pauses and resumes between turns
Cancel ==
    /\ pc \notin Over /\ ~cancelled /\ cancelled' = TRUE
    /\ UNCHANGED <<status, stepVars, fileVars, testsRun, failures, torn, gateVars,
                   pauseRequested, pc, act, ok, owed, crashes>>

Pause ==
    /\ pc = "begin" /\ ~pauseRequested /\ pauseRequested' = TRUE
    /\ UNCHANGED <<status, stepVars, fileVars, testsRun, failures, torn, gateVars, cancelled,
                   pc, act, ok, owed, crashes>>

Unpause ==
    /\ pauseRequested /\ pauseRequested' = FALSE
    /\ pc = "begin" \/ (pc = "ended" /\ status = "paused")
    /\ pc' = "begin"
    /\ UNCHANGED <<status, stepVars, fileVars, testsRun, failures, torn, gateVars, cancelled,
                   act, ok, owed, crashes>>

\* The process dies: the controller is gone, and what is being written is cut short, the
\* journal included, which is written in place.
Saving == Steps \ {"bootstrap", "chat", "write"}
Crash ==
    /\ pc \notin Over /\ crashes < MaxCrashes
    /\ pc' = "off" /\ crashes' = crashes + 1
    /\ torn' \in BOOLEAN /\ (torn' => pc \in Saving)
    /\ edited' \in {edited, IF pc = "write" THEN edited \cup {act} ELSE edited}
    /\ seenDiff' = FALSE /\ seenTests' = FALSE /\ observed' = FALSE
    /\ lastInspection' = "none" /\ pauseRequested' = FALSE /\ cancelled' = FALSE
    /\ act' = "none" /\ ok' = FALSE /\ owed' = 0
    /\ UNCHANGED <<status, stepVars, changed, snapshot, testsRun, failures>>

\* resume_task: the journal is loaded and AgentController.__init__ rebuilds the gates from it;
\* a journal that is not valid JSON is skipped
Resume ==
    /\ pc \in Over /\ ~torn /\ status \in Resumable
    /\ pc' = "begin"
    /\ seenDiff' = diffStep /\ seenTests' = testsRun
    /\ observed' = observedStep /\ lastInspection' = "none"
    /\ pauseRequested' = FALSE /\ cancelled' = FALSE
    /\ act' = "none" /\ ok' = FALSE /\ owed' = 0
    /\ UNCHANGED <<status, stepVars, fileVars, testsRun, failures, torn, crashes>>

Next == Turn \/ Cancel \/ Pause \/ Unpause \/ Crash \/ Resume

Spec == Init /\ [][Next]_vars

\* The model's server and every command answer or time out, so a turn always goes on; with the
\* provider pool, a chat ends unless providers keep on promising capacity (Tornado, ChatEnds).
FairSpec == Spec /\ WF_vars(Turn)

-----------------------------------------------------------------------------
(* Correctness *)

\* Every variable keeps its type; the failures stay within the limit, but for those a crash
\* keeps from being looked at before the workspace is listed again.
TypeOK ==
    /\ status \in Resumable \cup {"failed"}
    /\ began \in BOOLEAN /\ testsRun \in BOOLEAN /\ diffStep \in BOOLEAN
    /\ observedStep \in BOOLEAN /\ torn \in BOOLEAN
    /\ seenDiff \in BOOLEAN /\ seenTests \in BOOLEAN /\ observed \in BOOLEAN
    /\ pauseRequested \in BOOLEAN /\ cancelled \in BOOLEAN /\ ok \in BOOLEAN
    /\ changed \subseteq Files /\ edited \subseteq Files
    /\ snapshot \in [Files -> {"none", "original", "edited"}]
    /\ failures \in 0..(MaxFailed + crashes) /\ crashes \in 0..MaxCrashes
    /\ lastInspection \in Inspections \cup {"none"}
    /\ pc \in Steps \cup Over /\ act \in Actions \cup {"none", "bootstrap"}
    /\ owed \in 0..1

\* "Finish rejected: changed files require git diff, and code changes require passing tests":
\* whatever was edited, listed or not, and however often the process died in between, work is
\* handed over for approval only if the journal shows a diff and, for code, a passing test run.
ReadyWorkWasReviewed ==
    status = "ready_for_approval" /\ edited # {}
        => diffStep /\ (edited \cap NeedTests # {} => testsRun)

\* The journal can give every edited file back as the task found it.
OriginalsAreKept == \A f \in edited : snapshot[f] = "original"

\* Between two turns the controller remembers exactly what a restart would read from the
\* journal: a crash neither opens the completion gate nor closes it.
RestartIsTransparent ==
    pc = "begin" => /\ seenDiff = diffStep /\ seenTests = testsRun
                    /\ observed = observedStep

\* The model's client hears of every answer once, and of nothing else: the provider pool
\* learns from these reports.
EveryAnswerIsReported ==
    pc = "begin" \/ (pc = "ended" /\ status # "failed") => owed = 0

\* A stopped run ends.
StopEndsRun == cancelled ~> pc \in Over

\* "Three invalid responses block": a run does not go on for ever on answers that are invalid,
\* repeated or fail.
FailuresEndRun == []<>(pc \in Over) \/ []<>(pc = "count" /\ ok /\ act # "bootstrap")

\* Pauses, crashes and resumes included, a run ends by a stop or by its failures.
RunsEnd == StopEndsRun /\ FailuresEndRun

\* The failure limit is looked at after every rejected finish: a model that only keeps asking
\* to finish unreviewed work is stopped.
RejectionsEndRun ==
    []<>(pc \in Over) \/ []<>(pc = "count" /\ ok /\ act \notin {"bootstrap", "finish"})
=============================================================================
