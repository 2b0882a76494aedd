----------------------- MODULE AgentControllerProofs -----------------------
(***************************************************************************)
(* AgentController keeps its types, hands over reviewed work only, keeps   *)
(* the originals of the files it edits, restarts into what it was, and     *)
(* reports every answer of the model, for any failure limit and any number *)
(* of crashes.                                                             *)
(*                                                                         *)
(* The inductive invariant says what holds in each step of a turn: where   *)
(* in the order snapshot, list, write a file is (FilesInOrder), in which   *)
(* steps the journal is ahead of the controller (JournalAhead), whether    *)
(* the answer was reported (OwedInStep) and how far the failure counter    *)
(* can be (FailuresInStep).  ActInStep says which action a step is about.  *)
(***************************************************************************)
EXTENDS AgentController, TLAPS

ActInStep ==
    /\ pc \in {"begin", "chat", "off"} => act = "none"
    /\ pc = "execute" => act \in Actions
    /\ pc \in {"list", "write"} => act \in Files
    /\ pc \in {"record", "count"} => act \in Actions \cup {"bootstrap"}
    /\ pc = "conclude" => act \in Actions
    /\ pc \in {"record", "count", "conclude"} /\ act = "finish" => ok
    /\ pc \in {"gate", "chat", "execute", "list", "write", "count", "conclude"} => began
    /\ pc \in {"record", "fail", "note"} /\ act # "bootstrap" => began
    /\ pc = "bootstrap" \/ (pc \in {"record", "fail"} /\ act = "bootstrap") => ~began
    /\ pc = "ended" /\ status = "paused" => act = "none"

GateOpen == changed # {} => diffStep /\ (changed \cap NeedTests # {} => testsRun)

FilesInOrder ==
    /\ edited \subseteq changed
    /\ \A f \in changed : snapshot[f] = "original"
    /\ pc = "list" => snapshot[act] = "original"
    /\ pc = "write" => act \in changed
    /\ \A f \in Files : snapshot[f] # "edited"
    /\ status = "ready_for_approval" => pc \in {"begin"} \cup Over /\ GateOpen

JournalAhead ==
    /\ pc # "off" /\ pc \notin {"record", "count"} => seenTests = testsRun
    /\ pc \in {"record", "count"} => testsRun = (seenTests \/ (act = "tests" /\ ok))
    /\ pc # "off" /\ pc # "count" => seenDiff = diffStep /\ observed = observedStep
    /\ pc = "count" => /\ diffStep = (seenDiff \/ (act = "git_diff" /\ ok))
                       /\ observedStep = IF act = "project_command" /\ ok THEN FALSE
                                         ELSE observed \/ (act = "observe" /\ ok)

OwedInStep ==
    /\ pc \in {"begin", "bootstrap", "gate", "chat", "fail", "note", "off"} => owed = 0
    /\ pc \in {"execute", "list", "write"} => owed = 1
    /\ pc = "record" => owed = IF act = "bootstrap" THEN 0 ELSE 1
    /\ pc \in {"count", "conclude"} => owed = IF act = "finish" THEN 1 ELSE 0
    /\ pc = "ended" /\ status # "failed" => owed = 0

FailuresInStep ==
    /\ pc \in {"chat", "execute", "list", "write"} => failures < MaxFailed
    /\ pc \in {"record", "count", "fail"} /\ act # "bootstrap" => failures < MaxFailed
    /\ pc = "conclude" /\ ok => failures = 0
    /\ ~began \/ (pc = "count" /\ act = "bootstrap")
           => failures <= crashes + IF pc = "note" THEN 1 ELSE 0

Flags ==
    /\ began \in BOOLEAN /\ testsRun \in BOOLEAN /\ diffStep \in BOOLEAN
    /\ observedStep \in BOOLEAN /\ torn \in BOOLEAN
    /\ seenDiff \in BOOLEAN /\ seenTests \in BOOLEAN /\ observed \in BOOLEAN
    /\ pauseRequested \in BOOLEAN /\ cancelled \in BOOLEAN /\ ok \in BOOLEAN

Places ==
    /\ status \in Resumable \cup {"failed"}
    /\ changed \subseteq Files /\ edited \subseteq Files
    /\ snapshot \in [Files -> {"none", "original", "edited"}]
    /\ lastInspection \in Inspections \cup {"none"}
    /\ pc \in Steps \cup Over /\ act \in Actions \cup {"none", "bootstrap"}

Counters == failures \in 0..(MaxFailed + crashes) /\ crashes \in 0..MaxCrashes /\ owed \in 0..1

IInv == /\ Flags /\ Places /\ Counters
        /\ ActInStep /\ FilesInOrder /\ JournalAhead /\ OwedInStep /\ FailuresInStep

-----------------------------------------------------------------------------
\* The initial states satisfy it.
\* The initial states satisfy it.
THEOREM InitInvariant == Init => IInv
<1> USE ControllerAssumption DEF Files, Steps, Over, Resumable, Actions, Inspections, Runs, NeedTests
<1> SUFFICES ASSUME Init PROVE IInv
    OBVIOUS
<1>1. Flags
    BY DEF Init, Flags
<1>2. Places
    BY DEF Init, Places
<1>3. Counters
    BY DEF Init, Counters
<1>4. ActInStep
    BY DEF Init, ActInStep
<1>5. FilesInOrder
    BY DEF Init, FilesInOrder, GateOpen
<1>6. JournalAhead
    BY DEF Init, JournalAhead
<1>7. OwedInStep
    BY DEF Init, OwedInStep
<1>8. FailuresInStep
    BY DEF Init, FailuresInStep
<1> QED
    BY <1>1, <1>2, <1>3, <1>4, <1>5, <1>6, <1>7, <1>8 DEF IInv

\* Every step keeps it: one case per action, and one step per part where a part is disturbed.
LEMMA StepInvariant == IInv /\ [Next]_vars => IInv'
<1> SUFFICES ASSUME IInv, [Next]_vars PROVE IInv'
    OBVIOUS
<1> USE ControllerAssumption DEF Files, Steps, Over, Resumable, Actions, Inspections, Runs, NeedTests
<1>0. Flags /\ Places /\ Counters /\ ActInStep /\ FilesInOrder /\ JournalAhead /\ OwedInStep /\ FailuresInStep
    BY DEF IInv
<1>1. CASE Begin
    BY <1>0, <1>1 DEF IInv, Flags, Places, Counters, ActInStep, FilesInOrder, GateOpen,
        JournalAhead, OwedInStep, FailuresInStep, Begin, StopSeen, End, stepVars,
        fileVars, gateVars, signalVars
<1>2. CASE Bootstrap
  <2>1. Flags'
      BY <1>0, <1>2 DEF Flags, Bootstrap, stepVars, fileVars, gateVars, signalVars
  <2>2. JournalAhead'
      BY <1>0, <1>2 DEF Flags, Places, ActInStep, JournalAhead, Bootstrap, stepVars,
          fileVars, gateVars, signalVars
  <2>3. Places' /\ ActInStep' /\ FilesInOrder'
      BY <1>0, <1>2 DEF Places, ActInStep, Flags, FilesInOrder, GateOpen,
          JournalAhead, Bootstrap, stepVars, fileVars, gateVars, signalVars
  <2>4. Counters' /\ OwedInStep' /\ FailuresInStep'
      BY <1>0, <1>2 DEF Counters, Places, ActInStep, OwedInStep, FailuresInStep,
          Flags, Bootstrap, stepVars, fileVars, gateVars, signalVars
  <2> QED
      BY <2>1, <2>2, <2>3, <2>4 DEF IInv
<1>3. CASE Gate
  <2>1. Flags'
      BY <1>0, <1>3 DEF Flags, Gate, AtLimit, End, stepVars, fileVars, gateVars,
          signalVars
  <2>2. JournalAhead'
      BY <1>0, <1>3 DEF Flags, Places, ActInStep, JournalAhead, Gate, AtLimit, End,
          stepVars, fileVars, gateVars, signalVars
  <2>3. Places' /\ ActInStep' /\ FilesInOrder'
      BY <1>0, <1>3 DEF Places, ActInStep, Flags, FilesInOrder, GateOpen,
          JournalAhead, Gate, AtLimit, End, stepVars, fileVars, gateVars, signalVars
  <2>4. Counters' /\ OwedInStep' /\ FailuresInStep'
      BY <1>0, <1>3 DEF Counters, Places, ActInStep, OwedInStep, FailuresInStep,
          Flags, Gate, AtLimit, End, stepVars, fileVars, gateVars, signalVars
  <2> QED
      BY <2>1, <2>2, <2>3, <2>4 DEF IInv
<1>4. CASE Chat
  <2>1. Flags'
      BY <1>0, <1>4 DEF Flags, Chat, Repeated, stepVars, fileVars, gateVars,
          signalVars
  <2>2. JournalAhead'
      BY <1>0, <1>4 DEF Flags, Places, ActInStep, JournalAhead, Chat, Repeated,
          stepVars, fileVars, gateVars, signalVars
  <2>3. Places' /\ ActInStep' /\ FilesInOrder'
      BY <1>0, <1>4 DEF Places, ActInStep, Flags, FilesInOrder, GateOpen,
          JournalAhead, Chat, Repeated, stepVars, fileVars, gateVars, signalVars
  <2>4. Counters' /\ OwedInStep' /\ FailuresInStep'
      BY <1>0, <1>4 DEF Counters, Places, ActInStep, OwedInStep, FailuresInStep,
          Flags, Chat, Repeated, stepVars, fileVars, gateVars, signalVars
  <2> QED
      BY <2>1, <2>2, <2>3, <2>4 DEF IInv
<1>5. CASE Execute
  <2>a. (pc' = "record" /\ UNCHANGED <<status, owed>>) \/ Raises \/ Escapes
      BY <1>5 DEF Execute
  <2>b. /\ pc = "execute" /\ act \notin Files
        /\ UNCHANGED <<began, failures, act, crashes>>
      BY <1>5 DEF Execute, stepVars
  <2>1. Flags'
      BY <1>0, <1>5 DEF Flags, Execute, Raises, Escapes, End, stepVars, fileVars,
          gateVars, signalVars
  <2>2. Places'
      BY <1>0, <1>5 DEF Places, ActInStep, Execute, Raises, Escapes, End, stepVars,
          fileVars, gateVars, signalVars
  <2>3. Counters'
      BY <1>0, <2>a, <2>b DEF Counters, Places, ActInStep, OwedInStep, FailuresInStep,
          Raises, Escapes, End
  <2>4. ActInStep'
      BY <1>0, <1>5 DEF Flags, Places, ActInStep, Execute, Raises, Escapes, End,
          stepVars, fileVars, gateVars, signalVars
  <2>5. FilesInOrder'
      BY <1>0, <1>5 DEF Flags, Places, ActInStep, FilesInOrder, GateOpen,
          JournalAhead, Execute, Raises, Escapes, End, stepVars, fileVars, gateVars,
          signalVars
  <2>6. JournalAhead'
      BY <1>0, <1>5 DEF Flags, Places, ActInStep, JournalAhead, Execute, Raises,
          Escapes, End, stepVars, fileVars, gateVars, signalVars
  <2>7. OwedInStep'
      BY <1>0, <2>a, <2>b DEF Counters, Places, ActInStep, OwedInStep, Raises,
          Escapes, End
  <2>8. FailuresInStep'
      BY <1>0, <1>5 DEF Flags, Counters, Places, ActInStep, FailuresInStep, Execute,
          Raises, Escapes, End, stepVars, fileVars, gateVars, signalVars
  <2> QED
      BY <2>1, <2>2, <2>3, <2>4, <2>5, <2>6, <2>7, <2>8 DEF IInv
<1>6. CASE Snapshot
  <2>1. Flags'
      BY <1>0, <1>6 DEF Flags, Snapshot, SnapshotOf, ContentOf, Raises, stepVars,
          fileVars, gateVars, signalVars
  <2>2. JournalAhead'
      BY <1>0, <1>6 DEF Flags, Places, ActInStep, JournalAhead, Snapshot, SnapshotOf,
          ContentOf, Raises, stepVars, fileVars, gateVars, signalVars
  <2>3. Places' /\ ActInStep' /\ FilesInOrder'
      BY <1>0, <1>6 DEF Places, ActInStep, Flags, FilesInOrder, GateOpen,
          JournalAhead, Snapshot, SnapshotOf, ContentOf, Raises, stepVars, fileVars,
          gateVars, signalVars
  <2>4. Counters' /\ OwedInStep' /\ FailuresInStep'
      BY <1>0, <1>6 DEF Counters, Places, ActInStep, OwedInStep, FailuresInStep,
          Flags, Snapshot, SnapshotOf, ContentOf, Raises, stepVars, fileVars,
          gateVars, signalVars
  <2> QED
      BY <2>1, <2>2, <2>3, <2>4 DEF IInv
<1>7. CASE ListFile
    BY <1>0, <1>7 DEF IInv, Flags, Places, Counters, ActInStep, FilesInOrder, GateOpen,
        JournalAhead, OwedInStep, FailuresInStep, ListFile, Listed, stepVars, fileVars,
        gateVars, signalVars
<1>8. CASE WriteFile
  <2>1. Flags'
      BY <1>0, <1>8 DEF Flags, WriteFile, Raises, Escapes, End, stepVars, fileVars,
          gateVars, signalVars
  <2>2. JournalAhead'
      BY <1>0, <1>8 DEF Flags, Places, ActInStep, JournalAhead, WriteFile, Raises,
          Escapes, End, stepVars, fileVars, gateVars, signalVars
  <2>3. Places' /\ ActInStep' /\ FilesInOrder'
      BY <1>0, <1>8 DEF Places, ActInStep, Flags, FilesInOrder, GateOpen,
          JournalAhead, WriteFile, Raises, Escapes, End, stepVars, fileVars, gateVars,
          signalVars
  <2>4. Counters' /\ OwedInStep' /\ FailuresInStep'
      BY <1>0, <1>8 DEF Counters, Places, ActInStep, OwedInStep, FailuresInStep,
          Flags, WriteFile, Raises, Escapes, End, stepVars, fileVars, gateVars,
          signalVars
  <2> QED
      BY <2>1, <2>2, <2>3, <2>4 DEF IInv
<1>9. CASE Record
  <2>1. Flags'
      BY <1>0, <1>9 DEF Flags, Record, stepVars, fileVars, gateVars, signalVars
  <2>2. JournalAhead'
      BY <1>0, <1>9 DEF Flags, Places, ActInStep, JournalAhead, Record, stepVars,
          fileVars, gateVars, signalVars
  <2>3. Places' /\ ActInStep' /\ FilesInOrder'
      BY <1>0, <1>9 DEF Places, ActInStep, Flags, FilesInOrder, GateOpen,
          JournalAhead, Record, stepVars, fileVars, gateVars, signalVars
  <2>4. Counters' /\ OwedInStep' /\ FailuresInStep'
      BY <1>0, <1>9 DEF Counters, Places, ActInStep, OwedInStep, FailuresInStep,
          Flags, Record, stepVars, fileVars, gateVars, signalVars
  <2> QED
      BY <2>1, <2>2, <2>3, <2>4 DEF IInv
<1>10. CASE Count
  <2>1. Flags'
      BY <1>0, <1>10 DEF Flags, Count, ObservedAfter, stepVars, fileVars, gateVars,
          signalVars
  <2>2. Places'
      BY <1>0, <1>10 DEF Places, ActInStep, Count, ObservedAfter, stepVars, fileVars,
          gateVars, signalVars
  <2>3. Counters'
      BY <1>0, <1>10 DEF Counters, Places, ActInStep, OwedInStep, FailuresInStep,
          Count, ObservedAfter, stepVars, fileVars, gateVars, signalVars
  <2>4. ActInStep'
      BY <1>0, <1>10 DEF Flags, Places, ActInStep, Count, ObservedAfter, stepVars,
          fileVars, gateVars, signalVars
  <2>5. FilesInOrder'
      BY <1>0, <1>10 DEF Flags, Places, ActInStep, FilesInOrder, GateOpen,
          JournalAhead, Count, ObservedAfter, stepVars, fileVars, gateVars, signalVars
  <2>6. JournalAhead'
      BY <1>0, <1>10 DEF Flags, Places, ActInStep, JournalAhead, Count, ObservedAfter,
          stepVars, fileVars, gateVars, signalVars
  <2>7. OwedInStep'
      BY <1>0, <1>10 DEF Counters, Places, ActInStep, OwedInStep, Count,
          ObservedAfter, stepVars, fileVars, gateVars, signalVars
  <2>8. FailuresInStep'
      BY <1>0, <1>10 DEF Flags, Counters, Places, ActInStep, FailuresInStep, Count,
          ObservedAfter, stepVars, fileVars, gateVars, signalVars
  <2> QED
      BY <2>1, <2>2, <2>3, <2>4, <2>5, <2>6, <2>7, <2>8 DEF IInv
<1>11. CASE Conclude
  <2>1. Flags'
      BY <1>0, <1>11 DEF Flags, Conclude, MayReport, CompletionAllowed, Return,
          Continue, AtLimit, End, stepVars, fileVars, gateVars, signalVars
  <2>2. JournalAhead'
      BY <1>0, <1>11 DEF Flags, Places, ActInStep, JournalAhead, Conclude, MayReport,
          CompletionAllowed, Return, Continue, AtLimit, End, stepVars, fileVars,
          gateVars, signalVars
  <2>3. Places' /\ ActInStep' /\ FilesInOrder'
      BY <1>0, <1>11 DEF Places, ActInStep, Flags, FilesInOrder, GateOpen,
          JournalAhead, Conclude, MayReport, CompletionAllowed, Return, Continue,
          AtLimit, End, stepVars, fileVars, gateVars, signalVars
  <2>4. Counters' /\ OwedInStep' /\ FailuresInStep'
      BY <1>0, <1>11 DEF Counters, Places, ActInStep, OwedInStep, FailuresInStep,
          Flags, Conclude, MayReport, CompletionAllowed, Return, Continue, AtLimit,
          End, stepVars, fileVars, gateVars, signalVars
  <2> QED
      BY <2>1, <2>2, <2>3, <2>4 DEF IInv
<1>12. CASE Fail
    BY <1>0, <1>12 DEF IInv, Flags, Places, Counters, ActInStep, FilesInOrder, GateOpen,
        JournalAhead, OwedInStep, FailuresInStep, Fail, FailuresAfter, stepVars,
        fileVars, gateVars, signalVars
<1>13. CASE Note
  <2>1. Flags'
      BY <1>0, <1>13 DEF Flags, Note, Return, Continue, AtLimit, End, stepVars,
          fileVars, gateVars, signalVars
  <2>2. JournalAhead'
      BY <1>0, <1>13 DEF Flags, Places, ActInStep, JournalAhead, Note, Return,
          Continue, AtLimit, End, stepVars, fileVars, gateVars, signalVars
  <2>3. Places' /\ ActInStep' /\ FilesInOrder'
      BY <1>0, <1>13 DEF Places, ActInStep, Flags, FilesInOrder, GateOpen,
          JournalAhead, Note, Return, Continue, AtLimit, End, stepVars, fileVars,
          gateVars, signalVars
  <2>4. Counters' /\ OwedInStep' /\ FailuresInStep'
      BY <1>0, <1>13 DEF Counters, Places, ActInStep, OwedInStep, FailuresInStep,
          Flags, Note, Return, Continue, AtLimit, End, stepVars, fileVars, gateVars,
          signalVars
  <2> QED
      BY <2>1, <2>2, <2>3, <2>4 DEF IInv
<1>14. CASE Cancel
  <2>1. Flags'
      BY <1>0, <1>14 DEF Flags, Cancel, stepVars, fileVars, gateVars, signalVars
  <2>2. JournalAhead'
      BY <1>0, <1>14 DEF Flags, Places, ActInStep, JournalAhead, Cancel, stepVars,
          fileVars, gateVars, signalVars
  <2>3. Places' /\ ActInStep' /\ FilesInOrder'
      BY <1>0, <1>14 DEF Places, ActInStep, Flags, FilesInOrder, GateOpen,
          JournalAhead, Cancel, stepVars, fileVars, gateVars, signalVars
  <2>4. Counters' /\ OwedInStep' /\ FailuresInStep'
      BY <1>0, <1>14 DEF Counters, Places, ActInStep, OwedInStep, FailuresInStep,
          Flags, Cancel, stepVars, fileVars, gateVars, signalVars
  <2> QED
      BY <2>1, <2>2, <2>3, <2>4 DEF IInv
<1>15. CASE Pause
    BY <1>0, <1>15 DEF IInv, Flags, Places, Counters, ActInStep, FilesInOrder, GateOpen,
        JournalAhead, OwedInStep, FailuresInStep, Pause, stepVars, fileVars, gateVars,
        signalVars
<1>16. CASE Unpause
  <2>1. Flags'
      BY <1>0, <1>16 DEF Flags, Unpause, stepVars, fileVars, gateVars, signalVars
  <2>2. JournalAhead'
      BY <1>0, <1>16 DEF Flags, Places, ActInStep, JournalAhead, Unpause, stepVars,
          fileVars, gateVars, signalVars
  <2>3. Places' /\ ActInStep' /\ FilesInOrder'
      BY <1>0, <1>16 DEF Places, ActInStep, Flags, FilesInOrder, GateOpen,
          JournalAhead, Unpause, stepVars, fileVars, gateVars, signalVars
  <2>4. Counters' /\ OwedInStep' /\ FailuresInStep'
      BY <1>0, <1>16 DEF Counters, Places, ActInStep, OwedInStep, FailuresInStep,
          Flags, Unpause, stepVars, fileVars, gateVars, signalVars
  <2> QED
      BY <2>1, <2>2, <2>3, <2>4 DEF IInv
<1>17. CASE Crash
  <2>1. Flags'
      BY <1>0, <1>17 DEF Flags, Crash, Saving, stepVars, fileVars, gateVars,
          signalVars
  <2>2. JournalAhead'
      BY <1>0, <1>17 DEF Flags, Places, ActInStep, JournalAhead, Crash, Saving,
          stepVars, fileVars, gateVars, signalVars
  <2>3. Places' /\ ActInStep' /\ FilesInOrder'
      BY <1>0, <1>17 DEF Places, ActInStep, Flags, FilesInOrder, GateOpen,
          JournalAhead, Crash, Saving, stepVars, fileVars, gateVars, signalVars
  <2>4. Counters' /\ OwedInStep' /\ FailuresInStep'
      BY <1>0, <1>17 DEF Counters, Places, ActInStep, OwedInStep, FailuresInStep,
          Flags, Crash, Saving, stepVars, fileVars, gateVars, signalVars
  <2> QED
      BY <2>1, <2>2, <2>3, <2>4 DEF IInv
<1>18. CASE Resume
    BY <1>0, <1>18 DEF IInv, Flags, Places, Counters, ActInStep, FilesInOrder, GateOpen,
        JournalAhead, OwedInStep, FailuresInStep, Resume, stepVars, fileVars, gateVars,
        signalVars
<1>19. CASE UNCHANGED vars
  <2>1. Flags'
      BY <1>0, <1>19 DEF Flags, vars, stepVars, fileVars, gateVars, signalVars
  <2>2. JournalAhead'
      BY <1>0, <1>19 DEF Flags, Places, ActInStep, JournalAhead, vars, stepVars,
          fileVars, gateVars, signalVars
  <2>3. Places' /\ ActInStep' /\ FilesInOrder'
      BY <1>0, <1>19 DEF Places, ActInStep, Flags, FilesInOrder, GateOpen,
          JournalAhead, vars, stepVars, fileVars, gateVars, signalVars
  <2>4. Counters' /\ OwedInStep' /\ FailuresInStep'
      BY <1>0, <1>19 DEF Counters, Places, ActInStep, OwedInStep, FailuresInStep,
          Flags, vars, stepVars, fileVars, gateVars, signalVars
  <2> QED
      BY <2>1, <2>2, <2>3, <2>4 DEF IInv
<1> QED
    BY <1>1, <1>2, <1>3, <1>4, <1>5, <1>6, <1>7, <1>8, <1>9, <1>10, <1>11, <1>12, <1>13, <1>14, <1>15, <1>16, <1>17, <1>18, <1>19 DEF Next, Turn

-----------------------------------------------------------------------------
\* The inductive invariant holds in every reachable state.
THEOREM InductiveInvariant == Spec => []IInv
<1>1. Init => IInv
    BY InitInvariant
<1>2. IInv /\ [Next]_vars => IInv'
    BY StepInvariant
<1> QED
    BY <1>1, <1>2, PTL DEF Spec

\* Every variable keeps its type, the failure counter its limit.
THEOREM TypeCorrect == Spec => []TypeOK
<1>1. IInv => TypeOK
    BY DEF IInv, TypeOK, Flags, Places, Counters
<1> QED
    BY <1>1, InductiveInvariant, PTL

\* Work handed over for approval passed the gate: what was edited is listed, so the gate looked
\* at all of it.
THEOREM ReadyIsReviewed == Spec => []ReadyWorkWasReviewed
<1>1. IInv => ReadyWorkWasReviewed
    BY DEF IInv, FilesInOrder, GateOpen, ReadyWorkWasReviewed
<1> QED
    BY <1>1, InductiveInvariant, PTL

\* The journal can give back every file as the task found it.
THEOREM OriginalsKept == Spec => []OriginalsAreKept
<1>1. IInv => OriginalsAreKept
    BY DEF IInv, FilesInOrder, OriginalsAreKept
<1> QED
    BY <1>1, InductiveInvariant, PTL

\* A controller rebuilt from the journal between two turns is the one that died.
THEOREM RestartChangesNothing == Spec => []RestartIsTransparent
<1>1. IInv => RestartIsTransparent
    BY DEF IInv, JournalAhead, RestartIsTransparent
<1> QED
    BY <1>1, InductiveInvariant, PTL

\* Every answer of the model is reported to its client exactly once.
THEOREM AnswersAreReported == Spec => []EveryAnswerIsReported
<1>1. IInv => EveryAnswerIsReported
    BY DEF IInv, OwedInStep, EveryAnswerIsReported
<1> QED
    BY <1>1, InductiveInvariant, PTL
=============================================================================
