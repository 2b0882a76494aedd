--------------------------- MODULE LegacyMigration ---------------------------
(***************************************************************************)
(* The import of a standalone Local Codex installation into HCS            *)
(* (migrate_legacy_install), which every start of the desktop host runs    *)
(* until a receipt says that it is done.  It writes one HCS file after     *)
(* another, each by an atomic rename, and the receipt last; the process    *)
(* may die, or a write may fail, between any two of them.  Between two     *)
(* starts HCS works on the files, and a file may be damaged and repaired.  *)
(* One host runs at a time: while it migrates nothing else writes.         *)
(***************************************************************************)
EXTENDS Naturals, FiniteSets

CONSTANTS
    Workspaces,     \* workspace ids
    QueueEntries,   \* tasks and workspace locks of the task queue
    Journals,       \* names of task journals
    MaxEdits,       \* bound: entries HCS writes or removes
    MaxDamages,     \* bound: files damaged
    MaxInterrupts   \* bound: runs that are interrupted, and checks that cannot run

\* An entry of an HCS file.  Journals are files of their own.
Items == ({"workspaces"} \X Workspaces)
            \cup ({"tasks"} \X QueueEntries)
            \cup ({"journals"} \X Journals)
            \cup {<<"tornado", "state">>, <<"config", "preferences">>}
FileOf(i) == IF i[1] = "journals" THEN i ELSE <<i[1]>>
Files     == {FileOf(i) : i \in Items}
Config    == <<"config">>
ItemsOf(f) == {i \in Items : FileOf(i) = f}

\* "legacy" was copied from the installation, "leaked" too but with a credential in its text
Values == {"none", "legacy", "leaked", "hcs"}
Stages == {"idle", "workspaces", "tasks", "journals", "config", "receipt"}

VARIABLES
    installed,      \* a valid installation is found
    legacy,         \* its entries that can be read and pass the loader
    secretAt,       \* the file of the installation that declares a credential
    disk,           \* the entries of the HCS files
    bad,            \* HCS files that cannot be loaded
    receipt,        \* receipt.json: "none", "no_source" or "completed"
    stage,          \* where the run is, "idle" when none runs
    journalsLeft,   \* journals the run has not come to
    incomplete,     \* a file of the run was preserved instead of merged
    known,          \* the files whose credentials the run has learned
    removed,        \* entries HCS removed or changed itself
    refused,        \* legacy entries left out: their workspace conflicted, their check failed
    edits, damages, interrupts

files == <<disk, bad, receipt>>
progress == <<stage, journalsLeft, incomplete, known>>
source == <<installed, legacy, secretAt>>
bounds == <<edits, damages, interrupts>>
vars == <<source, files, progress, removed, refused, bounds>>

\* The configuration of a valid installation is readable, so its preferences can be imported.
Init ==
    /\ installed \in BOOLEAN
    /\ legacy \in {items \in SUBSET Items : <<"config", "preferences">> \in items}
    /\ secretAt \in {FileOf(i) : i \in legacy}
    /\ disk = [i \in Items |-> "none"] /\ bad = {} /\ receipt = "none"
    /\ stage = "idle" /\ journalsLeft = {} /\ incomplete = FALSE /\ known = {}
    /\ removed = {} /\ refused = {}
    /\ edits = 0 /\ damages = 0 /\ interrupts = 0

-----------------------------------------------------------------------------
(* A start of the host *)

NeedsRun_AnyReceipt == receipt = "none"
NeedsRun == receipt # "completed"

\* No installation is found: the receipt says so, and does not keep a later start from looking.
FindNothing ==
    /\ stage = "idle" /\ NeedsRun /\ ~installed
    /\ receipt' = "no_source"
    /\ UNCHANGED <<source, disk, bad, progress, removed, refused, bounds>>

Learned_ConfigOnly == {Config}
Learned == {FileOf(i) : i \in legacy}

\* Every readable document of the installation is searched for credentials before the first
\* category is written.  With an unreadable HCS configuration the run ends here.
Begin ==
    /\ stage = "idle" /\ NeedsRun /\ installed
    /\ Config \notin bad
    /\ stage' = "workspaces"
    /\ journalsLeft' = {i[2] : i \in {i \in legacy : i[1] = "journals"}}
    /\ incomplete' = FALSE
    /\ known' = Learned
    /\ UNCHANGED <<source, files, removed, refused, bounds>>

Copied == IF secretAt \in known THEN "legacy" ELSE "leaked"

\* HCS may have registered the directory of a legacy workspace under another id.
Conflicts(i) == i[1] = "workspaces" /\ \E w \in Workspaces :
                    w # i[2] /\ disk[<<"workspaces", w>>] = "hcs"

\* _fill_missing, and the merges of the workspaces and of the task queue
Merged(items) ==
    [i \in Items |-> IF i \in items /\ disk[i] = "none" THEN Copied ELSE disk[i]]

ImportFile_OverDamaged(f, conflicting) ==
    /\ disk' = [i \in Items |-> IF f \in bad /\ FileOf(i) = f
                               THEN IF i \in legacy THEN Copied ELSE "none"
                               ELSE Merged((legacy \cap ItemsOf(f)) \ conflicting)[i]]
    /\ UNCHANGED incomplete

\* A file that cannot be loaded is preserved, and the run will not be complete.
ImportFile(f, conflicting) ==
    IF f \in bad /\ legacy \cap ItemsOf(f) # {}
    THEN incomplete' = TRUE /\ UNCHANGED disk
    ELSE /\ disk' = Merged((legacy \cap ItemsOf(f)) \ conflicting)
         /\ UNCHANGED incomplete

\* A document is checked by its loader on a temporary file.  When that cannot be written the
\* document counts as invalid: the installation's, or the merged one, is left out for good,
\* and one of HCS is preserved as a damaged one is.
CheckFails(f) ==
    /\ interrupts < MaxInterrupts /\ interrupts' = interrupts + 1
    /\ legacy \cap ItemsOf(f) # {}
    /\ \/ /\ refused' = refused \cup {i \in legacy \cap ItemsOf(f) : disk[i] = "none"}
          /\ UNCHANGED incomplete
       \/ /\ \E i \in ItemsOf(f) : disk[i] # "none"
          /\ incomplete' = TRUE /\ UNCHANGED refused
    /\ UNCHANGED <<disk, edits, damages>>

ImportWorkspaces ==
    /\ stage = "workspaces" /\ stage' = "tasks"
    /\ \/ /\ \E conflicting \in SUBSET {i \in legacy : Conflicts(i) /\ disk[i] = "none"} :
                /\ ImportFile(<<"workspaces">>, conflicting)
                /\ refused' = IF <<"workspaces">> \in bad THEN refused
                             ELSE refused \cup conflicting
          /\ UNCHANGED bounds
       \/ CheckFails(<<"workspaces">>)
    /\ UNCHANGED <<source, bad, receipt, journalsLeft, known, removed>>

ImportTasks ==
    /\ stage = "tasks" /\ stage' = "journals"
    /\ \/ ImportFile(<<"tasks">>, {}) /\ UNCHANGED <<refused, bounds>>
       \/ CheckFails(<<"tasks">>)
    /\ UNCHANGED <<source, bad, receipt, journalsLeft, known, removed>>

\* One journal after another; one that HCS has is kept whatever it holds.
ImportJournal(j) ==
    /\ stage = "journals" /\ j \in journalsLeft
    /\ journalsLeft' = journalsLeft \ {j}
    /\ \/ ImportFile(<<"journals", j>>, {}) /\ UNCHANGED <<refused, bounds>>
       \/ CheckFails(<<"journals", j>>)
    /\ UNCHANGED <<source, bad, receipt, stage, known, removed>>

ImportTornado ==
    /\ stage = "journals" /\ journalsLeft = {}
    /\ stage' = "config"
    /\ ImportFile(<<"tornado">>, {})
    /\ UNCHANGED <<source, bad, receipt, journalsLeft, known, removed, refused, bounds>>

\* The preferences and the e-mail settings, merged into the configuration read at the start
ImportConfig ==
    /\ stage = "config" /\ stage' = "receipt"
    /\ ImportFile(Config, {})
    /\ UNCHANGED <<source, bad, receipt, journalsLeft, known, removed, refused, bounds>>

WritesReceipt == ~incomplete

End ==
    /\ stage = "receipt" /\ stage' = "idle"
    /\ receipt' = IF WritesReceipt THEN "completed" ELSE receipt
    /\ incomplete' = FALSE /\ known' = {}
    /\ UNCHANGED <<source, disk, bad, journalsLeft, removed, refused, bounds>>

\* The process dies, or a write fails and the host goes on without the rest.
Interrupted ==
    /\ stage # "idle" /\ interrupts < MaxInterrupts
    /\ interrupts' = interrupts + 1
    /\ stage' = "idle" /\ journalsLeft' = {} /\ incomplete' = FALSE /\ known' = {}
    /\ UNCHANGED <<source, files, removed, refused, edits, damages>>

-----------------------------------------------------------------------------
(* Between two starts *)

\* HCS registers, queues, saves or configures something of its own.
HcsWrites(i) ==
    /\ stage = "idle" /\ FileOf(i) \notin bad /\ edits < MaxEdits
    /\ edits' = edits + 1
    /\ disk' = [disk EXCEPT ![i] = "hcs"]
    /\ UNCHANGED <<source, bad, receipt, progress, removed, refused, damages, interrupts>>

\* HCS finishes with an entry: a lock is released, a workspace removed, a setting cleared.
HcsRemoves(i) ==
    /\ stage = "idle" /\ FileOf(i) \notin bad /\ edits < MaxEdits
    /\ disk[i] # "none"
    /\ edits' = edits + 1
    /\ disk' = [disk EXCEPT ![i] = "none"]
    /\ removed' = removed \cup {i}
    /\ UNCHANGED <<source, bad, receipt, progress, refused, damages, interrupts>>

\* A file is damaged by a crash or by hand, and repaired by hand.
Damage(f) ==
    /\ stage = "idle" /\ f \notin bad /\ damages < MaxDamages
    /\ \E i \in ItemsOf(f) : disk[i] # "none"
    /\ damages' = damages + 1
    /\ bad' = bad \cup {f}
    /\ UNCHANGED <<source, disk, receipt, progress, removed, refused, edits, interrupts>>

Repair(f) ==
    /\ stage = "idle" /\ f \in bad
    /\ bad' = bad \ {f}
    /\ UNCHANGED <<source, disk, receipt, progress, removed, refused, bounds>>

\* The owner puts an installation where it is found.
Install ==
    /\ stage = "idle" /\ ~installed
    /\ installed' = TRUE
    /\ UNCHANGED <<legacy, secretAt, files, progress, removed, refused, bounds>>

Import == \/ ImportWorkspaces \/ ImportTasks \/ ImportTornado \/ ImportConfig \/ End
          \/ \E j \in Journals : ImportJournal(j)
HostStart == FindNothing \/ Begin
Next == \/ HostStart \/ Import \/ Interrupted \/ Install
        \/ \E i \in Items : HcsWrites(i) \/ HcsRemoves(i)
        \/ \E f \in Files : Damage(f) \/ Repair(f)

Spec == Init /\ [][Next]_vars

\* HCS is started again and again, and a run that is not interrupted goes on.
FairSpec == Spec /\ WF_vars(HostStart) /\ WF_vars(Import)
-----------------------------------------------------------------------------
(* Correctness *)

TypeOK ==
    /\ installed \in BOOLEAN /\ legacy \subseteq Items /\ secretAt \in Files
    /\ disk \in [Items -> Values] /\ bad \subseteq Files
    /\ receipt \in {"none", "no_source", "completed"}
    /\ stage \in Stages /\ journalsLeft \subseteq Journals
    /\ incomplete \in BOOLEAN /\ known \subseteq Files
    /\ removed \subseteq Items /\ refused \subseteq Items
    /\ edits \in Nat /\ damages \in Nat /\ interrupts \in Nat

\* _fill_missing: "Retain HCS-owned choices while filling only absent values", and "existing ...
\* is not loadable and was preserved": no run, however often it was interrupted and repeated,
\* changes an entry that is there, in a sound file or in a damaged one.  The design document
\* says the opposite of the preferences: LegacyChoicesWin.
HcsChoicesAreKept ==
    [][\A i \in Items : stage # "idle" /\ disk[i] # "none" => disk'[i] = disk[i]]_vars

\* "It merges field-by-field: explicit legacy choices win, while current HCS defaults supply
\* missing fields."  No run checks it: the code and its tests keep what HCS has chosen.
LegacyChoicesWin ==
    [][stage = "config" /\ stage' = "receipt" /\ Config \notin bad
          => disk'[<<"config", "preferences">>] \in {"legacy", "leaked"}]_vars

\* what the import of an entry is spared: HCS has it, had it, or could not take it
Settled(i) == disk[i] # "none" \/ i \in removed \/ i \in refused

\* The receipt ends the import for ever, so nothing that could be imported is missing when it
\* is there: not what an earlier run was interrupted before, not what a damaged file held up.
CompletedIsComplete == receipt = "completed" => \A i \in legacy : Settled(i)

\* "A journal copied early must still redact a credential declared in a later file."
NoSecretIsCopied == \A i \in Items : disk[i] # "leaked"

\* An installation that is found is imported in the end, whole, unless a damaged file is never
\* repaired: a receipt that there was none, and interrupted runs, do not prevent it.
MigrationCompletes ==
    installed ~> (receipt = "completed" /\ CompletedIsComplete) \/ bad # {}

\* "HCS becomes authoritative afterward": what HCS has removed is not imported a second time.
RemovedStaysRemoved ==
    [][\A i \in removed : stage # "idle" /\ disk[i] = "none" => disk'[i] = "none"]_vars
=============================================================================
