------------------------------ MODULE HkrLibrary -------------------------------
(***************************************************************************)
(* The Homestead Knowledge Repository (hkr.py): one file per document, the *)
(* SQLite catalog, the ZIP volumes and the manifest.  Each request runs in *)
(* a thread of its own: a collection stores what it fetched and harvests   *)
(* algorithms from it, a build packs all documents into volumes, a scan    *)
(* harvests again.  Nothing but SQLite's write lock keeps them apart, and  *)
(* a writer gives up when the lock stays taken for five seconds.  A        *)
(* document stands for its bytes, one algorithm for all of them.  Files    *)
(* follow Windows' rules: an open file can be truncated by another writer, *)
(* but neither renamed nor deleted.                                        *)
(***************************************************************************)
EXTENDS Naturals, FiniteSets

CONSTANTS
    Docs,           \* documents, by digest
    Requests        \* requests to the server or from the HKR window, each served once

ASSUME RequestsAssumption == Requests \subseteq Nat \ {0}

\* A build makes at most as many volumes as there are documents.
ASSUME DocsAssumption == IsFiniteSet(Docs)

NoRow    == 0 - 1
Unpacked == 0
Volumes  == 1..Cardinality(Docs)
NoFile   == {"no file"}
Nobody   == 0

VARIABLES
    object,         \* the file of each document: "none", "partial" or "whole"
    catalog,        \* its row: NoRow, Unpacked, or the number of its volume
    zip,            \* the documents in each volume, or NoFile
    manifest,       \* the documents in manifest.csv and CHECKSUMS.sha256
    algorithms,     \* the number of records of the algorithm
    lock,           \* who holds SQLite's write lock
    job,            \* what each request is doing
    raced,          \* history: documents two collections stored at the same time
    mixed           \* history: two harvests found no record at the same time

libraryVars == <<object, catalog, zip, manifest, algorithms, lock, job, raced, mixed>>
files       == <<object, zip>>
history     == <<raced, mixed>>

Idle  == [kind |-> "idle", step |-> "idle", doc |-> "none", todo |-> {}, vol |-> 1,
          packed |-> {}, known |-> FALSE, alone |-> TRUE]
Ended == [Idle EXCEPT !.step = "ended"]

Rows == {d \in Docs : catalog[d] # NoRow}

LibraryInit ==
    /\ \E old \in SUBSET Docs :
          /\ object = [d \in Docs |-> IF d \in old THEN "whole" ELSE "none"]
          /\ catalog = [d \in Docs |-> IF d \in old THEN Unpacked ELSE NoRow]
    /\ zip = [v \in Volumes |-> NoFile] /\ manifest = {} /\ algorithms = 0
    /\ lock = Nobody /\ job = [n \in Requests |-> Idle]
    /\ raced = {} /\ mixed = FALSE

At(n, kind, step) == job[n].kind \in kind /\ job[n].step = step
Go(n, j) == job' = [job EXCEPT ![n] = j]
GoTo(n, s) == Go(n, [job[n] EXCEPT !.step = s])

\* the thread returns; closing the connection rolls back and frees the lock
Return(n) == Go(n, Ended) /\ lock' = (IF lock = n THEN Nobody ELSE lock)

CanWrite(n) == lock \in {Nobody, n}
Commit == lock' = Nobody

-----------------------------------------------------------------------------
(* collect *)

\* the run is recorded, then the web is searched: the candidates are any documents
BeginCollect(n) ==
    /\ job[n] = Idle /\ CanWrite(n)
    /\ \E found \in SUBSET Docs :
          Go(n, [Idle EXCEPT !.kind = "collect", !.step = "next", !.todo = found])
    /\ UNCHANGED <<files, catalog, manifest, algorithms, lock, history>>

AfterCheck_InsertFirst == "insert"
AfterCheck == "open"

\* a candidate is fetched and looked up by its digest
FetchCandidate(n) ==
    /\ At(n, {"collect"}, "next")
    /\ \E d \in job[n].todo :
          LET rest == [job[n] EXCEPT !.todo = @ \ {d}]
          IN  \/ Go(n, rest)
              \/ /\ d \notin Rows
                 /\ Go(n, [rest EXCEPT !.doc = d, !.step = AfterCheck])
    /\ UNCHANGED <<files, catalog, manifest, algorithms, lock, history>>

Storing(m, d) == job[m].doc = d /\ At(m, {"collect"}, job[m].step)
                 /\ job[m].step \in {"open", "write", "insert"}

\* write_bytes truncates the file, then writes it
OpenObject(n) ==
    LET d == job[n].doc IN
    /\ At(n, {"collect"}, "open")
    /\ object' = [object EXCEPT ![d] = "partial"]
    /\ raced' = IF d \in Rows \/ \E m \in Requests \ {n} : Storing(m, d) THEN raced \cup {d} ELSE raced
    /\ GoTo(n, "write")
    /\ UNCHANGED <<zip, catalog, manifest, algorithms, lock, mixed>>

WriteObject(n) ==
    /\ At(n, {"collect"}, "write")
    /\ object' = [object EXCEPT ![job[n].doc] = "whole"]
    /\ GoTo(n, "insert")
    /\ UNCHANGED <<zip, catalog, manifest, algorithms, lock, history>>

\* the disk is full: the error ends the collection
WriteFails(n) ==
    /\ At(n, {"collect"}, "write")
    /\ Return(n)
    /\ UNCHANGED <<files, catalog, manifest, algorithms, history>>

\* The model has described the document, and its row is written: a digest is unique, so a
\* collection that lost a race for it ends with an error.
InsertDocument(n) ==
    LET d == job[n].doc IN
    /\ At(n, {"collect"}, "insert") /\ CanWrite(n)
    /\ \/ /\ d \notin Rows
          /\ catalog' = [catalog EXCEPT ![d] = Unpacked]
          /\ GoTo(n, "harvest") /\ Commit
       \/ /\ d \in Rows
          /\ Return(n) /\ UNCHANGED catalog
    /\ UNCHANGED <<files, manifest, algorithms, history>>

FinishCollect(n) ==
    /\ At(n, {"collect"}, "next") /\ job[n].todo = {} /\ CanWrite(n)
    /\ GoTo(n, "export") /\ Commit
    /\ UNCHANGED <<files, catalog, manifest, algorithms, history>>

-----------------------------------------------------------------------------
(* extract_algorithms_from_document, upsert_algorithm, scan_algorithms *)

BeginScan(n) ==
    /\ job[n] = Idle /\ Rows # {}
    /\ Go(n, [Idle EXCEPT !.kind = "scan", !.step = "next", !.todo = Rows])
    /\ UNCHANGED <<files, catalog, manifest, algorithms, lock, history>>

ScanNext(n) ==
    /\ At(n, {"scan"}, "next")
    /\ \/ /\ \E d \in job[n].todo :
                Go(n, [job[n] EXCEPT !.todo = @ \ {d}, !.doc = d, !.step = "harvest"])
          /\ UNCHANGED lock
       \/ job[n].todo = {} /\ Return(n)
    /\ UNCHANGED <<files, catalog, manifest, algorithms, history>>

\* the model found the algorithm in the text, or nothing; a record of it is looked up
Harvest(n) ==
    /\ At(n, {"collect", "scan"}, "harvest")
    /\ \/ GoTo(n, "next") /\ UNCHANGED mixed
       \/ /\ Go(n, [job[n] EXCEPT !.step = "record", !.known = (algorithms > 0)])
          /\ mixed' = (mixed \/ \E m \in Requests \ {n} :
                                   At(m, {"collect", "scan"}, "record") /\ ~job[m].known)
    /\ UNCHANGED <<files, catalog, manifest, algorithms, lock, raced>>

Inserts(n) == ~job[n].known

RecordAlgorithm(n) ==
    /\ At(n, {"collect", "scan"}, "record") /\ CanWrite(n)
    /\ algorithms' = IF Inserts(n) THEN algorithms + 1 ELSE algorithms
    /\ GoTo(n, "next") /\ Commit
    /\ UNCHANGED <<files, catalog, manifest, history>>

\* Both found no record and made up the same identifier: the INSERT fails, and its transaction
\* stays open.  A collection goes on and keeps the lock; the error ends a scan.
RecordCollides(n) ==
    /\ At(n, {"collect", "scan"}, "record") /\ CanWrite(n)
    /\ Inserts(n) /\ algorithms > 0
    /\ IF job[n].kind = "collect" THEN GoTo(n, "next") /\ lock' = n ELSE Return(n)
    /\ UNCHANGED <<files, catalog, manifest, algorithms, history>>

-----------------------------------------------------------------------------
(* build_volumes *)

Building(m) == job[m].kind = "build"

BeginBuild(n) ==
    /\ job[n] = Idle
    /\ LET others == {m \in Requests : Building(m)}
           j == [Idle EXCEPT !.kind = "build", !.step = "unlink", !.todo = Rows,
                             !.packed = Rows, !.alone = (others = {})]
       IN  job' = [m \in Requests |-> IF m = n THEN j
                                      ELSE IF m \in others THEN [job[m] EXCEPT !.alone = FALSE]
                                      ELSE job[m]]
    /\ UNCHANGED <<files, catalog, manifest, algorithms, lock, history>>

Open == {job[m].vol : m \in {k \in Requests : Building(k) /\ job[k].step \in {"update", "commit"}}}

\* the old volumes go; an open one cannot, and the error ends the build
UnlinkVolumes(n) ==
    /\ At(n, {"build"}, "unlink")
    /\ \E gone \in SUBSET (Volumes \ Open) :
          /\ Open = {} => gone = Volumes
          /\ zip' = [v \in Volumes |-> IF v \in gone THEN NoFile ELSE zip[v]]
    /\ IF Open = {} THEN GoTo(n, "clear") /\ UNCHANGED lock ELSE Return(n)
    /\ UNCHANGED <<object, catalog, manifest, algorithms, history>>

ClearRows(n) ==
    /\ At(n, {"build"}, "clear") /\ CanWrite(n)
    /\ catalog' = [d \in Docs |-> IF d \in Rows THEN Unpacked ELSE NoRow]
    /\ GoTo(n, "pack") /\ Commit
    /\ UNCHANGED <<files, manifest, algorithms, history>>

\* the next documents that fit; sizes are arbitrary
OpenVolume(n) ==
    /\ At(n, {"build"}, "pack") /\ job[n].todo # {}
    /\ zip' = [zip EXCEPT ![job[n].vol] = {}]
    /\ GoTo(n, "update")
    /\ UNCHANGED <<object, catalog, manifest, algorithms, lock, history>>

\* the first UPDATE takes the lock, and the volume is written while it is held
LockRows(n) ==
    /\ At(n, {"build"}, "update") /\ CanWrite(n)
    /\ lock' = n /\ GoTo(n, "commit")
    /\ UNCHANGED <<files, catalog, manifest, algorithms, history>>

Recorded_FirstOnly(bucket) == {d \in bucket : d = CHOOSE x \in bucket : TRUE}
Recorded(bucket) == bucket

CommitVolume(n) ==
    /\ At(n, {"build"}, "commit")
    /\ \E bucket \in (SUBSET job[n].todo) \ {{}} :
          /\ zip' = [zip EXCEPT ![job[n].vol] = bucket]
          /\ catalog' = [d \in Docs |-> IF d \in Recorded(bucket) THEN job[n].vol ELSE catalog[d]]
          /\ Go(n, [job[n] EXCEPT !.todo = @ \ bucket, !.vol = @ + 1, !.step = "pack"])
    /\ Commit
    /\ UNCHANGED <<object, manifest, algorithms, history>>

\* The disk is full, or an object's file is gone: the error ends the build inside the volume.
\* What was written of the volume stays, the rows of its documents are rolled back.
VolumeFails(n) ==
    /\ At(n, {"build"}, "commit")
    /\ \E written \in SUBSET job[n].todo : zip' = [zip EXCEPT ![job[n].vol] = written]
    /\ Return(n)
    /\ UNCHANGED <<object, catalog, manifest, algorithms, history>>

AllPacked(n) ==
    /\ At(n, {"build"}, "pack") /\ job[n].todo = {}
    /\ GoTo(n, "export")
    /\ UNCHANGED <<files, catalog, manifest, algorithms, lock, history>>

\* A write waits for the lock and gives up: the error ends the request, except that of a
\* harvest, which a collection survives.
Locked(n) ==
    /\ ~CanWrite(n)
    /\ \/ job[n].step \in {"insert", "clear", "update", "record"}
       \/ At(n, {"collect"}, "next") /\ job[n].todo = {}
    /\ \/ At(n, {"collect"}, "record") /\ GoTo(n, "next") /\ UNCHANGED lock
       \/ ~At(n, {"collect"}, "record") /\ Return(n)
    /\ UNCHANGED <<files, catalog, manifest, algorithms, history>>

-----------------------------------------------------------------------------
(* export_catalog *)

ReadCatalog(n) ==
    /\ At(n, {"collect", "build"}, "export")
    /\ Go(n, [job[n] EXCEPT !.todo = Rows, !.step = "publish"])
    /\ UNCHANGED <<files, catalog, manifest, algorithms, lock, history>>

WriteManifest(n) ==
    /\ At(n, {"collect", "build"}, "publish")
    /\ manifest' = job[n].todo
    /\ Return(n)
    /\ UNCHANGED <<files, catalog, algorithms, history>>

-----------------------------------------------------------------------------
Begin(n) == BeginCollect(n) \/ BeginScan(n) \/ BeginBuild(n)

LibraryStep(n) ==
    \/ FetchCandidate(n) \/ OpenObject(n) \/ WriteObject(n) \/ WriteFails(n)
    \/ InsertDocument(n) \/ FinishCollect(n)
    \/ ScanNext(n) \/ Harvest(n) \/ RecordAlgorithm(n) \/ RecordCollides(n)
    \/ UnlinkVolumes(n) \/ ClearRows(n) \/ OpenVolume(n) \/ LockRows(n) \/ CommitVolume(n)
    \/ VolumeFails(n) \/ AllPacked(n) \/ Locked(n) \/ ReadCatalog(n) \/ WriteManifest(n)

\* the process ends: open transactions are rolled back, files stay as they are
LibraryCrash ==
    /\ lock' = Nobody
    /\ job' = [n \in Requests |-> IF job[n] = Idle THEN Idle ELSE Ended]
    /\ UNCHANGED <<files, catalog, manifest, algorithms, history>>

-----------------------------------------------------------------------------
(* Correctness *)

LibraryTypeOK ==
    /\ object \in [Docs -> {"none", "partial", "whole"}]
    /\ catalog \in [Docs -> {NoRow, Unpacked} \cup Volumes]
    /\ zip \in [Volumes -> (SUBSET Docs) \cup {NoFile}]
    /\ manifest \subseteq Docs /\ algorithms \in Nat
    /\ lock \in Requests \cup {Nobody}
    /\ \A n \in Requests : job[n].todo \subseteq Docs /\ job[n].packed \subseteq Docs
    /\ raced \subseteq Docs /\ mixed \in BOOLEAN

\* A row is written after its file: whatever fails, and wherever the process ends, the file of
\* a catalogued document is whole, unless two collections stored its bytes at the same time.
WholeDocuments == \A d \in Rows : object[d] = "whole" \/ d \in raced

\* "Insert/merge one canonical algorithm": there is one record of it, unless two harvests
\* looked for one at the same time.
OneRecord == algorithms <= 1 \/ mixed

\* "Rebuild all volumes deterministically so catalog and ZIPs stay consistent": a build that
\* no other build overlapped leaves each of its documents in the volume its row names, and in
\* the manifest, whatever a crash or a failed build left behind and whatever was collected
\* meanwhile.
BuildIsConsistent ==
    [][\A n \in Requests : Building(n) /\ job[n].alone /\ WriteManifest(n) =>
          \A d \in job[n].packed : /\ catalog'[d] \in Volumes
                                   /\ d \in zip'[catalog'[d]]
                                   /\ d \in manifest']_libraryVars
=============================================================================
