---------------------------- MODULE HcsServerProofs ----------------------------
(***************************************************************************)
(* Proofs about the HCS server, for any number of requests, documents,     *)
(* routes and ends of the process: what the library's catalog says of its  *)
(* files, what a package's row says of its file, in which tiers providers  *)
(* are called, and what a build that no other one overlapped leaves.  Each *)
(* part of the invariant speaks of one part of the server; the steps of    *)
(* the others leave it alone.                                              *)
(***************************************************************************)
EXTENDS HcsServer, FiniteSetTheorems, TLAPS

-----------------------------------------------------------------------------
(* The library *)

Kinds == {"idle", "collect", "scan", "build", "package", "bundle"}
JobSteps == {"idle", "next", "open", "write", "insert", "harvest", "record", "unlink", "clear", "pack",
             "update", "commit", "export", "publish", "download", "verify", "list", "cleanup", "ended"}
Jobs == [kind : Kinds, step : JobSteps, doc : Docs \cup {"none"}, todo : SUBSET Docs, vol : Nat,
         packed : SUBSET Docs, known : BOOLEAN, alone : BOOLEAN]

LibraryTypes ==
    /\ object \in [Docs -> {"none", "partial", "whole"}]
    /\ catalog \in [Docs -> {NoRow} \cup Nat]
    /\ algorithms \in Nat /\ mixed \in BOOLEAN
    /\ job \in [Requests -> Jobs]

Stores(j)  == j.kind = "collect" /\ j.step \in {"open", "write", "insert"}
Records(j) == j.kind \in {"collect", "scan"} /\ j.step = "record"

\* what a request works on is a document, and is there
JobsAreSound ==
    \A n \in Requests :
        /\ Stores(job[n]) => job[n].doc \in Docs
        /\ Stores(job[n]) /\ job[n].step = "insert" =>
              object[job[n].doc] = "whole" \/ job[n].doc \in raced
        /\ job[n].kind = "build" => job[n].todo \subseteq Rows

\* A harvest that found no record is the only one, or the history says so.
HarvestsAreApart ==
    \/ mixed
    \/ /\ \A n \in Requests : Records(job[n]) /\ ~job[n].known => algorithms = 0
       /\ \A n, m \in Requests :
             Records(job[n]) /\ ~job[n].known /\ Records(job[m]) /\ ~job[m].known => n = m

LibraryInv == LibraryTypes /\ JobsAreSound /\ WholeDocuments /\ HarvestsAreApart /\ OneRecord

-----------------------------------------------------------------------------
(* The package cache *)

UsesPart(j) == j.kind = "package" /\ j.step \in {"download", "verify"}
Lists(j)    == j.kind = "package" /\ j.step = "list"

PackageInv ==
    /\ part \in {"none", "partial", "whole"} /\ package \in {"none", "partial", "whole"}
    /\ shared \in BOOLEAN
    /\ shared \/ \A n, m \in Requests : UsesPart(job[n]) /\ UsesPart(job[m]) => n = m
    /\ shared \/ \A n \in Requests : UsesPart(job[n]) /\ job[n].step = "verify" => part # "partial"
    /\ shared \/ package # "partial"
    /\ \A n \in Requests : Lists(job[n]) => package # "none"
    /\ listed => package # "none"

-----------------------------------------------------------------------------
(* The providers *)

Allowed(t) == {DefaultTier} \cup approved[t]
Queued(c) == {c.queue[k] : k \in 1..Len(c.queue)}

ChatSteps == {"idle", "read", "pin", "order", "call", "exhausted", "answered", "failed", "asked", "done"}
Models == {Model[r] : r \in Routes} \cup {None}
ChatRecords == [step : ChatSteps, task : AllTasks \cup {None}, tier : Tiers \cup {None},
                model : Models, queue : Seq(Routes), free : SUBSET Routes,
                began : SUBSET Routes, failed : SUBSET Routes, proposed : Tiers \cup {None}]

RouterTypes ==
    /\ pinned \in [AllTasks -> [tier : Tiers \cup {None}, model : Models]]
    /\ chat \in [Chats -> ChatRecords]
    /\ approved \in [AllTasks -> SUBSET Tiers]

\* A task is pinned to a tier it may use.
PinsAreAllowed == \A t \in AllTasks : pinned[t].tier \in {None} \cup Allowed(t)

\* A chat works in a tier its task may use, on routes of that tier, and forgets none.
IsSound(c) ==
    /\ c.step # "idle" /\ c.step # "done" => c.task \in AllTasks
    /\ c.step \in {"pin", "order", "call", "exhausted", "asked"} => c.tier \in Allowed(c.task)
    /\ c.step = "call" =>
          /\ c.queue # <<>>
          /\ \A r \in Queued(c) : Tier[r] = c.tier
          /\ InTier(c.began, c.tier) \subseteq c.failed \cup Queued(c)
    /\ c.step \in {"exhausted", "asked"} => InTier(c.began, c.tier) \subseteq c.failed
    /\ c.step = "asked" => c.proposed \in Tiers

ChatsAreSound == \A n \in Chats : IsSound(chat[n])

RouterInv == RouterTypes /\ PinsAreAllowed /\ ChatsAreSound

IInv == LibraryInv /\ PackageInv /\ RouterInv /\ KnowledgeIsWhole

-----------------------------------------------------------------------------
(* How a step changes the requests *)

LEMMA JobConstants == Idle \in Jobs /\ Ended \in Jobs /\ Ended.kind = "idle" /\ Idle.kind = "idle"
<1>1. Idle \in Jobs
  BY DEF Idle, Jobs, Kinds, JobSteps
<1>2. Ended \in Jobs /\ Ended.kind = "idle"
  BY <1>1 DEF Ended, Jobs, Idle, Kinds, JobSteps
<1> QED BY <1>1, <1>2 DEF Idle

LEMMA GoFacts ==
    ASSUME LibraryTypes, NEW n \in Requests, NEW j \in Jobs, Go(n, j)
    PROVE  /\ job' \in [Requests -> Jobs] /\ job'[n] = j
           /\ \A m \in Requests \ {n} : job'[m] = job[m]
BY DEF LibraryTypes, Go

LEMMA GoToFacts ==
    ASSUME LibraryTypes, NEW n \in Requests, NEW s \in JobSteps, GoTo(n, s)
    PROVE  /\ job' \in [Requests -> Jobs] /\ job'[n].step = s
           /\ job'[n].kind = job[n].kind /\ job'[n].doc = job[n].doc
           /\ job'[n].todo = job[n].todo
           /\ \A m \in Requests \ {n} : job'[m] = job[m]
<1>1. job[n] \in Jobs
  BY DEF LibraryTypes
<1> DEFINE j == [job[n] EXCEPT !.step = s]
<1>2. /\ j \in Jobs /\ j.step = s /\ j.kind = job[n].kind /\ j.doc = job[n].doc
      /\ j.todo = job[n].todo
  BY <1>1 DEF Jobs
<1>3. Go(n, j)
  BY DEF GoTo
<1> QED BY <1>2, <1>3, GoFacts

LEMMA ReturnFacts ==
    ASSUME LibraryTypes, NEW n \in Requests, Return(n)
    PROVE  /\ job' \in [Requests -> Jobs] /\ job'[n].kind = "idle"
           /\ \A m \in Requests \ {n} : job'[m] = job[m]
BY JobConstants, GoFacts DEF Return

\* a request that is at no point an invariant speaks of
Calm(j) == /\ ~Records(j)
           /\ j.kind = "build" => j.todo \subseteq Rows
           /\ Stores(j) => j.doc \in Docs /\ j.step # "insert"
Alike(j, k) == /\ j.kind = k.kind /\ j.step = k.step /\ j.doc = k.doc /\ j.todo = k.todo
               /\ j.known = k.known

LEMMA QuietLibrary ==
    ASSUME LibraryInv, UNCHANGED <<object, catalog, algorithms, raced, mixed>>,
           job' \in [Requests -> Jobs],
           \A m \in Requests : Calm(job'[m]) \/ Alike(job'[m], job[m])
    PROVE  LibraryInv'
<1> USE DEF LibraryInv
<1>1. LibraryTypes' /\ WholeDocuments' /\ OneRecord' /\ Rows' = Rows
  BY DEF LibraryTypes, WholeDocuments, OneRecord, Rows
<1>2. JobsAreSound'
  BY <1>1 DEF JobsAreSound, Calm, Alike, Stores
<1>3. HarvestsAreApart'
  BY DEF HarvestsAreApart, Calm, Alike, Records
<1> QED BY <1>1, <1>2, <1>3

\* the usual case: request n goes on to such a point, and the others stay where they are
LEMMA QuietStep ==
    ASSUME LibraryInv, UNCHANGED <<object, catalog, algorithms, raced, mixed>>,
           NEW n \in Requests, job' \in [Requests -> Jobs], Calm(job'[n]),
           \A m \in Requests \ {n} : job'[m] = job[m]
    PROVE  LibraryInv'
BY QuietLibrary DEF Alike

-----------------------------------------------------------------------------
(* The library's steps *)

\* The file of a document that is stored a second time is accounted for.
LEMMA OpenKeeps == ASSUME LibraryInv, NEW n \in Requests, OpenObject(n) PROVE LibraryInv'
<1> DEFINE d == job[n].doc
<1> USE DEF LibraryInv
<1>0. Stores(job[n]) /\ d \in Docs
  BY DEF OpenObject, At, Stores, JobsAreSound
<1>1. /\ job' \in [Requests -> Jobs] /\ job'[n].step = "write" /\ job'[n].kind = job[n].kind
      /\ job'[n].doc = d /\ job'[n].todo = job[n].todo
      /\ \A m \in Requests \ {n} : job'[m] = job[m]
  BY GoToFacts DEF OpenObject, JobSteps
<1>2. /\ object' = [object EXCEPT ![d] = "partial"]
      /\ UNCHANGED <<catalog, algorithms, mixed>> /\ raced \subseteq raced' /\ Rows' = Rows
      /\ d \in Rows => d \in raced'
      /\ \A m \in Requests \ {n} : Stores(job[m]) /\ job[m].doc = d => d \in raced'
  BY DEF OpenObject, Storing, At, Stores, Rows
<1> HIDE DEF d
<1>3. LibraryTypes'
  BY <1>0, <1>1, <1>2 DEF LibraryTypes
<1>4. \A e \in Docs : e # d => object'[e] = object[e]
  BY <1>2 DEF LibraryTypes
<1>5. JobsAreSound'
  BY <1>0, <1>1, <1>2, <1>4 DEF JobsAreSound, Stores
<1>6. WholeDocuments'
  BY <1>2, <1>4 DEF WholeDocuments, Rows
<1>7. HarvestsAreApart' /\ OneRecord'
  BY <1>0, <1>1, <1>2 DEF HarvestsAreApart, OneRecord, Records, Stores
<1> QED BY <1>3, <1>5, <1>6, <1>7

LEMMA WriteKeeps == ASSUME LibraryInv, NEW n \in Requests, WriteObject(n) PROVE LibraryInv'
<1> DEFINE d == job[n].doc
<1> USE DEF LibraryInv
<1>0. Stores(job[n]) /\ d \in Docs
  BY DEF WriteObject, At, Stores, JobsAreSound
<1>1. /\ job' \in [Requests -> Jobs] /\ job'[n].step = "insert" /\ job'[n].kind = job[n].kind
      /\ job'[n].doc = d /\ job'[n].todo = job[n].todo
      /\ \A m \in Requests \ {n} : job'[m] = job[m]
  BY GoToFacts DEF WriteObject, JobSteps
<1>2. /\ object' = [object EXCEPT ![d] = "whole"]
      /\ UNCHANGED <<catalog, algorithms, mixed, raced>> /\ Rows' = Rows
  BY DEF WriteObject, Rows, history
<1> HIDE DEF d
<1>3. LibraryTypes'
  BY <1>0, <1>1, <1>2 DEF LibraryTypes
<1>4. \A e \in Docs : object'[e] = object[e] \/ object'[e] = "whole"
  BY <1>2 DEF LibraryTypes
<1>5. object'[d] = "whole"
  BY <1>0, <1>2 DEF LibraryTypes
<1>6. JobsAreSound'
  BY <1>0, <1>1, <1>2, <1>4, <1>5 DEF JobsAreSound, Stores
<1>7. WholeDocuments'
  BY <1>2, <1>4 DEF WholeDocuments, Rows
<1>8. HarvestsAreApart' /\ OneRecord'
  BY <1>0, <1>1, <1>2 DEF HarvestsAreApart, OneRecord, Records, Stores
<1> QED BY <1>3, <1>6, <1>7, <1>8

LEMMA InsertKeeps == ASSUME LibraryInv, NEW n \in Requests, InsertDocument(n) PROVE LibraryInv'
<1> DEFINE d == job[n].doc
<1> USE DEF LibraryInv
<1>0. /\ d \in Docs
      /\ object[d] = "whole" \/ d \in raced
  BY DEF InsertDocument, At, Stores, JobsAreSound
<1>1. CASE d \in Rows /\ Return(n)
  <2>1. UNCHANGED <<object, catalog, algorithms, raced, mixed>>
    BY <1>1 DEF InsertDocument, Rows, files, history
  <2>2. job' \in [Requests -> Jobs] /\ job'[n].kind = "idle"
        /\ \A m \in Requests \ {n} : job'[m] = job[m]
    BY <1>1, ReturnFacts
  <2>3. Calm(job'[n])
    BY <2>2 DEF Calm, Records, Stores
  <2> QED BY <2>1, <2>2, <2>3, QuietStep
<1>2. CASE /\ d \notin Rows /\ catalog' = [catalog EXCEPT ![d] = Unpacked] /\ GoTo(n, "harvest")
  <2>1. /\ job' \in [Requests -> Jobs] /\ job'[n].step = "harvest" /\ job'[n].kind = job[n].kind
        /\ job'[n].doc = d /\ job'[n].todo = job[n].todo
        /\ \A m \in Requests \ {n} : job'[m] = job[m]
    BY <1>2, GoToFacts DEF JobSteps
  <2>2. UNCHANGED <<object, algorithms, raced, mixed>> /\ job[n].kind = "collect"
    BY DEF InsertDocument, files, history, At
  <2> HIDE DEF d
  <2>3. Rows' = Rows \cup {d}
    BY <1>0, <1>2 DEF Rows, LibraryTypes, Unpacked, NoRow
  <2>4. LibraryTypes'
    BY <1>0, <1>2, <2>1, <2>2 DEF LibraryTypes, Unpacked
  <2>5. JobsAreSound'
    BY <2>1, <2>2, <2>3 DEF JobsAreSound, Stores
  <2>6. WholeDocuments'
    BY <1>0, <2>2, <2>3 DEF WholeDocuments
  <2>7. HarvestsAreApart' /\ OneRecord'
    BY <2>1, <2>2 DEF HarvestsAreApart, OneRecord, Records
  <2> QED BY <2>4, <2>5, <2>6, <2>7
<1> QED BY <1>1, <1>2 DEF InsertDocument

LEMMA HarvestKeeps == ASSUME LibraryInv, NEW n \in Requests, Harvest(n) PROVE LibraryInv'
<1> USE DEF LibraryInv
<1>0. /\ UNCHANGED <<object, catalog, algorithms, raced>> /\ Rows' = Rows
      /\ job[n].kind \in {"collect", "scan"} /\ job[n].step = "harvest"
  BY DEF Harvest, files, history, At, Rows
<1>1. CASE GoTo(n, "next") /\ UNCHANGED mixed
  <2>1. /\ job' \in [Requests -> Jobs] /\ job'[n].step = "next" /\ job'[n].kind = job[n].kind
        /\ \A m \in Requests \ {n} : job'[m] = job[m]
    BY <1>1, GoToFacts DEF JobSteps
  <2>2. Calm(job'[n])
    BY <1>0, <2>1 DEF Calm, Records, Stores
  <2> QED BY <1>0, <1>1, <2>1, <2>2, QuietStep
<1>2. CASE /\ Go(n, [job[n] EXCEPT !.step = "record", !.known = (algorithms > 0)])
           /\ mixed' = (mixed \/ \E m \in Requests \ {n} :
                                    At(m, {"collect", "scan"}, "record") /\ ~job[m].known)
  <2> DEFINE known == algorithms > 0
             j == [job[n] EXCEPT !.step = "record", !.known = known]
  <2>a. known \in BOOLEAN /\ (~known => algorithms = 0)
    BY DEF LibraryTypes
  <2>b. job[n] \in Jobs
    BY DEF LibraryTypes
  <2> HIDE DEF known
  <2>c. j \in Jobs
    BY <2>a, <2>b DEF Jobs, JobSteps
  <2>d. j.step = "record" /\ j.kind = job[n].kind /\ j.todo = job[n].todo
    BY <2>b DEF Jobs
  <2>e. j.known = known
    BY <2>b DEF Jobs
  <2>1. /\ j \in Jobs /\ j.step = "record" /\ j.kind = job[n].kind /\ j.todo = job[n].todo
        /\ ~j.known => algorithms = 0
    BY <2>a, <2>c, <2>d, <2>e
  <2> HIDE DEF j
  <2>2. /\ job' \in [Requests -> Jobs] /\ job'[n] = j
        /\ \A m \in Requests \ {n} : job'[m] = job[m]
    BY <1>2, <2>1, GoFacts DEF j, known
  <2>3. mixed' \in BOOLEAN
    BY <1>2
  <2>4. LibraryTypes'
    BY <1>0, <2>2, <2>3 DEF LibraryTypes
  <2>5. JobsAreSound' /\ WholeDocuments'
    BY <1>0, <2>1, <2>2 DEF JobsAreSound, WholeDocuments, Stores
  <2>6. OneRecord'
    BY <1>0, <1>2 DEF OneRecord
  <2>7. HarvestsAreApart'
    <3> SUFFICES ASSUME ~mixed' PROVE HarvestsAreApart'
      BY DEF HarvestsAreApart
    <3>1. ~mixed /\ \A m \in Requests \ {n} : ~(Records(job[m]) /\ ~job[m].known)
      BY <1>2 DEF Records, At
    <3>2. \A m \in Requests \ {n} : ~(Records(job'[m]) /\ ~job'[m].known)
      BY <2>2, <3>1
    <3>3. ~job'[n].known => algorithms' = 0
      BY <1>0, <2>1, <2>2
    <3> QED BY <3>2, <3>3 DEF HarvestsAreApart
  <2> QED BY <2>4, <2>5, <2>6, <2>7
<1> QED BY <1>1, <1>2 DEF Harvest

LEMMA RecordKeeps == ASSUME LibraryInv, NEW n \in Requests, RecordAlgorithm(n) PROVE LibraryInv'
<1> USE DEF LibraryInv
<1>0. /\ UNCHANGED <<object, catalog, raced, mixed>> /\ Rows' = Rows
      /\ job[n].kind \in {"collect", "scan"} /\ Records(job[n])
      /\ algorithms' = IF job[n].known THEN algorithms ELSE algorithms + 1
  BY DEF RecordAlgorithm, Inserts, files, history, At, Rows, Records
<1>1. /\ job' \in [Requests -> Jobs] /\ job'[n].step = "next" /\ job'[n].kind = job[n].kind
      /\ \A m \in Requests \ {n} : job'[m] = job[m]
  BY GoToFacts DEF JobSteps, RecordAlgorithm
<1>2. LibraryTypes'
  BY <1>0, <1>1 DEF LibraryTypes
<1>3. JobsAreSound' /\ WholeDocuments'
  BY <1>0, <1>1 DEF JobsAreSound, WholeDocuments, Stores
<1>4. CASE mixed
  BY <1>0, <1>2, <1>3, <1>4 DEF HarvestsAreApart, OneRecord
<1>5. CASE ~mixed /\ job[n].known
  <2>1. algorithms' = algorithms
    BY <1>0, <1>5
  <2> QED BY <1>0, <1>1, <1>2, <1>3, <2>1 DEF HarvestsAreApart, OneRecord, Records
<1>6. CASE ~mixed /\ ~job[n].known
  <2>1. algorithms = 0 /\ algorithms' = 1
    BY <1>0, <1>6 DEF HarvestsAreApart
  <2>2. \A m \in Requests : ~(Records(job'[m]) /\ ~job'[m].known)
    BY <1>0, <1>1, <1>6 DEF HarvestsAreApart, Records
  <2> QED BY <1>2, <1>3, <2>1, <2>2 DEF HarvestsAreApart, OneRecord
<1> QED BY <1>4, <1>5, <1>6

\* A build moves rows between volumes; it adds and removes none.
LEMMA MovedRowsKeep ==
    ASSUME LibraryInv, UNCHANGED <<object, algorithms, raced, mixed>>, NEW n \in Requests,
           catalog' \in [Docs -> {NoRow} \cup Nat], Rows' = Rows,
           job' \in [Requests -> Jobs], job'[n].kind = "build", job'[n].todo \subseteq Rows,
           \A m \in Requests \ {n} : job'[m] = job[m]
    PROVE  LibraryInv'
<1> USE DEF LibraryInv
<1>1. LibraryTypes' /\ WholeDocuments' /\ OneRecord'
  BY DEF LibraryTypes, WholeDocuments, OneRecord
<1>2. JobsAreSound' /\ HarvestsAreApart'
  BY DEF JobsAreSound, HarvestsAreApart, Stores, Records
<1> QED BY <1>1, <1>2

\* how a library step moves its request
Moves(n) == /\ job' \in [Requests -> Jobs]
            /\ job'[n].kind \in {"idle", "collect", "scan", "build"}
            /\ \A m \in Requests \ {n} : job'[m] = job[m]

quiet == <<object, catalog, algorithms, raced, mixed>>

LEMMA QuietGoTo ==
    ASSUME LibraryInv, UNCHANGED quiet, NEW n \in Requests, job[n].kind \in {"collect", "scan", "build"},
           NEW s \in JobSteps \ {"open", "write", "insert", "record"}, GoTo(n, s)
    PROVE  LibraryInv' /\ Moves(n)
<1>1. /\ job' \in [Requests -> Jobs] /\ job'[n].step = s /\ job'[n].kind = job[n].kind
      /\ job'[n].todo = job[n].todo
      /\ \A m \in Requests \ {n} : job'[m] = job[m]
  BY GoToFacts DEF LibraryInv
<1>2. Calm(job'[n])
  BY <1>1 DEF Calm, Records, Stores, LibraryInv, JobsAreSound
<1> QED BY <1>1, <1>2, QuietStep DEF quiet, Moves

LEMMA QuietReturn ==
    ASSUME LibraryInv, UNCHANGED quiet, NEW n \in Requests, Return(n)
    PROVE  LibraryInv' /\ Moves(n)
<1>1. /\ job' \in [Requests -> Jobs] /\ job'[n].kind = "idle"
      /\ \A m \in Requests \ {n} : job'[m] = job[m]
  BY ReturnFacts DEF LibraryInv
<1>2. Calm(job'[n])
  BY <1>1 DEF Calm, Records, Stores
<1> QED BY <1>1, <1>2, QuietStep DEF quiet, Moves

\* a request goes on with the record j
LEMMA QuietGo ==
    ASSUME LibraryInv, UNCHANGED quiet, NEW n \in Requests, NEW j \in Jobs, Go(n, j),
           Calm(j), j.kind \in {"idle", "collect", "scan", "build"}
    PROVE  LibraryInv' /\ Moves(n)
<1>1. /\ job' \in [Requests -> Jobs] /\ job'[n] = j
      /\ \A m \in Requests \ {n} : job'[m] = job[m]
  BY GoFacts DEF LibraryInv
<1> QED BY <1>1, QuietStep DEF quiet, Moves

LEMMA JobFacts ==
    ASSUME LibraryInv, NEW n \in Requests
    PROVE  job[n] \in Jobs /\ Rows \subseteq Docs
BY DEF LibraryInv, LibraryTypes, Rows

\* Each step of a request keeps the library's invariant.
LEMMA LibraryStepKeeps ==
    ASSUME LibraryInv, NEW n \in Requests, LibraryStep(n)
    PROVE  LibraryInv' /\ Moves(n)
<1>a. job[n] \in Jobs /\ Rows \subseteq Docs
  BY JobFacts
<1>1. CASE FetchCandidate(n)
  <2>1. PICK d \in job[n].todo :
           \/ Go(n, [job[n] EXCEPT !.todo = @ \ {d}])
           \/ Go(n, [job[n] EXCEPT !.todo = @ \ {d}, !.doc = d, !.step = "open"])
    BY <1>1, <1>a DEF FetchCandidate, AfterCheck, Jobs
  <2>2. UNCHANGED quiet /\ job[n].kind = "collect" /\ job[n].step = "next" /\ d \in Docs
    BY <1>1, <1>a DEF FetchCandidate, At, files, history, quiet, Jobs
  <2>3. CASE Go(n, [job[n] EXCEPT !.todo = @ \ {d}])
    <3> DEFINE j == [job[n] EXCEPT !.todo = @ \ {d}]
    <3>1. j \in Jobs /\ j.kind = "collect" /\ j.step = "next"
      BY <1>a, <2>2 DEF Jobs
    <3>2. Go(n, j)
      BY <2>3
    <3> HIDE DEF j
    <3>3. Calm(j)
      BY <3>1 DEF Calm, Records, Stores
    <3> QED BY <2>2, <3>1, <3>2, <3>3, QuietGo
  <2>4. CASE Go(n, [job[n] EXCEPT !.todo = @ \ {d}, !.doc = d, !.step = "open"])
    <3> DEFINE j == [job[n] EXCEPT !.todo = @ \ {d}, !.doc = d, !.step = "open"]
    <3>1. j \in Jobs /\ j.kind = "collect" /\ j.step = "open" /\ j.doc = d
      BY <1>a, <2>2 DEF Jobs, JobSteps
    <3>2. Go(n, j)
      BY <2>4
    <3> HIDE DEF j
    <3>3. Calm(j)
      BY <2>2, <3>1 DEF Calm, Records, Stores
    <3> QED BY <2>2, <3>1, <3>2, <3>3, QuietGo
  <2> QED BY <2>1, <2>3, <2>4
<1>2. CASE OpenObject(n)
  <2>1. LibraryInv'
    BY <1>2, OpenKeeps
  <2>2. Moves(n)
    BY <1>2, GoToFacts DEF OpenObject, At, JobSteps, LibraryInv, Moves
  <2> QED BY <2>1, <2>2
<1>3. CASE WriteObject(n)
  <2>1. LibraryInv'
    BY <1>3, WriteKeeps
  <2>2. Moves(n)
    BY <1>3, GoToFacts DEF WriteObject, At, JobSteps, LibraryInv, Moves
  <2> QED BY <2>1, <2>2
<1>4. CASE WriteFails(n)
  BY <1>4, QuietReturn DEF WriteFails, quiet, files, history
<1>5. CASE InsertDocument(n)
  <2>1. LibraryInv'
    BY <1>5, InsertKeeps
  <2>2. Return(n) \/ (GoTo(n, "harvest") /\ job[n].kind = "collect")
    BY <1>5 DEF InsertDocument, At
  <2>3. Moves(n)
    BY <2>2, GoToFacts, ReturnFacts DEF JobSteps, LibraryInv, Moves
  <2> QED BY <2>1, <2>3
<1>6. CASE FinishCollect(n)
  BY <1>6, QuietGoTo DEF FinishCollect, At, JobSteps, quiet, files, history
<1>7. CASE ScanNext(n)
  <2>1. UNCHANGED quiet /\ job[n].kind = "scan"
    BY <1>7 DEF ScanNext, At, files, history, quiet
  <2>2. CASE Return(n)
    BY <2>1, <2>2, QuietReturn
  <2>3. CASE \E d \in job[n].todo :
                Go(n, [job[n] EXCEPT !.todo = @ \ {d}, !.doc = d, !.step = "harvest"])
    <3>1. PICK d \in job[n].todo :
             Go(n, [job[n] EXCEPT !.todo = @ \ {d}, !.doc = d, !.step = "harvest"])
      BY <2>3
    <3> DEFINE j == [job[n] EXCEPT !.todo = @ \ {d}, !.doc = d, !.step = "harvest"]
    <3>2. d \in Docs
      BY <1>a DEF Jobs
    <3>3. j \in Jobs /\ j.kind = "scan" /\ j.step = "harvest"
      BY <1>a, <2>1, <3>2 DEF Jobs, JobSteps
    <3>4. Go(n, j)
      BY <3>1
    <3> HIDE DEF j
    <3>5. Calm(j)
      BY <3>3 DEF Calm, Records, Stores
    <3> QED BY <2>1, <3>3, <3>4, <3>5, QuietGo
  <2> QED BY <1>7, <2>2, <2>3 DEF ScanNext
<1>8. CASE Harvest(n)
  <2>1. LibraryInv'
    BY <1>8, HarvestKeeps
  <2>2. job[n].kind \in {"collect", "scan"}
    BY <1>8 DEF Harvest, At
  <2>3. CASE GoTo(n, "next")
    BY <2>1, <2>2, <2>3, GoToFacts DEF JobSteps, LibraryInv, Moves
  <2>4. CASE Go(n, [job[n] EXCEPT !.step = "record", !.known = (algorithms > 0)])
    <3>1. /\ job'[n].kind = job[n].kind
          /\ \A m \in Requests \ {n} : job'[m] = job[m]
      BY <1>a, <2>4 DEF Go, Jobs, LibraryInv, LibraryTypes
    <3> QED BY <2>1, <2>2, <3>1 DEF Moves, LibraryInv, LibraryTypes
  <2> QED BY <1>8, <2>3, <2>4 DEF Harvest
<1>9. CASE RecordAlgorithm(n)
  <2>1. LibraryInv'
    BY <1>9, RecordKeeps
  <2>2. Moves(n)
    BY <1>9, GoToFacts DEF RecordAlgorithm, At, JobSteps, LibraryInv, Moves
  <2> QED BY <2>1, <2>2
<1>10. CASE RecordCollides(n)
  <2>1. UNCHANGED quiet /\ (Return(n) \/ (GoTo(n, "next") /\ job[n].kind = "collect"))
    BY <1>10 DEF RecordCollides, files, history, quiet
  <2> QED BY <2>1, QuietReturn, QuietGoTo DEF JobSteps
<1>11. CASE UnlinkVolumes(n)
  <2>1. UNCHANGED quiet /\ (Return(n) \/ (GoTo(n, "clear") /\ job[n].kind = "build"))
    BY <1>11 DEF UnlinkVolumes, At, history, quiet
  <2> QED BY <2>1, QuietReturn, QuietGoTo DEF JobSteps
<1>12. CASE ClearRows(n)
  <2>1. /\ job' \in [Requests -> Jobs] /\ job'[n].kind = "build" /\ job'[n].todo = job[n].todo
        /\ \A m \in Requests \ {n} : job'[m] = job[m]
    BY <1>12, GoToFacts DEF ClearRows, At, JobSteps, LibraryInv
  <2>2. UNCHANGED <<object, algorithms, raced, mixed>> /\ job[n].kind = "build"
    BY <1>12 DEF ClearRows, At, files, history
  <2>3. catalog' \in [Docs -> {NoRow} \cup Nat] /\ Rows' = Rows
    BY <1>12 DEF ClearRows, Rows, NoRow, Unpacked
  <2>4. job[n].todo \subseteq Rows
    BY <2>2 DEF LibraryInv, JobsAreSound
  <2> QED BY <2>1, <2>2, <2>3, <2>4, MovedRowsKeep DEF Moves
<1>13. CASE OpenVolume(n)
  BY <1>13, QuietGoTo DEF OpenVolume, At, JobSteps, quiet, history
<1>14. CASE LockRows(n)
  BY <1>14, QuietGoTo DEF LockRows, At, JobSteps, quiet, files, history
<1>15. CASE CommitVolume(n)
  <2>1. PICK bucket \in SUBSET job[n].todo :
          /\ catalog' = [d \in Docs |-> IF d \in bucket THEN job[n].vol ELSE catalog[d]]
          /\ Go(n, [job[n] EXCEPT !.todo = @ \ bucket, !.vol = @ + 1, !.step = "pack"])
    BY <1>15 DEF CommitVolume, Recorded
  <2>2. UNCHANGED <<object, algorithms, raced, mixed>> /\ job[n].kind = "build"
    BY <1>15 DEF CommitVolume, At, history
  <2>3. job[n].todo \subseteq Rows /\ job[n].vol \in Nat
    BY <1>a, <2>2 DEF LibraryInv, JobsAreSound, Jobs
  <2> DEFINE rest == job[n].todo \ bucket
             next == job[n].vol + 1
             j == [job[n] EXCEPT !.todo = rest, !.vol = next, !.step = "pack"]
  <2>a. rest \subseteq job[n].todo /\ rest \subseteq Docs /\ next \in Nat
    BY <1>a, <2>3 DEF Jobs
  <2>5. Go(n, j)
    BY <2>1
  <2> HIDE DEF rest, next
  <2>b. j \in Jobs
    BY <1>a, <2>a DEF Jobs, JobSteps
  <2>c. j.kind = job[n].kind /\ j.todo = rest
    BY <1>a DEF Jobs
  <2>4. j \in Jobs /\ j.kind = "build" /\ j.todo \subseteq job[n].todo
    BY <2>2, <2>a, <2>b, <2>c
  <2> HIDE DEF j
  <2>6. /\ job' \in [Requests -> Jobs] /\ job'[n] = j
        /\ \A m \in Requests \ {n} : job'[m] = job[m]
    BY <2>4, <2>5, GoFacts DEF LibraryInv
  <2>7. catalog' \in [Docs -> {NoRow} \cup Nat] /\ Rows' = Rows
    BY <2>1, <2>3 DEF Rows, NoRow, LibraryInv, LibraryTypes
  <2> QED BY <2>2, <2>3, <2>4, <2>6, <2>7, MovedRowsKeep DEF Moves
<1>16. CASE AllPacked(n)
  BY <1>16, QuietGoTo DEF AllPacked, At, JobSteps, quiet, files, history
<1>17. CASE Locked(n)
  <2>1. UNCHANGED quiet /\ (Return(n) \/ (GoTo(n, "next") /\ job[n].kind = "collect"))
    BY <1>17 DEF Locked, At, files, history, quiet
  <2> QED BY <2>1, QuietReturn, QuietGoTo DEF JobSteps
<1>18. CASE ReadCatalog(n)
  <2> DEFINE j == [job[n] EXCEPT !.todo = Rows, !.step = "publish"]
  <2>1. UNCHANGED quiet /\ job[n].kind \in {"collect", "build"} /\ Go(n, j)
    BY <1>18 DEF ReadCatalog, At, files, history, quiet
  <2>2. j \in Jobs /\ j.kind = job[n].kind /\ j.todo = Rows /\ j.step = "publish"
    BY <1>a DEF Jobs, JobSteps
  <2> HIDE DEF j
  <2>3. Calm(j)
    BY <2>2 DEF Calm, Records, Stores
  <2> QED BY <2>1, <2>2, <2>3, QuietGo
<1>19. CASE WriteManifest(n)
  BY <1>19, QuietReturn DEF WriteManifest, quiet, files, history
<1>20. CASE VolumeFails(n)
  BY <1>20, QuietReturn DEF VolumeFails, quiet, history
<1> QED BY <1>1, <1>2, <1>3, <1>4, <1>5, <1>6, <1>7, <1>8, <1>9, <1>10, <1>11, <1>12, <1>13, <1>14,
           <1>15, <1>16, <1>17, <1>18, <1>19, <1>20 DEF LibraryStep

-----------------------------------------------------------------------------
(* Requests that begin, and the end of the process *)

\* a request that has nothing to do with the .part file
Away(j) == ~UsesPart(j) /\ ~Lists(j)

LEMMA BeginKeeps ==
    ASSUME LibraryInv, NEW n \in Requests, Begin(n)
    PROVE  /\ LibraryInv'
           /\ \A m \in Requests : Away(job'[m]) \/ Alike(job'[m], job[m])
<1>a. job[n] \in Jobs /\ Rows \subseteq Docs
  BY JobFacts
<1>b. UNCHANGED quiet
  BY DEF Begin, BeginCollect, BeginScan, BeginBuild, quiet, files, history
<1>1. ASSUME NEW found \in SUBSET Docs,
             Go(n, [Idle EXCEPT !.kind = "collect", !.step = "next", !.todo = found])
      PROVE  LibraryInv' /\ Moves(n)
  <2> DEFINE j == [Idle EXCEPT !.kind = "collect", !.step = "next", !.todo = found]
  <2>1. j \in Jobs /\ j.kind = "collect" /\ j.step = "next"
    BY JobConstants DEF Jobs, Kinds, JobSteps
  <2>2. Go(n, j)
    BY <1>1
  <2> HIDE DEF j
  <2>3. Calm(j)
    BY <2>1 DEF Calm, Records, Stores
  <2> QED BY <1>b, <2>1, <2>2, <2>3, QuietGo
<1>2. CASE BeginScan(n)
  <2> DEFINE j == [Idle EXCEPT !.kind = "scan", !.step = "next", !.todo = Rows]
  <2>1. j \in Jobs /\ j.kind = "scan" /\ j.step = "next"
    BY <1>a, JobConstants DEF Jobs, Kinds, JobSteps
  <2>2. Go(n, j)
    BY <1>2 DEF BeginScan
  <2> HIDE DEF j
  <2>3. Calm(j)
    BY <2>1 DEF Calm, Records, Stores
  <2>4. LibraryInv' /\ Moves(n)
    BY <1>b, <2>1, <2>2, <2>3, QuietGo
  <2> QED BY <2>4 DEF Moves, Away, UsesPart, Lists, Alike
<1>3. CASE BeginBuild(n)
  <2> DEFINE others == {m \in Requests : Building(m)}
             first == others = {}
             j == [Idle EXCEPT !.kind = "build", !.step = "unlink", !.todo = Rows,
                               !.packed = Rows, !.alone = first]
  <2>1. job' = [m \in Requests |-> IF m = n THEN j
                                   ELSE IF m \in others THEN [job[m] EXCEPT !.alone = FALSE]
                                   ELSE job[m]]
    BY <1>3 DEF BeginBuild
  <2>2. first \in BOOLEAN
    OBVIOUS
  <2> HIDE DEF first
  <2>3. j \in Jobs
    BY <1>a, <2>2, JobConstants DEF Jobs, Kinds, JobSteps
  <2>4. j.kind = "build" /\ j.step = "unlink" /\ j.todo = Rows
    BY JobConstants DEF Jobs
  <2> HIDE DEF j, others
  <2>5. ASSUME NEW m \in Requests
        PROVE  [job[m] EXCEPT !.alone = FALSE] \in Jobs /\ Alike([job[m] EXCEPT !.alone = FALSE], job[m])
    <3>1. job[m] \in Jobs
      BY JobFacts
    <3>2. [job[m] EXCEPT !.alone = FALSE] \in Jobs
      BY <3>1 DEF Jobs
    <3>3. LET k == [job[m] EXCEPT !.alone = FALSE]
          IN  /\ k.kind = job[m].kind /\ k.step = job[m].step /\ k.doc = job[m].doc
              /\ k.todo = job[m].todo
      BY <3>1 DEF Jobs
    <3>4. [job[m] EXCEPT !.alone = FALSE].known = job[m].known
      BY <3>1 DEF Jobs
    <3> QED BY <3>2, <3>3, <3>4 DEF Alike
  <2>6. job' \in [Requests -> Jobs]
    BY <2>1, <2>3, <2>5 DEF LibraryInv, LibraryTypes
  <2>7. Calm(j) /\ Away(j)
    BY <2>4 DEF Calm, Records, Stores, Away, UsesPart, Lists
  <2>8. job'[n] = j /\ \A m \in Requests \ {n} : Alike(job'[m], job[m])
    BY <2>1, <2>5 DEF Alike
  <2> QED BY <1>b, <2>6, <2>7, <2>8, QuietLibrary DEF quiet
<1>4. CASE BeginCollect(n)
  <2>1. LibraryInv' /\ Moves(n)
    BY <1>1, <1>4 DEF BeginCollect
  <2> QED BY <2>1 DEF Moves, Away, UsesPart, Lists, Alike
<1> QED BY <1>2, <1>3, <1>4 DEF Begin

LEMMA CrashKeeps ==
    ASSUME LibraryInv, LibraryCrash
    PROVE  LibraryInv' /\ \A m \in Requests : Away(job'[m])
<1>1. /\ job' \in [Requests -> Jobs]
      /\ \A m \in Requests : job'[m].kind = "idle"
  BY JobConstants DEF LibraryCrash
<1>2. \A m \in Requests : Calm(job'[m]) /\ Away(job'[m])
  BY <1>1 DEF Calm, Records, Stores, Away, UsesPart, Lists
<1>3. UNCHANGED <<object, catalog, algorithms, raced, mixed>>
  BY DEF LibraryCrash, files, history
<1> QED BY <1>1, <1>2, <1>3, QuietLibrary

-----------------------------------------------------------------------------
(* The steps of the package cache *)

LEMMA QuietPackage ==
    ASSUME PackageInv, UNCHANGED packageVars,
           \A m \in Requests : Away(job'[m]) \/ Alike(job'[m], job[m])
    PROVE  PackageInv'
BY DEF PackageInv, packageVars, Away, Alike, UsesPart, Lists

\* The library does not see the requests of the package cache.
Apart(n) == /\ job' \in [Requests -> Jobs]
            /\ job'[n].kind \in {"idle", "package", "bundle"}
            /\ \A m \in Requests \ {n} : job'[m] = job[m]

LEMMA ApartKeeps ==
    ASSUME LibraryInv, UNCHANGED unchangedLibrary, NEW n \in Requests, Apart(n)
    PROVE  LibraryInv'
BY QuietStep DEF Apart, Calm, Records, Stores, unchangedLibrary

LEMMA BeginPackageKeeps ==
    ASSUME LibraryInv, PackageInv, NEW n \in Requests, BeginPackage(n) \/ PipDownload(n)
    PROVE  LibraryInv' /\ PackageInv'
<1>1. ASSUME NEW k \in {"package", "bundle"}, NEW s \in {"open", "list"}, k = "package" => s = "open",
             Go(n, [Idle EXCEPT !.kind = k, !.step = s])
      PROVE  Apart(n) /\ Away(job'[n])
  <2> DEFINE j == [Idle EXCEPT !.kind = k, !.step = s]
  <2>1. j \in Jobs /\ j.kind = k /\ j.step = s
    BY JobConstants DEF Jobs, Kinds, JobSteps
  <2>2. Go(n, j)
    BY <1>1
  <2> HIDE DEF j
  <2>3. job' \in [Requests -> Jobs] /\ job'[n] = j /\ \A m \in Requests \ {n} : job'[m] = job[m]
    BY <2>1, <2>2, GoFacts DEF LibraryInv
  <2> QED BY <1>1, <2>1, <2>3 DEF Apart, Away, UsesPart, Lists
<1>2. ASSUME Go(n, Ended)
      PROVE  Apart(n) /\ Away(job'[n])
  BY <1>2, JobConstants, GoFacts DEF LibraryInv, Apart, Away, UsesPart, Lists
<1>3. Apart(n) /\ Away(job'[n])
  BY <1>1, <1>2 DEF BeginPackage, PipDownload
<1>4. UNCHANGED <<unchangedLibrary, part, package, listed, shared>>
  BY DEF BeginPackage, PipDownload, packageVars
<1>5. PackageInv'
  BY <1>3, <1>4 DEF PackageInv, Apart, Away, UsesPart, Lists
<1> QED BY <1>3, <1>4, <1>5, ApartKeeps

\* Each step of a request keeps the package cache's invariant, and the library's.
LEMMA PackageStepKeeps ==
    ASSUME LibraryInv, PackageInv, NEW n \in Requests, PackageStep(n)
    PROVE  LibraryInv' /\ PackageInv'
<1>0. UNCHANGED unchangedLibrary
  BY DEF PackageStep, OpenPart, FinishDownload, DownloadFails, VerifyFails, RenamePart, CleanUp,
     ListPackage, ListLocked, ListBundle
<1>1. ASSUME NEW s \in JobSteps, GoTo(n, s), job[n].kind = "package"
      PROVE  Apart(n) /\ job'[n].step = s /\ job'[n].kind = "package"
  BY <1>1, GoToFacts DEF LibraryInv, Apart
<1>2. ASSUME Return(n)
      PROVE  Apart(n) /\ Away(job'[n])
  BY <1>2, ReturnFacts DEF LibraryInv, Apart, Away, UsesPart, Lists
<1>3. CASE OpenPart(n)
  <2>1. Apart(n) /\ job'[n].step = "download" /\ job'[n].kind = "package"
    BY <1>1, <1>3 DEF OpenPart, At, JobSteps
  <2>2. /\ part' = "partial" /\ UNCHANGED <<package, listed>>
        /\ shared' = (shared \/ \E m \in Requests : UsesPart(job[m]))
    BY <1>3 DEF OpenPart, Downloading, At, UsesPart
  <2>3. shared' \in BOOLEAN
    BY <2>2
  <2>4. PackageInv'
    BY <2>1, <2>2, <2>3 DEF PackageInv, Apart, UsesPart, Lists
  <2> QED BY <1>0, <2>1, <2>4, ApartKeeps
<1>4. CASE FinishDownload(n)
  <2>1. Apart(n) /\ job'[n].step = "verify" /\ job'[n].kind = "package" /\ UsesPart(job[n])
    BY <1>1, <1>4 DEF FinishDownload, Downloading, At, JobSteps, UsesPart
  <2>2. /\ part' \in {"partial", "whole"} /\ (shared \/ part' = "whole")
        /\ UNCHANGED <<package, listed, shared>>
    BY <1>4 DEF FinishDownload
  <2>3. PackageInv'
    BY <2>1, <2>2 DEF PackageInv, Apart, UsesPart, Lists
  <2> QED BY <1>0, <2>1, <2>3, ApartKeeps
<1>5. CASE DownloadFails(n) \/ VerifyFails(n)
  <2>1. Apart(n) /\ job'[n].step = "cleanup" /\ job'[n].kind = "package"
    BY <1>1, <1>5 DEF DownloadFails, VerifyFails, AfterFailure, Downloading, At, JobSteps
  <2>2. UNCHANGED packageVars
    BY <1>5 DEF DownloadFails, VerifyFails
  <2>3. PackageInv'
    BY <2>1, <2>2, QuietPackage DEF Apart, Away, UsesPart, Lists, Alike
  <2> QED BY <1>0, <2>1, <2>3, ApartKeeps
<1>6. CASE RenamePart(n)
  <2>0. UsesPart(job[n]) /\ job[n].step = "verify"
    BY <1>6 DEF RenamePart, At, UsesPart
  <2>1. CASE part # "none" /\ package' = part /\ part' = "none" /\ GoTo(n, "list")
    <3>1. Apart(n) /\ job'[n].step = "list" /\ job'[n].kind = "package"
      BY <1>1, <1>6, <2>1 DEF RenamePart, At, JobSteps
    <3>2. UNCHANGED <<listed, shared>>
      BY <1>6 DEF RenamePart
    <3>3. PackageInv'
      BY <2>0, <2>1, <3>1, <3>2 DEF PackageInv, Apart, UsesPart, Lists
    <3> QED BY <1>0, <3>1, <3>3, ApartKeeps
  <2>2. CASE GoTo(n, "cleanup") /\ UNCHANGED <<part, package>>
    <3>1. Apart(n) /\ job'[n].step = "cleanup" /\ job'[n].kind = "package"
      BY <1>1, <1>6, <2>2 DEF RenamePart, At, JobSteps
    <3>2. UNCHANGED <<listed, shared>>
      BY <1>6 DEF RenamePart
    <3>3. PackageInv'
      BY <2>2, <3>1, <3>2 DEF PackageInv, Apart, UsesPart, Lists
    <3> QED BY <1>0, <3>1, <3>3, ApartKeeps
  <2> QED BY <1>6, <2>1, <2>2 DEF RenamePart
<1>7. CASE CleanUp(n)
  <2>1. Apart(n) /\ Away(job'[n])
    BY <1>2, <1>7 DEF CleanUp
  <2>2. part' \in {"none", part} /\ UNCHANGED <<package, listed, shared>>
    BY <1>7 DEF CleanUp
  <2>3. PackageInv'
    BY <2>1, <2>2 DEF PackageInv, Apart, Away, UsesPart, Lists
  <2> QED BY <1>0, <2>1, <2>3, ApartKeeps
<1>8. CASE ListPackage(n)
  <2>1. Apart(n) /\ Away(job'[n])
    BY <1>2, <1>8 DEF ListPackage
  <2>2. Lists(job[n]) /\ UNCHANGED <<part, package, shared>>
    BY <1>8 DEF ListPackage, Lists, At
  <2>3. PackageInv'
    BY <2>1, <2>2 DEF PackageInv, Apart, Away, UsesPart, Lists
  <2> QED BY <1>0, <2>1, <2>3, ApartKeeps
<1>9. CASE ListLocked(n) \/ ListBundle(n)
  <2>1. Apart(n) /\ Away(job'[n])
    BY <1>2, <1>9 DEF ListLocked, ListBundle
  <2>2. UNCHANGED <<part, package, listed, shared>>
    BY <1>9 DEF ListLocked, ListBundle, packageVars
  <2>3. PackageInv'
    BY <2>1, <2>2 DEF PackageInv, Apart, Away, UsesPart, Lists
  <2> QED BY <1>0, <2>1, <2>3, ApartKeeps
<1> QED BY <1>3, <1>4, <1>5, <1>6, <1>7, <1>8, <1>9 DEF PackageStep
-----------------------------------------------------------------------------
(* Routes in order *)

LEMMA RoutesAreFinite == IsFiniteSet(Routes)
<1>1. RouteList \in [1..Len(RouteList) -> Routes] /\ Len(RouteList) \in Nat
  BY RouteAssumption DEF Routes
<1>2. RouteList \in Surjection(1..Len(RouteList), Routes)
  BY <1>1 DEF Surjection, Routes
<1>3. IsFiniteSet(1..Len(RouteList))
  BY <1>1, FS_Interval
<1> QED BY <1>2, <1>3, FS_Surjection

\* An order of some routes is a sequence of just these.
LEMMA OrderFacts ==
    ASSUME NEW S \in SUBSET Routes, NEW q \in Orders(S)
    PROVE  q \in Seq(Routes) /\ {q[k] : k \in 1..Len(q)} = S
<1>1. Cardinality(S) \in Nat
  BY RoutesAreFinite, FS_Subset, FS_CardinalityType
<1>2. q \in [1..Cardinality(S) -> S] /\ {q[k] : k \in DOMAIN q} = S
  BY DEF Orders
<1>3. q \in Seq(S) /\ DOMAIN q = 1..Len(q)
  BY <1>1, <1>2
<1>4. q \in Seq(Routes)
  BY <1>3
<1> QED BY <1>2, <1>3, <1>4

LEMMA ConcatFacts ==
    ASSUME NEW p \in Seq(Routes), NEW q \in Seq(Routes)
    PROVE  /\ p \o q \in Seq(Routes)
           /\ {(p \o q)[k] : k \in 1..Len(p \o q)}
                = {p[k] : k \in 1..Len(p)} \cup {q[k] : k \in 1..Len(q)}
<1>1. /\ p \o q \in Seq(Routes) /\ Len(p \o q) = Len(p) + Len(q)
      /\ Len(p) \in Nat /\ Len(q) \in Nat
  OBVIOUS
<1>2. \A k \in 1..Len(p) : (p \o q)[k] = p[k]
  OBVIOUS
<1>3. \A k \in 1..Len(q) : (p \o q)[k + Len(p)] = q[k]
  BY <1>1
<1>4. \A k \in 1..Len(p \o q) : k \in 1..Len(p) \/ \E i \in 1..Len(q) : k = i + Len(p)
  <2> TAKE k \in 1..Len(p \o q)
  <2>1. CASE k <= Len(p)
    BY <1>1, <2>1
  <2>2. CASE k > Len(p)
    <3>1. k - Len(p) \in 1..Len(q) /\ k = (k - Len(p)) + Len(p)
      BY <1>1, <2>2
    <3> QED BY <3>1
  <2> QED BY <1>1, <2>1, <2>2
<1>5. /\ \A k \in 1..Len(p) : k \in 1..Len(p \o q)
      /\ \A k \in 1..Len(q) : k + Len(p) \in 1..Len(p \o q)
  BY <1>1
<1> DEFINE s == p \o q
<1>6. {s[k] : k \in 1..Len(s)} \subseteq {p[k] : k \in 1..Len(p)} \cup {q[k] : k \in 1..Len(q)}
  BY <1>2, <1>3, <1>4
<1>7. {p[k] : k \in 1..Len(p)} \subseteq {s[k] : k \in 1..Len(s)}
  BY <1>2, <1>5
<1>8. {q[k] : k \in 1..Len(q)} \subseteq {s[k] : k \in 1..Len(s)}
  BY <1>3, <1>5
<1> QED BY <1>1, <1>6, <1>7, <1>8

LEMMA TailFacts ==
    ASSUME NEW q \in Seq(Routes), q # <<>>
    PROVE  /\ Head(q) \in Routes /\ Tail(q) \in Seq(Routes)
           /\ Head(q) \in {q[k] : k \in 1..Len(q)}
           /\ {q[k] : k \in 1..Len(q)} = {Head(q)} \cup {Tail(q)[k] : k \in 1..Len(Tail(q))}
<1>1. /\ Len(q) \in Nat \ {0} /\ Head(q) = q[1] /\ Head(q) \in Routes
      /\ Tail(q) \in Seq(Routes) /\ Len(Tail(q)) = Len(q) - 1
  OBVIOUS
<1>2. \A k \in 1..Len(Tail(q)) : Tail(q)[k] = q[k + 1] /\ k + 1 \in 1..Len(q)
  BY <1>1
<1>3. \A k \in 1..Len(q) : k = 1 \/ (k - 1 \in 1..Len(Tail(q)) /\ Tail(q)[k - 1] = q[k])
  BY <1>1, <1>2
<1> QED BY <1>1, <1>2, <1>3

-----------------------------------------------------------------------------
(* The steps of the providers *)

\* What a chat saw of the routes that are free does not matter to its soundness, and tiers are
\* only ever approved.
Same(c, d) == /\ c.step = d.step /\ c.task = d.task /\ c.tier = d.tier /\ c.queue = d.queue
              /\ c.began = d.began /\ c.failed = d.failed /\ c.proposed = d.proposed

LEMMA RouterKeeps ==
    ASSUME RouterInv,
           pinned' \in [AllTasks -> [tier : Tiers \cup {None}, model : Models]],
           \A t \in AllTasks : pinned'[t].tier \in {None} \cup Allowed(t)',
           approved' \in [AllTasks -> SUBSET Tiers],
           \A t \in AllTasks : approved[t] \subseteq approved'[t],
           chat' \in [Chats -> ChatRecords],
           \A m \in Chats : IsSound(chat'[m]) \/ Same(chat'[m], chat[m])
    PROVE  RouterInv'
<1>1. RouterTypes' /\ PinsAreAllowed'
  BY DEF RouterTypes, PinsAreAllowed
<1>2. ASSUME NEW m \in Chats
      PROVE  IsSound(chat'[m])
  BY <1>2 DEF RouterInv, ChatsAreSound, IsSound, Same, Queued, InTier
<1>3. ASSUME NEW m \in Chats
      PROVE  IsSound(chat[m])'
  <2>1. IsSound(chat'[m])
    BY <1>2
  <2>2. \A t \in AllTasks : Allowed(t) \subseteq Allowed(t)'
    BY DEF Allowed
  <2>3. (chat[m].step)' \in {"pin", "order", "call", "exhausted", "asked"} =>
           (chat[m].tier)' \in Allowed(chat[m].task)'
    BY <2>1, <2>2 DEF IsSound
  <2> QED BY <2>1, <2>3 DEF IsSound, Queued, InTier
<1> QED BY <1>1, <1>3 DEF RouterInv, ChatsAreSound

\* the usual cases: one chat goes on, and its task may be pinned
LEMMA OneChatKeeps ==
    ASSUME RouterInv, NEW n \in Chats, NEW c \in ChatRecords, IsSound(c), Say(n, c),
           UNCHANGED <<pinned, approved>>
    PROVE  RouterInv'
<1>1. chat' \in [Chats -> ChatRecords]
  BY DEF RouterInv, RouterTypes, Say
<1>2. chat'[n] = c /\ \A m \in Chats \ {n} : chat'[m] = chat[m]
  BY DEF RouterInv, RouterTypes, Say
<1>3. \A m \in Chats : IsSound(chat'[m])
  BY <1>2 DEF RouterInv, ChatsAreSound
<1> QED BY <1>1, <1>3, RouterKeeps DEF RouterInv, RouterTypes, PinsAreAllowed, Allowed

LEMMA PinnedKeeps ==
    ASSUME RouterInv, NEW n \in Chats, NEW c \in ChatRecords, IsSound(c), Say(n, c),
           NEW t \in AllTasks, NEW tier \in Tiers \cap Allowed(t), NEW model \in Models,
           Pin(t, tier, model), UNCHANGED approved
    PROVE  RouterInv'
<1>1. chat' \in [Chats -> ChatRecords]
  BY DEF RouterInv, RouterTypes, Say
<1>2. chat'[n] = c /\ \A m \in Chats \ {n} : chat'[m] = chat[m]
  BY DEF RouterInv, RouterTypes, Say
<1>3. \A m \in Chats : IsSound(chat'[m])
  BY <1>2 DEF RouterInv, ChatsAreSound
<1>4. pinned' \in [AllTasks -> [tier : Tiers \cup {None}, model : Models]]
  BY DEF RouterInv, RouterTypes, Pin
<1>5. pinned'[t].tier = tier /\ \A u \in AllTasks \ {t} : pinned'[u] = pinned[u]
  BY DEF RouterInv, RouterTypes, Pin
<1>6. \A u \in AllTasks : pinned'[u].tier \in {None} \cup Allowed(u)'
  BY <1>5 DEF RouterInv, PinsAreAllowed, Allowed
<1> QED BY <1>1, <1>3, <1>4, <1>6, RouterKeeps DEF RouterInv, RouterTypes

\* what a chat is when only its step changes
LEMMA SteppedFacts ==
    ASSUME NEW c \in ChatRecords, NEW s \in ChatSteps
    PROVE  LET d == [c EXCEPT !.step = s]
           IN  /\ d \in ChatRecords /\ d.step = s /\ d.task = c.task /\ d.tier = c.tier
               /\ d.model = c.model /\ d.queue = c.queue /\ d.began = c.began
               /\ d.failed = c.failed /\ d.proposed = c.proposed
BY DEF ChatRecords

LEMMA StartKeeps ==
    ASSUME RouterInv, NEW n \in Chats, NEW t \in AllTasks, StartChat(n, t)
    PROVE  RouterInv'
<1> DEFINE c == [Silent EXCEPT !.step = "read", !.task = t]
<1>1. Silent \in ChatRecords
  BY DEF Silent, ChatRecords, ChatSteps, Models
<1>2. c \in ChatRecords /\ c.step = "read" /\ c.task = t
  BY <1>1 DEF ChatRecords, ChatSteps
<1>3. Say(n, c) /\ UNCHANGED <<pinned, approved>>
  BY DEF StartChat
<1> HIDE DEF c
<1>4. IsSound(c)
  BY <1>2 DEF IsSound
<1> QED BY <1>2, <1>3, <1>4, OneChatKeeps

\* A chat that is over, or of which nothing is said, is sound.
LEMMA OverKeeps ==
    ASSUME RouterInv, NEW n \in Chats, NEW s \in {"answered", "failed", "done"}, SayStep(n, s),
           s = "done" \/ chat[n].step \notin {"idle", "done"}, UNCHANGED <<pinned, approved>>
    PROVE  RouterInv'
<1> DEFINE c == [chat[n] EXCEPT !.step = s]
<1>1. chat[n] \in ChatRecords /\ IsSound(chat[n])
  BY DEF RouterInv, RouterTypes, ChatsAreSound
<1>2. c \in ChatRecords /\ c.step = s /\ c.task = chat[n].task
  <2>1. s \in ChatSteps
    BY DEF ChatSteps
  <2> QED BY <1>1, <2>1, SteppedFacts
<1>3. Say(n, c)
  BY DEF SayStep
<1> HIDE DEF c
<1>4. IsSound(c)
  BY <1>1, <1>2 DEF IsSound
<1> QED BY <1>2, <1>3, <1>4, OneChatKeeps

LEMMA ReadKeeps == ASSUME RouterInv, NEW n \in Chats, ReadTask(n) PROVE RouterInv'
<1> DEFINE task == pinned[chat[n].task]
           tier == IF task.tier = None THEN DefaultTier ELSE task.tier
           free == InTier(Available, tier)
<1>1. chat[n] \in ChatRecords /\ chat[n].task \in AllTasks /\ chat[n].step = "read"
  BY DEF RouterInv, RouterTypes, ChatsAreSound, IsSound, ReadTask
<1>2. /\ task \in [tier : Tiers \cup {None}, model : Models]
      /\ task.tier \in {None} \cup Allowed(chat[n].task)
  BY <1>1 DEF RouterInv, RouterTypes, PinsAreAllowed
<1>3. tier \in Tiers \cap Allowed(chat[n].task)
  BY <1>2 DEF Tiers, Allowed
<1>4. UNCHANGED <<pinned, approved>>
  BY DEF ReadTask
<1>5. ASSUME NEW s \in {"order", "pin"}, NEW model \in Models,
             Say(n, [chat[n] EXCEPT !.step = s, !.tier = tier, !.model = model])
      PROVE  RouterInv'
  <2> DEFINE c == [chat[n] EXCEPT !.step = s, !.tier = tier, !.model = model]
  <2> HIDE DEF tier
  <2>1. c \in ChatRecords /\ c.step = s /\ c.task = chat[n].task /\ c.tier = tier
    BY <1>1, <1>3 DEF ChatRecords, ChatSteps
  <2>2. Say(n, c)
    BY <1>5
  <2> HIDE DEF c
  <2>3. IsSound(c)
    BY <1>1, <1>3, <2>1 DEF IsSound
  <2> QED BY <1>4, <2>1, <2>2, <2>3, OneChatKeeps
<1>6. CASE task.model # None /\ Say(n, [chat[n] EXCEPT !.step = "order", !.tier = tier, !.model = task.model])
  BY <1>2, <1>5, <1>6
<1>7. CASE \E r \in FirstOf(free) :
              Say(n, [chat[n] EXCEPT !.step = "pin", !.tier = tier, !.model = Model[r]])
  <2>1. FirstOf(free) \subseteq Routes
    BY DEF FirstOf, Routes
  <2>2. \A r \in FirstOf(free) : Model[r] \in Models
    BY <2>1 DEF Models
  <2> QED BY <1>5, <1>7, <2>2
<1>8. CASE SayStep(n, "failed")
  BY <1>1, <1>4, <1>8, OverKeeps
<1> QED BY <1>6, <1>7, <1>8 DEF ReadTask

LEMMA PinKeeps == ASSUME RouterInv, NEW n \in Chats, PinTask(n) PROVE RouterInv'
<1> DEFINE c == [chat[n] EXCEPT !.step = "order"]
<1>1. /\ chat[n] \in ChatRecords /\ IsSound(chat[n]) /\ chat[n].step = "pin"
      /\ chat[n].task \in AllTasks /\ chat[n].tier \in Allowed(chat[n].task)
  BY DEF RouterInv, RouterTypes, ChatsAreSound, IsSound, PinTask
<1>2. "order" \in ChatSteps
  BY DEF ChatSteps
<1>3. c \in ChatRecords /\ c.step = "order" /\ c.task = chat[n].task /\ c.tier = chat[n].tier
  BY <1>1, <1>2, SteppedFacts
<1>4. Say(n, c) /\ Pin(chat[n].task, chat[n].tier, chat[n].model) /\ UNCHANGED approved
  BY DEF PinTask, SayStep
<1> HIDE DEF c
<1>5. IsSound(c)
  BY <1>1, <1>3 DEF IsSound
<1>6. chat[n].tier \in Tiers /\ chat[n].model \in Models
  BY <1>1 DEF ChatRecords, Allowed, Tiers, RouterInv, RouterTypes
<1> QED BY <1>1, <1>3, <1>4, <1>5, <1>6, PinnedKeeps

LEMMA OrderKeeps == ASSUME RouterInv, NEW n \in Chats, OrderRoutes(n) PROVE RouterInv'
<1> DEFINE mine == InTier(Available, chat[n].tier)
           same == {r \in mine : Model[r] = chat[n].model}
           others == OtherModels(mine, chat[n].model)
<1>1. /\ chat[n] \in ChatRecords /\ chat[n].step = "order"
      /\ chat[n].task \in AllTasks /\ chat[n].tier \in Allowed(chat[n].task)
  BY DEF RouterInv, RouterTypes, ChatsAreSound, IsSound, OrderRoutes
<1>2. Available \subseteq Routes /\ mine \in SUBSET Routes
  BY DEF Available, InTier
<1>3. same \in SUBSET Routes /\ others \in SUBSET Routes /\ same \cup others = mine
  BY <1>2 DEF OtherModels
<1> HIDE DEF same, others
<1>4. PICK first \in Orders(same), second \in Orders(others) :
         Say(n, [chat[n] EXCEPT !.queue = first \o second, !.free = Available, !.began = Available,
                                !.step = IF first \o second = <<>> THEN "exhausted" ELSE "call"])
  BY DEF OrderRoutes, same, others
<1> DEFINE queue == first \o second
<1>5. queue \in Seq(Routes) /\ {queue[k] : k \in 1..Len(queue)} = mine
  <2>1. /\ first \in Seq(Routes) /\ {first[k] : k \in 1..Len(first)} = same
        /\ second \in Seq(Routes) /\ {second[k] : k \in 1..Len(second)} = others
    BY <1>3, OrderFacts
  <2> QED BY <1>3, <2>1, ConcatFacts
<1>6. queue = <<>> => mine = {}
  BY <1>5
<1> DEFINE s == IF queue = <<>> THEN "exhausted" ELSE "call"
           c == [chat[n] EXCEPT !.queue = queue, !.free = Available, !.began = Available, !.step = s]
<1>7. Say(n, c)
  BY <1>4
<1> HIDE DEF queue, mine
<1>8. s \in {"exhausted", "call"} /\ s \in ChatSteps
  BY DEF ChatSteps
<1>9. s = "call" <=> queue # <<>>
  OBVIOUS
<1> HIDE DEF s
<1>10. /\ c \in ChatRecords /\ c.step = s /\ c.task = chat[n].task /\ c.tier = chat[n].tier
       /\ c.queue = queue /\ c.began = Available
  BY <1>1, <1>2, <1>5, <1>8 DEF ChatRecords
<1> HIDE DEF c
<1>11. Queued(c) = mine /\ mine = InTier(c.began, c.tier)
  BY <1>5, <1>10 DEF Queued, mine
<1>12. \A r \in mine : Tier[r] = c.tier
  BY <1>11 DEF InTier
<1>13. IsSound(c)
  BY <1>1, <1>6, <1>8, <1>9, <1>10, <1>11, <1>12 DEF IsSound
<1> QED BY <1>7, <1>10, <1>13, OneChatKeeps DEF OrderRoutes

LEMMA AnswerKeeps == ASSUME RouterInv, NEW n \in Chats, Answer(n) PROVE RouterInv'
<1> DEFINE r == Head(chat[n].queue)
           c == [chat[n] EXCEPT !.step = "answered"]
<1>1. /\ chat[n] \in ChatRecords /\ IsSound(chat[n]) /\ chat[n].step = "call"
      /\ chat[n].task \in AllTasks /\ chat[n].tier \in Allowed(chat[n].task)
  BY DEF RouterInv, RouterTypes, ChatsAreSound, IsSound, Answer
<1>2. chat[n].queue \in Seq(Routes) /\ chat[n].queue # <<>>
  BY <1>1 DEF ChatRecords, IsSound
<1>3. r \in Routes /\ r \in Queued(chat[n])
  BY <1>2, TailFacts DEF Queued
<1>4. Tier[r] = chat[n].tier /\ Tier[r] \in Tiers /\ Model[r] \in Models
  BY <1>1, <1>3 DEF IsSound, Tiers, Models
<1>5. "answered" \in ChatSteps
  BY DEF ChatSteps
<1>6. c \in ChatRecords /\ c.step = "answered" /\ c.task = chat[n].task
  BY <1>1, <1>5, SteppedFacts
<1>7. Say(n, c) /\ Pin(chat[n].task, Tier[r], Model[r]) /\ UNCHANGED approved
  BY DEF Answer, SayStep
<1> HIDE DEF c, r
<1>8. IsSound(c)
  BY <1>1, <1>6 DEF IsSound
<1>9. Tier[r] \in Tiers \cap Allowed(chat[n].task)
  BY <1>1, <1>4
<1> QED BY <1>1, <1>4, <1>6, <1>7, <1>8, <1>9, PinnedKeeps

\* A chat whose route failed is sound on its next one: what left the queue has failed.
LEMMA AdvancedFacts ==
    ASSUME NEW c \in ChatRecords, IsSound(c), c.step = "call"
    PROVE  Advanced(c) \in ChatRecords /\ IsSound(Advanced(c))
<1> DEFINE rest == Tail(c.queue)
           r == Head(c.queue)
           s == IF rest = <<>> THEN "exhausted" ELSE "call"
           d == [c EXCEPT !.queue = rest, !.failed = @ \cup {r}, !.free = @ \ {r}, !.step = s]
<1>1. d = Advanced(c)
  BY DEF Advanced
<1>2. c.queue \in Seq(Routes) /\ c.queue # <<>> /\ c.failed \in SUBSET Routes /\ c.free \in SUBSET Routes
  BY DEF ChatRecords, IsSound
<1>3. /\ r \in Routes /\ rest \in Seq(Routes)
      /\ Queued(c) = {r} \cup {rest[k] : k \in 1..Len(rest)}
  BY <1>2, TailFacts DEF Queued
<1>4. s \in {"exhausted", "call"} /\ s \in ChatSteps
  BY DEF ChatSteps
<1>5. s = "call" <=> rest # <<>>
  OBVIOUS
<1> HIDE DEF rest, r, s
<1>6. /\ d \in ChatRecords /\ d.step = s /\ d.task = c.task /\ d.tier = c.tier /\ d.queue = rest
      /\ d.began = c.began /\ d.failed = c.failed \cup {r}
  BY <1>2, <1>3, <1>4 DEF ChatRecords
<1>7. rest = <<>> => {rest[k] : k \in 1..Len(rest)} = {}
  OBVIOUS
<1> HIDE DEF d
<1>8. /\ Queued(c) = {r} \cup Queued(d)
      /\ s = "exhausted" => Queued(d) = {}
  <2>1. Queued(d) = {rest[k] : k \in 1..Len(rest)}
    BY <1>6 DEF Queued
  <2>2. Queued(c) = {r} \cup Queued(d)
    BY <1>3, <2>1
  <2>3. s = "exhausted" => rest = <<>>
    BY <1>4, <1>5
  <2> QED BY <1>7, <2>1, <2>2, <2>3
<1>9. IsSound(d)
  BY <1>4, <1>5, <1>6, <1>8 DEF IsSound
<1> QED BY <1>1, <1>6, <1>9

LEMMA FailureKeeps == ASSUME RouterInv, NEW n \in Chats, Rejects(n) \/ Backs(n) PROVE RouterInv'
<1> DEFINE r == Head(chat[n].queue)
<1>1. chat[n] \in ChatRecords /\ IsSound(chat[n]) /\ chat[n].step = "call"
  BY DEF RouterInv, RouterTypes, ChatsAreSound, Rejects, Backs
<1>2. Advanced(chat[n]) \in ChatRecords /\ IsSound(Advanced(chat[n]))
  BY <1>1, AdvancedFacts
<1>3. ASSUME NEW m \in Chats
      PROVE  SeesRest(m, r) \in ChatRecords /\ Same(SeesRest(m, r), chat[m])
  <2>1. chat[m] \in ChatRecords
    BY DEF RouterInv, RouterTypes
  <2> QED BY <2>1 DEF ChatRecords, SeesRest, Same
<1>4. UNCHANGED <<pinned, approved>>
  BY DEF Rejects, Backs
<1> DEFINE Seen(after) == [m \in Chats |-> IF m = n THEN Advanced(chat[n])
                                           ELSE IF m \in after THEN chat[m] ELSE SeesRest(m, r)]
<1>5. PICK after \in SUBSET Chats : chat' = Seen(after)
  <2>1. CASE chat' = [m \in Chats |-> IF m = n THEN Advanced(chat[n]) ELSE SeesRest(m, r)]
    <3>1. chat' = Seen({})
      BY <2>1
    <3>2. {} \in SUBSET Chats
      OBVIOUS
    <3> HIDE DEF Seen
    <3> QED BY <3>1, <3>2
  <2>2. CASE \E after \in SUBSET {m \in Chats \ {n} : Talking(m)} : chat' = Seen(after)
    <3>1. PICK after \in SUBSET {m \in Chats \ {n} : Talking(m)} : chat' = Seen(after)
      BY <2>2
    <3>2. after \in SUBSET Chats
      OBVIOUS
    <3> HIDE DEF Seen
    <3> QED BY <3>1, <3>2
  <2> QED BY <2>1, <2>2 DEF Rejects, Backs
<1> HIDE DEF r
<1>6. \A m \in Chats : chat[m] \in ChatRecords /\ Same(chat[m], chat[m])
  BY DEF RouterInv, RouterTypes, Same
<1>7. \A m \in Chats : /\ chat'[m] \in ChatRecords
                       /\ IsSound(chat'[m]) \/ Same(chat'[m], chat[m])
  BY <1>2, <1>3, <1>5, <1>6
<1>8. chat' \in [Chats -> ChatRecords]
  BY <1>5, <1>7
<1> QED BY <1>4, <1>7, <1>8, RouterKeeps DEF RouterInv, RouterTypes, PinsAreAllowed, Allowed

LEMMA ExhaustedKeeps == ASSUME RouterInv, NEW n \in Chats, Exhausted(n) PROVE RouterInv'
<1>1. /\ chat[n] \in ChatRecords /\ IsSound(chat[n]) /\ chat[n].step = "exhausted"
      /\ UNCHANGED <<pinned, approved>>
  BY DEF RouterInv, RouterTypes, ChatsAreSound, Exhausted, AskFor
<1>2. CASE SayStep(n, "failed")
  BY <1>1, <1>2, OverKeeps
<1>3. CASE \E r \in Available : Say(n, [chat[n] EXCEPT !.step = "asked", !.proposed = Tier[r]])
  <2>1. PICK r \in Available : Say(n, [chat[n] EXCEPT !.step = "asked", !.proposed = Tier[r]])
    BY <1>3
  <2> DEFINE c == [chat[n] EXCEPT !.step = "asked", !.proposed = Tier[r]]
  <2>2. Tier[r] \in Tiers
    BY DEF Available, Tiers
  <2>3. "asked" \in ChatSteps
    BY DEF ChatSteps
  <2>4. /\ c \in ChatRecords /\ c.step = "asked" /\ c.task = chat[n].task /\ c.tier = chat[n].tier
        /\ c.began = chat[n].began /\ c.failed = chat[n].failed /\ c.proposed = Tier[r]
    BY <1>1, <2>2, <2>3 DEF ChatRecords
  <2>5. Say(n, c)
    BY <2>1
  <2> HIDE DEF c
  <2>6. IsSound(c)
    BY <1>1, <2>2, <2>4 DEF IsSound
  <2> QED BY <1>1, <2>4, <2>5, <2>6, OneChatKeeps
<1> QED BY <1>2, <1>3 DEF Exhausted

LEMMA ApproveKeeps ==
    ASSUME RouterInv, NEW t \in AllTasks, NEW tier \in Tiers, ApproveTier(t, tier)
    PROVE  RouterInv'
<1>1. /\ Pin(t, tier, None) /\ UNCHANGED chat
      /\ approved' = [approved EXCEPT ![t] = @ \cup {tier}]
  BY DEF ApproveTier
<1>2. /\ approved' \in [AllTasks -> SUBSET Tiers] /\ tier \in approved'[t]
      /\ \A u \in AllTasks : approved[u] \subseteq approved'[u]
  BY <1>1 DEF RouterInv, RouterTypes
<1>3. None \in Models
  BY DEF Models
<1>4. pinned' \in [AllTasks -> [tier : Tiers \cup {None}, model : Models]]
  BY <1>1, <1>3 DEF RouterInv, RouterTypes, Pin
<1>5. pinned'[t].tier = tier /\ \A u \in AllTasks \ {t} : pinned'[u] = pinned[u]
  BY <1>1 DEF RouterInv, RouterTypes, Pin
<1>6. \A u \in AllTasks : pinned'[u].tier \in {None} \cup Allowed(u)'
  BY <1>2, <1>5 DEF RouterInv, PinsAreAllowed, Allowed
<1>7. chat' \in [Chats -> ChatRecords] /\ \A m \in Chats : IsSound(chat'[m])
  BY <1>1 DEF RouterInv, RouterTypes, ChatsAreSound
<1> QED BY <1>2, <1>4, <1>6, <1>7, RouterKeeps

LEMMA RouterCrashKeeps == ASSUME RouterInv, RouterCrash PROVE RouterInv'
<1> DEFINE over == [Silent EXCEPT !.step = "done"]
<1>1. /\ Silent \in ChatRecords /\ Silent.step = "idle"
      /\ over \in ChatRecords /\ over.step = "done"
  <2>1. Silent \in ChatRecords /\ Silent.step = "idle"
    BY DEF Silent, ChatRecords, ChatSteps, Models
  <2>2. "done" \in ChatSteps
    BY DEF ChatSteps
  <2> QED BY <2>1, <2>2, SteppedFacts
<1>2. IsSound(Silent) /\ IsSound(over)
  BY <1>1 DEF IsSound
<1> HIDE DEF over
<1>3. \A m \in Chats : chat'[m] \in {Silent, over}
  BY DEF RouterCrash, over
<1>4. chat' \in [Chats -> ChatRecords]
  BY <1>1, <1>3 DEF RouterCrash
<1>5. None \in Tiers \cup {None} /\ None \in Models
  BY DEF Models
<1>6. pinned' \in [AllTasks -> [tier : Tiers \cup {None}, model : Models]]
  BY <1>5 DEF RouterCrash
<1>7. \A t \in AllTasks : pinned'[t].tier = None
  BY DEF RouterCrash
<1>8. \A m \in Chats : IsSound(chat'[m])
  BY <1>2, <1>3
<1>9. UNCHANGED approved /\ approved \in [AllTasks -> SUBSET Tiers]
  BY DEF RouterCrash, RouterInv, RouterTypes
<1> QED BY <1>4, <1>6, <1>7, <1>8, <1>9, RouterKeeps

LEMMA QuietRouter == ASSUME RouterInv, UNCHANGED <<pinned, chat, approved>> PROVE RouterInv'
BY DEF RouterInv, RouterTypes, PinsAreAllowed, ChatsAreSound, IsSound, Allowed, Queued, InTier

LEMMA ChatStepKeeps == ASSUME RouterInv, NEW n \in Chats, ChatStep(n) PROVE RouterInv'
<1>1. CASE Refuses(n)
  BY <1>1, OverKeeps DEF Refuses
<1> QED BY <1>1, ReadKeeps, PinKeeps, OrderKeeps, AnswerKeeps, FailureKeeps, ExhaustedKeeps DEF ChatStep

-----------------------------------------------------------------------------
(* The server *)

\* what a step of the server leaves alone keeps its part of the invariant
LEMMA LibraryAlone ==
    ASSUME LibraryInv, PackageInv, UNCHANGED <<libraryVars, packageVars>>
    PROVE  LibraryInv' /\ PackageInv'
<1>1. /\ UNCHANGED <<object, catalog, algorithms, raced, mixed, job, packageVars>>
      /\ job' \in [Requests -> Jobs]
  BY DEF libraryVars, files, history, LibraryInv, LibraryTypes
<1>2. \A m \in Requests : Alike(job'[m], job[m])
  BY <1>1 DEF Alike
<1> QED BY <1>1, <1>2, QuietLibrary, QuietPackage

LEMMA RouterAlone == ASSUME RouterInv, UNCHANGED routerVars PROVE RouterInv'
BY QuietRouter DEF routerVars

LEMMA ServeKeeps ==
    ASSUME LibraryInv, PackageInv, RouterInv, NEW n \in Requests, Serve(n)
    PROVE  LibraryInv' /\ PackageInv' /\ RouterInv'
<1>1. CASE LibraryStep(n) /\ UNCHANGED <<packageVars, routerVars, serverVars>>
  <2>1. LibraryInv' /\ Moves(n)
    BY <1>1, LibraryStepKeeps
  <2>2. PackageInv'
    BY <1>1, <2>1, QuietPackage DEF Moves, Away, UsesPart, Lists, Alike
  <2> QED BY <1>1, <2>1, <2>2, RouterAlone
<1>2. CASE PackageStep(n) /\ UNCHANGED <<routerVars, serverVars>>
  BY <1>2, PackageStepKeeps, RouterAlone
<1>3. CASE ChatStep(n) /\ UNCHANGED <<libraryVars, packageVars, serverVars>>
  BY <1>3, ChatStepKeeps, LibraryAlone, ServerAssumption
<1> QED BY <1>1, <1>2, <1>3 DEF Serve

LEMMA ArrivalKeeps ==
    ASSUME LibraryInv, PackageInv, RouterInv, NEW n \in Requests, StartLibrary(n)
    PROVE  LibraryInv' /\ PackageInv' /\ RouterInv'
<1>1. CASE Begin(n) /\ UNCHANGED packageVars
  <2>1. LibraryInv' /\ \A m \in Requests : Away(job'[m]) \/ Alike(job'[m], job[m])
    BY <1>1, BeginKeeps
  <2>2. PackageInv'
    BY <1>1, <2>1, QuietPackage
  <2> QED BY <2>1, <2>2, RouterAlone DEF StartLibrary
<1>2. CASE BeginPackage(n) \/ PipDownload(n)
  BY <1>2, BeginPackageKeeps, RouterAlone DEF StartLibrary
<1> QED BY <1>1, <1>2 DEF StartLibrary

\* The history of the documents that were stored twice only grows.
LEMMA RacedGrows ==
    ASSUME NEW n \in Requests, LibraryStep(n)
    PROVE  raced \subseteq raced'
<1>1. CASE OpenObject(n)
  BY <1>1 DEF OpenObject
<1>2. CASE Harvest(n)
  BY <1>2 DEF Harvest
<1>3. CASE UNCHANGED history
  BY <1>3 DEF history
<1> QED BY <1>1, <1>2, <1>3 DEF LibraryStep, FetchCandidate, WriteObject, WriteFails, InsertDocument,
      FinishCollect, ScanNext, RecordAlgorithm, RecordCollides, UnlinkVolumes, ClearRows, OpenVolume,
      LockRows, CommitVolume, VolumeFails, AllPacked, Locked, ReadCatalog, WriteManifest

LEMMA ImportKeeps ==
    ASSUME IInv, NEW d \in Docs, ImportFile(d), UNCHANGED libraryVars
    PROVE  KnowledgeIsWhole'
<1>1. d \in Rows => object[d] # "partial" \/ d \in raced
  BY DEF IInv, LibraryInv, WholeDocuments
<1>2. UNCHANGED raced
  BY DEF libraryVars
<1>3. \A e \in Docs : kb'[e] = "partial" => \/ kb[e] = "partial"
                                            \/ e = d /\ d \in Rows /\ object[d] = "partial"
  BY DEF ImportFile
<1> QED BY <1>1, <1>2, <1>3 DEF KnowledgeIsWhole, IInv

LEMMA KnowledgeKeeps ==
    ASSUME IInv, raced \subseteq raced', UNCHANGED kb
    PROVE  KnowledgeIsWhole'
BY DEF KnowledgeIsWhole, IInv

-----------------------------------------------------------------------------
(* The invariant *)

LEMMA InitInvariant == Init => IInv
<1> SUFFICES ASSUME Init PROVE IInv
  OBVIOUS
<1>1. LibraryInv
  <2>1. /\ object \in [Docs -> {"none", "partial", "whole"}]
        /\ catalog \in [Docs -> {NoRow} \cup Nat]
        /\ WholeDocuments /\ algorithms = 0 /\ mixed = FALSE
    <3>1. PICK old \in SUBSET Docs :
             /\ object = [d \in Docs |-> IF d \in old THEN "whole" ELSE "none"]
             /\ catalog = [d \in Docs |-> IF d \in old THEN Unpacked ELSE NoRow]
      BY DEF Init, LibraryInit
    <3>2. object \in [Docs -> {"none", "partial", "whole"}]
      BY <3>1
    <3>3. Unpacked \in Nat
      BY DEF Unpacked
    <3>4. catalog \in [Docs -> {NoRow} \cup Nat]
      BY <3>1, <3>3
    <3>5. WholeDocuments
      BY <3>1 DEF WholeDocuments, Rows
    <3> QED BY <3>2, <3>4, <3>5 DEF Init, LibraryInit
  <2>2. job \in [Requests -> Jobs] /\ \A n \in Requests : job[n] = Idle
    BY JobConstants DEF Init, LibraryInit
  <2>3. LibraryTypes
    BY <2>1, <2>2 DEF LibraryTypes
  <2>4. \A n \in Requests : Calm(job[n])
    BY <2>2, JobConstants DEF Calm, Records, Stores
  <2> QED BY <2>1, <2>3, <2>4 DEF LibraryInv, JobsAreSound, HarvestsAreApart, OneRecord, Calm
<1>2. PackageInv
  BY JobConstants DEF Init, LibraryInit, PackageInit, PackageInv, UsesPart, Lists
<1>3. RouterInv
  <2>1. Silent \in ChatRecords /\ IsSound(Silent)
    BY DEF Silent, ChatRecords, ChatSteps, Models, IsSound
  <2>2. None \in Tiers \cup {None} /\ None \in Models
    BY DEF Models
  <2> QED BY <2>1, <2>2 DEF Init, RouterInit, RouterInv, RouterTypes, PinsAreAllowed, ChatsAreSound
<1>4. KnowledgeIsWhole
  BY DEF Init, KnowledgeIsWhole
<1> QED BY <1>1, <1>2, <1>3, <1>4 DEF IInv

LEMMA StutterInvariant == ASSUME IInv, UNCHANGED vars PROVE IInv'
<1>1. UNCHANGED <<libraryVars, packageVars, routerVars, kb, raced>>
  BY DEF vars, serverVars, libraryVars
<1>2. LibraryInv' /\ PackageInv' /\ RouterInv'
  BY <1>1, LibraryAlone, RouterAlone DEF IInv
<1> QED BY <1>1, <1>2, KnowledgeKeeps DEF IInv

LEMMA NextInvariant == ASSUME IInv, Next PROVE IInv'
<1> USE DEF IInv
<1>1. ASSUME NEW m \in {"offline", "live"}, SetMode(m)
      PROVE  IInv'
  BY <1>1, LibraryAlone, RouterAlone, KnowledgeKeeps DEF SetMode, libraryVars
<1>2. ASSUME NEW n \in Requests, NEW t \in Tasks, PostChat(n, t)
      PROVE  IInv'
  <2>1. UNCHANGED <<libraryVars, packageVars, kb, raced>>
    BY <1>2 DEF PostChat, serverVars, libraryVars
  <2>2. n \in Chats /\ t \in AllTasks
    BY ServerAssumption DEF AllTasks
  <2>3. RouterInv'
    BY <1>2, <2>2, StartKeeps, OverKeeps DEF PostChat
  <2> QED BY <2>1, <2>3, LibraryAlone, KnowledgeKeeps
<1>3. ASSUME NEW t \in Tasks, NEW tier \in Tiers, UserApproves(t, tier)
      PROVE  IInv'
  <2>1. UNCHANGED <<libraryVars, packageVars, kb, raced>>
    BY <1>3 DEF UserApproves, serverVars, libraryVars
  <2>2. RouterInv'
    BY <1>3, ApproveKeeps DEF UserApproves, AllTasks
  <2> QED BY <2>1, <2>2, LibraryAlone, KnowledgeKeeps
<1>4. ASSUME NEW n \in Requests, StartLibrary(n)
      PROVE  IInv'
  <2>1. UNCHANGED <<kb, raced>>
    BY <1>4 DEF StartLibrary, serverVars, Begin, BeginCollect, BeginScan, BeginBuild, history,
       BeginPackage, PipDownload, unchangedLibrary
  <2> QED BY <1>4, <2>1, ArrivalKeeps, KnowledgeKeeps
<1>5. ASSUME NEW n \in Requests, NEW d \in Docs, ImportLive(n, d)
      PROVE  IInv'
  <2>1. UNCHANGED <<libraryVars, packageVars>>
    BY <1>5 DEF ImportLive, ImportFile
  <2>2. RouterInv'
    BY <1>5, StartKeeps, ServerAssumption DEF ImportLive, AllTasks
  <2> QED BY <1>5, <2>1, <2>2, LibraryAlone, ImportKeeps DEF ImportLive
<1>6. ASSUME NEW n \in Requests, Serve(n)
      PROVE  IInv'
  <2>1. UNCHANGED kb
    BY <1>6 DEF Serve, serverVars
  <2>2. raced \subseteq raced'
    <3>1. UNCHANGED raced \/ LibraryStep(n)
      BY <1>6 DEF Serve, libraryVars, PackageStep, OpenPart, FinishDownload, DownloadFails, VerifyFails,
         RenamePart, CleanUp, ListPackage, ListLocked, ListBundle, unchangedLibrary
    <3> QED BY <3>1, RacedGrows
  <2> QED BY <1>6, <2>1, <2>2, ServeKeeps, KnowledgeKeeps
<1>7. ASSUME NEW r \in Routes, RouteRests(r)
      PROVE  IInv'
  <2>1. UNCHANGED <<libraryVars, packageVars, kb, raced, pinned, chat, approved>>
    BY <1>7 DEF RouteRests, RestEnds, serverVars, libraryVars
  <2> QED BY <2>1, LibraryAlone, QuietRouter, KnowledgeKeeps
<1>8. ASSUME NEW d \in Docs, ImportOffline(d)
      PROVE  IInv'
  <2>1. UNCHANGED <<libraryVars, packageVars, routerVars>>
    BY <1>8 DEF ImportOffline, ImportFile
  <2> QED BY <1>8, <2>1, LibraryAlone, RouterAlone, ImportKeeps DEF ImportOffline
<1>9. ASSUME NEW d \in Docs, RemoveSource(d)
      PROVE  IInv'
  <2>1. UNCHANGED <<libraryVars, packageVars, routerVars, raced>>
    BY <1>9 DEF RemoveSource, libraryVars
  <2>2. KnowledgeIsWhole'
    BY <1>9, <2>1 DEF RemoveSource, KnowledgeIsWhole
  <2> QED BY <2>1, <2>2, LibraryAlone, RouterAlone
<1>10. ASSUME Crash
       PROVE  IInv'
  <2>1. LibraryInv' /\ \A m \in Requests : Away(job'[m])
    BY <1>10, CrashKeeps DEF Crash
  <2>2. PackageInv'
    BY <1>10, <2>1, QuietPackage DEF Crash
  <2>3. RouterInv'
    BY <1>10, RouterCrashKeeps DEF Crash
  <2>4. UNCHANGED <<kb, raced>>
    BY <1>10 DEF Crash, LibraryCrash, history
  <2> QED BY <2>1, <2>2, <2>3, <2>4, KnowledgeKeeps
<1> HIDE DEF IInv
<1> QED BY <1>1, <1>2, <1>3, <1>4, <1>5, <1>6, <1>7, <1>8, <1>9, <1>10 DEF Next

\* In every reachable state the library, the package cache, the provider pool and the knowledge
\* base keep their invariants, whatever requests overlap and wherever the process ends.
THEOREM InductiveInvariant == Spec => []IInv
BY InitInvariant, NextInvariant, StutterInvariant, PTL DEF Spec

\* What the catalog says of a file is so, an algorithm has one record and the knowledge base no
\* cut-off text, through requests of every kind that overlap, fail and are interrupted
\* (hkr.py, knowledge.py).
THEOREM LibraryKeepsItsWord == Spec => []LibraryIsSound
BY InductiveInvariant, PTL DEF IInv, LibraryInv, LibraryIsSound

\* A package that is listed as stored is there, and whole, unless two downloads of it shared its
\* ".part" file (hkr.py, cache_software).
THEOREM StoredPackageIsWhole == Spec => []ListedIsWhole
<1>1. IInv => ListedIsWhole
  BY DEF IInv, PackageInv, ListedIsWhole
<1> QED BY <1>1, InductiveInvariant, PTL

\* No provider is called in a tier that is neither the default one nor approved for the task
\* (cloud_router.py).
THEOREM NoTierIsCrossed == Spec => []OnlyApprovedTiers
<1>1. ASSUME RouterInv, NEW n \in Chats, chat[n].step = "call"
      PROVE  Tier[Head(chat[n].queue)] \in Allowed(chat[n].task)
  <2>1. chat[n] \in ChatRecords /\ IsSound(chat[n])
    BY <1>1 DEF RouterInv, RouterTypes, ChatsAreSound
  <2>2. chat[n].queue \in Seq(Routes) /\ chat[n].queue # <<>>
    BY <1>1, <2>1 DEF ChatRecords, IsSound
  <2>3. Head(chat[n].queue) \in Queued(chat[n])
    BY <2>2, TailFacts DEF Queued
  <2> QED BY <1>1, <2>1, <2>3 DEF IsSound
<1>2. IInv => OnlyApprovedTiers
  BY <1>1 DEF IInv, OnlyApprovedTiers, Allowed
<1> QED BY <1>2, InductiveInvariant, PTL

\* The user is asked for another tier only when no route of the task's tier is left
\* (cloud_router.py).
THEOREM UserIsAskedLast == Spec => []AskedWhenExhausted
<1>1. IInv => AskedWhenExhausted
  BY DEF IInv, RouterInv, ChatsAreSound, IsSound, AskedWhenExhausted
<1> QED BY <1>1, InductiveInvariant, PTL

-----------------------------------------------------------------------------
(* Builds *)

\* the row names a volume, and the volume holds the document
Packed(d) == catalog[d] \in Volumes /\ d \in zip[catalog[d]]

\* a build that no other build overlapped
Alone(j) == j.kind = "build" /\ j.alone

\* What such a build has done: the documents it has dealt with are in volumes before its next
\* one, of which there are at most as many as documents, and nobody moves them.
BuildIsSound(j) ==
    /\ j.packed \subseteq Rows
    /\ j.step \in {"unlink", "clear"} => j.todo = j.packed /\ j.vol = 1
    /\ j.step \in {"pack", "update", "commit"} =>
          /\ j.todo \subseteq j.packed
          /\ j.vol >= 1 /\ j.vol <= 1 + Cardinality(j.packed \ j.todo)
          /\ \A d \in j.packed \ j.todo : Packed(d) /\ catalog[d] < j.vol
    /\ j.step \in {"update", "commit"} => j.todo # {}
    /\ j.step \in {"export", "publish"} => \A d \in j.packed : Packed(d)
    /\ j.step = "publish" => j.packed \subseteq j.todo

BuildsAreSound ==
    /\ zip \in [Volumes -> (SUBSET Docs) \cup {NoFile}]
    /\ \A n \in Requests : Alone(job[n]) => /\ BuildIsSound(job[n])
                                            /\ \A m \in Requests \ {n} : job[m].kind # "build"

\* A build does not see what others do with documents that have no row yet.
LEMMA BuildsKept ==
    ASSUME BuildsAreSound, zip' = zip, Rows \subseteq Rows',
           \A d \in Rows : catalog'[d] = catalog[d],
           \A m \in Requests : job'[m].kind = "build" => job'[m] = job[m]
    PROVE  BuildsAreSound'
<1>1. ASSUME NEW j, BuildIsSound(j)
      PROVE  BuildIsSound(j)'
  <2>1. j.packed \subseteq Rows /\ j.packed \subseteq Rows'
    BY <1>1 DEF BuildIsSound
  <2>2. \A d \in j.packed : Packed(d)' = Packed(d) /\ catalog'[d] = catalog[d]
    BY <2>1 DEF Packed
  <2> HIDE DEF Packed
  <2> QED BY <1>1, <2>1, <2>2 DEF BuildIsSound
<1>2. ASSUME NEW n \in Requests, Alone(job'[n])
      PROVE  BuildIsSound(job[n])' /\ \A m \in Requests \ {n} : job'[m].kind # "build"
  <2>1. job'[n] = job[n] /\ Alone(job[n])
    BY <1>2 DEF Alone
  <2>2. BuildIsSound(job[n]) /\ \A m \in Requests \ {n} : job[m].kind # "build"
    BY <2>1 DEF BuildsAreSound
  <2>3. BuildIsSound(job'[n])
    BY <2>1, <2>2
  <2>4. BuildIsSound(job[n])'
    BY <1>1, <2>3
  <2> QED BY <2>2, <2>4
<1> QED BY <1>2 DEF BuildsAreSound, Alone

\* the step of a build: another one cannot be alone
LEMMA BuildStep ==
    ASSUME BuildsAreSound, zip' \in [Volumes -> (SUBSET Docs) \cup {NoFile}],
           NEW n \in Requests, job[n].kind = "build",
           \A m \in Requests \ {n} : job'[m] = job[m],
           job'[n].kind = "build" => job'[n].alone = job[n].alone,
           Alone(job[n]) /\ job'[n].kind = "build" => BuildIsSound(job[n])'
    PROVE  BuildsAreSound'
<1>1. ASSUME NEW k \in Requests, Alone(job'[k])
      PROVE  k = n
  BY <1>1 DEF Alone, BuildsAreSound
<1>2. ASSUME Alone(job'[n])
      PROVE  BuildIsSound(job[n])' /\ \A m \in Requests \ {n} : job'[m].kind # "build"
  BY <1>2 DEF Alone, BuildsAreSound
<1> QED BY <1>1, <1>2 DEF BuildsAreSound, Alone

\* a request goes on to another point, or ends
LEMMA GoToFrame ==
    ASSUME LibraryTypes, NEW n \in Requests, NEW s \in JobSteps, GoTo(n, s)
    PROVE  /\ job'[n].step = s /\ job'[n].kind = job[n].kind /\ job'[n].todo = job[n].todo
           /\ job'[n].packed = job[n].packed /\ job'[n].vol = job[n].vol
           /\ job'[n].alone = job[n].alone
           /\ \A m \in Requests \ {n} : job'[m] = job[m]
<1>1. job[n] \in Jobs
  BY DEF LibraryTypes
<1> DEFINE j == [job[n] EXCEPT !.step = s]
<1>2. /\ j \in Jobs /\ j.step = s /\ j.kind = job[n].kind /\ j.todo = job[n].todo
      /\ j.packed = job[n].packed /\ j.vol = job[n].vol
  BY <1>1 DEF Jobs
<1>3. j.alone = job[n].alone
  BY <1>1 DEF Jobs
<1>4. Go(n, j)
  BY DEF GoTo
<1> QED BY <1>2, <1>3, <1>4, GoFacts

LEMMA BuildEnds ==
    ASSUME LibraryTypes, BuildsAreSound, zip' \in [Volumes -> (SUBSET Docs) \cup {NoFile}],
           NEW n \in Requests, job[n].kind = "build", Return(n)
    PROVE  BuildsAreSound'
BY ReturnFacts, BuildStep

\* The old volumes are gone: each document is to be dealt with.
LEMMA UnlinkSound ==
    ASSUME LibraryTypes, BuildsAreSound, NEW n \in Requests, UnlinkVolumes(n)
    PROVE  BuildsAreSound'
<1>1. job[n].kind = "build" /\ job[n].step = "unlink" /\ UNCHANGED catalog
  BY DEF UnlinkVolumes, At
<1>2. zip' \in [Volumes -> (SUBSET Docs) \cup {NoFile}]
  <2>1. PICK gone \in SUBSET Volumes :
           zip' = [v \in Volumes |-> IF v \in gone THEN NoFile ELSE zip[v]]
    BY DEF UnlinkVolumes
  <2>2. \A v \in Volumes : zip[v] \in (SUBSET Docs) \cup {NoFile}
    BY DEF BuildsAreSound
  <2>3. \A v \in Volumes : zip'[v] \in (SUBSET Docs) \cup {NoFile}
    BY <2>1, <2>2
  <2>4. zip' = [v \in Volumes |-> zip'[v]]
    BY <2>1
  <2> QED BY <2>3, <2>4
<1>3. CASE Return(n)
  BY <1>1, <1>2, <1>3, BuildEnds
<1>4. CASE GoTo(n, "clear")
  <2>1. /\ job'[n].step = "clear" /\ job'[n].kind = "build" /\ job'[n].todo = job[n].todo
        /\ job'[n].packed = job[n].packed /\ job'[n].vol = job[n].vol
        /\ job'[n].alone = job[n].alone
        /\ \A m \in Requests \ {n} : job'[m] = job[m]
    BY <1>1, <1>4, GoToFrame DEF JobSteps
  <2>2. Alone(job[n]) => BuildIsSound(job[n])'
    BY <1>1, <2>1 DEF BuildsAreSound, BuildIsSound, Rows
  <2> QED BY <1>1, <1>2, <2>1, <2>2, BuildStep
<1> QED BY <1>3, <1>4 DEF UnlinkVolumes

LEMMA ClearSound ==
    ASSUME LibraryTypes, BuildsAreSound, NEW n \in Requests, ClearRows(n)
    PROVE  BuildsAreSound'
<1>1. job[n].kind = "build" /\ job[n].step = "clear" /\ UNCHANGED zip /\ GoTo(n, "pack")
  BY DEF ClearRows, At, files
<1>2. Rows' = Rows
  BY DEF ClearRows, Rows, Unpacked, NoRow
<1>3. /\ job'[n].step = "pack" /\ job'[n].kind = "build" /\ job'[n].todo = job[n].todo
      /\ job'[n].packed = job[n].packed /\ job'[n].vol = job[n].vol
      /\ job'[n].alone = job[n].alone
      /\ \A m \in Requests \ {n} : job'[m] = job[m]
  BY <1>1, GoToFrame DEF JobSteps
<1>4. ASSUME Alone(job[n])
      PROVE  BuildIsSound(job[n])'
  <2>1. job[n].packed \subseteq Rows /\ job[n].todo = job[n].packed /\ job[n].vol = 1
    BY <1>1, <1>4 DEF BuildsAreSound, BuildIsSound
  <2>2. job'[n].packed \ job'[n].todo = {} /\ job'[n].vol = 1
    BY <1>3, <2>1
  <2>3. Cardinality(job'[n].packed \ job'[n].todo) = 0
    BY <2>2, FS_EmptySet
  <2> QED BY <1>2, <1>3, <2>1, <2>2, <2>3 DEF BuildIsSound
<1> QED BY <1>1, <1>3, <1>4, BuildStep DEF BuildsAreSound

\* The next volume is opened: none of the documents dealt with is in it.
LEMMA OpenSound ==
    ASSUME LibraryTypes, BuildsAreSound, NEW n \in Requests, OpenVolume(n)
    PROVE  BuildsAreSound'
<1>1. /\ job[n].kind = "build" /\ job[n].step = "pack" /\ job[n].todo # {}
      /\ UNCHANGED catalog /\ GoTo(n, "update") /\ zip' = [zip EXCEPT ![job[n].vol] = {}]
  BY DEF OpenVolume, At
<1>2. zip' \in [Volumes -> (SUBSET Docs) \cup {NoFile}]
  BY <1>1 DEF BuildsAreSound
<1>3. /\ job'[n].step = "update" /\ job'[n].kind = "build" /\ job'[n].todo = job[n].todo
      /\ job'[n].packed = job[n].packed /\ job'[n].vol = job[n].vol
      /\ job'[n].alone = job[n].alone
      /\ \A m \in Requests \ {n} : job'[m] = job[m]
  BY <1>1, GoToFrame DEF JobSteps
<1>4. ASSUME Alone(job[n])
      PROVE  BuildIsSound(job[n])'
  <2>1. BuildIsSound(job[n])
    BY <1>4 DEF BuildsAreSound
  <2>2. job[n].vol \in Nat
    BY DEF LibraryTypes, Jobs
  <2>3. ASSUME NEW d \in job[n].packed \ job[n].todo
        PROVE  Packed(d)' /\ catalog'[d] < job[n].vol
    <3>1. Packed(d) /\ catalog[d] < job[n].vol /\ catalog[d] \in Nat
      BY <1>1, <2>1, <2>3 DEF BuildIsSound, Packed, Volumes
    <3>2. zip'[catalog[d]] = zip[catalog[d]]
      BY <1>1, <2>2, <3>1 DEF Packed, BuildsAreSound
    <3> QED BY <1>1, <3>1, <3>2 DEF Packed
  <2>4. Rows' = Rows
    BY <1>1 DEF Rows
  <2> QED BY <1>1, <1>3, <2>1, <2>3, <2>4 DEF BuildIsSound
<1> QED BY <1>1, <1>2, <1>3, <1>4, BuildStep

\* Of n documents at most n volumes are made.
LEMMA NextVolume ==
    ASSUME NEW packed \in SUBSET Docs, NEW todo \in SUBSET packed, NEW bucket \in SUBSET todo,
           bucket # {}, NEW v \in Nat, v >= 1, v <= 1 + Cardinality(packed \ todo)
    PROVE  /\ v \in Volumes
           /\ v + 1 <= 1 + Cardinality(packed \ (todo \ bucket))
<1> DEFINE A == packed \ todo
           B == packed \ (todo \ bucket)
<1>1. A \subseteq B /\ B \subseteq Docs /\ A # B
  OBVIOUS
<1> HIDE DEF A, B
<1>2. IsFiniteSet(Docs) /\ IsFiniteSet(B) /\ IsFiniteSet(A)
  BY <1>1, DocsAssumption, FS_Subset
<1>3. Cardinality(A) <= Cardinality(B) /\ Cardinality(B) <= Cardinality(Docs)
  BY <1>1, <1>2, FS_Subset
<1>4. Cardinality(A) # Cardinality(B)
  BY <1>1, <1>2, FS_Subset
<1>5. Cardinality(A) \in Nat /\ Cardinality(B) \in Nat /\ Cardinality(Docs) \in Nat
  BY <1>2, FS_CardinalityType
<1>6. Cardinality(A) + 1 <= Cardinality(B)
  BY ONLY <1>3, <1>4, <1>5
<1>7. v <= 1 + Cardinality(A)
  BY DEF A
<1>8. v <= Cardinality(Docs) /\ v + 1 <= 1 + Cardinality(B)
  <2> DEFINE a == Cardinality(A)
             b == Cardinality(B)
             c == Cardinality(Docs)
  <2> HIDE DEF a, b, c
  <2>1. a \in Nat /\ b \in Nat /\ c \in Nat /\ a + 1 <= b /\ b <= c /\ v <= 1 + a
    BY <1>3, <1>5, <1>6, <1>7 DEF a, b, c
  <2>2. v <= c /\ v + 1 <= 1 + b
    BY <2>1
  <2> QED BY <2>2 DEF b, c
<1> QED BY <1>5, <1>8 DEF Volumes, B

LEMMA CommitSound ==
    ASSUME LibraryTypes, BuildsAreSound, NEW n \in Requests, CommitVolume(n)
    PROVE  BuildsAreSound'
<1>a. job[n] \in Jobs
  BY DEF LibraryTypes
<1>1. PICK bucket \in (SUBSET job[n].todo) \ {{}} :
        /\ zip' = [zip EXCEPT ![job[n].vol] = bucket]
        /\ catalog' = [d \in Docs |-> IF d \in bucket THEN job[n].vol ELSE catalog[d]]
        /\ Go(n, [job[n] EXCEPT !.todo = @ \ bucket, !.vol = @ + 1, !.step = "pack"])
  BY DEF CommitVolume, Recorded
<1>2. job[n].kind = "build" /\ job[n].step = "commit"
  BY DEF CommitVolume, At
<1> DEFINE todo == job[n].todo
           packed == job[n].packed
           v == job[n].vol
           rest == todo \ bucket
           next == v + 1
           j == [job[n] EXCEPT !.todo = rest, !.vol = next, !.step = "pack"]
<1>3. /\ todo \subseteq Docs /\ packed \subseteq Docs /\ v \in Nat /\ next \in Nat
      /\ bucket \subseteq todo /\ bucket # {} /\ rest \subseteq Docs
  <2>1. todo \subseteq Docs /\ packed \subseteq Docs /\ v \in Nat
    BY <1>a DEF Jobs
  <2>2. bucket \subseteq todo /\ bucket # {}
    BY <1>1
  <2> QED BY <2>1, <2>2
<1>4. Go(n, j)
  BY <1>1
<1> HIDE DEF rest, next
<1>5. j \in Jobs
  BY <1>a, <1>3 DEF Jobs, JobSteps
<1>6. /\ j.kind = "build" /\ j.step = "pack" /\ j.todo = rest /\ j.packed = packed
      /\ j.alone = job[n].alone
  BY <1>a, <1>2 DEF Jobs
<1>7. j.vol = next
  BY <1>a DEF Jobs
<1> HIDE DEF j
<1>8. job'[n] = j /\ \A m \in Requests \ {n} : job'[m] = job[m]
  BY <1>4, <1>5, GoFacts
<1>9. zip' \in [Volumes -> (SUBSET Docs) \cup {NoFile}]
  BY <1>1, <1>3 DEF BuildsAreSound
<1>10. ASSUME Alone(job[n])
       PROVE  BuildIsSound(job[n])'
  <2>1. /\ packed \subseteq Rows /\ todo \subseteq packed /\ v >= 1
        /\ v <= 1 + Cardinality(packed \ todo)
        /\ \A d \in packed \ todo : Packed(d) /\ catalog[d] < v
    BY <1>2, <1>10 DEF BuildsAreSound, BuildIsSound
  <2>2. v \in Volumes /\ v + 1 <= 1 + Cardinality(packed \ (todo \ bucket))
    BY <1>3, <2>1, NextVolume
  <2>3. next >= 1 /\ next <= 1 + Cardinality(packed \ rest)
    <3>1. next <= 1 + Cardinality(packed \ rest)
      BY <2>2 DEF next, rest
    <3> QED BY <1>3, <3>1 DEF next
  <2>4. ASSUME NEW d \in packed \ rest
        PROVE  Packed(d)' /\ catalog'[d] < next
    <3>1. d \in Docs
      BY <1>3
    <3>2. CASE d \in bucket
      <4>1. catalog'[d] = v /\ zip'[v] = bucket
        BY <1>1, <2>2, <3>1, <3>2 DEF BuildsAreSound
      <4> QED BY <1>3, <2>2, <3>2, <4>1 DEF Packed, next
    <3>3. CASE d \notin bucket
      <4>1. Packed(d) /\ catalog[d] < v
        BY <2>1, <2>4, <3>3 DEF rest
      <4>2. catalog'[d] = catalog[d] /\ catalog[d] \in Volumes /\ catalog[d] \in Nat
        BY <1>1, <3>1, <3>3, <4>1 DEF Packed, Volumes
      <4>3. zip'[catalog[d]] = zip[catalog[d]]
        BY <1>1, <1>3, <4>1, <4>2 DEF BuildsAreSound
      <4> QED BY <1>3, <4>1, <4>2, <4>3 DEF Packed, next
    <3> QED BY <3>2, <3>3
  <2>5. packed \subseteq Rows'
    <3>1. \A d \in packed : catalog'[d] = v \/ catalog'[d] = catalog[d]
      BY <1>1, <1>3
    <3> QED BY <1>3, <2>1, <3>1 DEF Rows, NoRow
  <2>6. rest \subseteq packed
    BY <2>1 DEF rest
  <2> HIDE DEF packed
  <2> QED BY <1>6, <1>7, <1>8, <2>3, <2>4, <2>5, <2>6 DEF BuildIsSound
<1> QED BY <1>2, <1>6, <1>8, <1>9, <1>10, BuildStep

\* The steps of a build that leave the catalog and the volumes alone.
LEMMA BuildGoesOn ==
    ASSUME LibraryTypes, BuildsAreSound, NEW n \in Requests,
           LockRows(n) \/ AllPacked(n)
    PROVE  BuildsAreSound'
<1>1. /\ job[n].kind = "build" /\ UNCHANGED <<catalog, zip>>
      /\ \/ job[n].step = "update" /\ GoTo(n, "commit")
         \/ job[n].step = "pack" /\ job[n].todo = {} /\ GoTo(n, "export")
  BY DEF LockRows, AllPacked, At, files
<1>2. /\ job'[n].step \in {"commit", "export"} /\ job'[n].kind = "build"
      /\ job'[n].step = "commit" => job[n].step = "update"
      /\ job'[n].step = "export" => job[n].step = "pack" /\ job[n].todo = {}
      /\ job'[n].todo = job[n].todo /\ job'[n].packed = job[n].packed
      /\ job'[n].vol = job[n].vol /\ job'[n].alone = job[n].alone
      /\ \A m \in Requests \ {n} : job'[m] = job[m]
  BY <1>1, GoToFrame DEF JobSteps
<1>3. Rows' = Rows /\ \A d : Packed(d)' = Packed(d)
  BY <1>1 DEF Rows, Packed
<1>4. Alone(job[n]) => BuildIsSound(job[n])'
  <2> SUFFICES ASSUME Alone(job[n]) PROVE BuildIsSound(job[n])'
    OBVIOUS
  <2>1. BuildIsSound(job[n])
    BY DEF BuildsAreSound
  <2> HIDE DEF Packed
  <2> QED BY <1>1, <1>2, <1>3, <2>1 DEF BuildIsSound
<1>5. zip' \in [Volumes -> (SUBSET Docs) \cup {NoFile}]
  BY <1>1 DEF BuildsAreSound
<1> QED BY <1>1, <1>2, <1>4, <1>5, BuildStep

\* The catalog a build reads has all its documents.
LEMMA ReadSound ==
    ASSUME LibraryTypes, BuildsAreSound, NEW n \in Requests, ReadCatalog(n)
    PROVE  BuildsAreSound'
<1> DEFINE j == [job[n] EXCEPT !.todo = Rows, !.step = "publish"]
<1>a. job[n] \in Jobs /\ Rows \subseteq Docs
  BY DEF LibraryTypes, Rows
<1>1. /\ job[n].kind \in {"collect", "build"} /\ job[n].step = "export"
      /\ UNCHANGED <<catalog, zip>> /\ Go(n, j)
  BY DEF ReadCatalog, At, files
<1>2. /\ j \in Jobs /\ j.step = "publish" /\ j.kind = job[n].kind /\ j.todo = Rows
      /\ j.packed = job[n].packed
  BY <1>a DEF Jobs, JobSteps
<1>3. j.alone = job[n].alone
  BY <1>a DEF Jobs
<1> HIDE DEF j
<1>4. job'[n] = j /\ \A m \in Requests \ {n} : job'[m] = job[m]
  BY <1>1, <1>2, GoFacts
<1>5. CASE job[n].kind = "collect"
  <2>1. Rows' = Rows
    BY <1>1 DEF Rows
  <2> QED BY <1>1, <1>2, <1>4, <1>5, <2>1, BuildsKept
<1>6. CASE job[n].kind = "build"
  <2>1. Rows' = Rows /\ \A d : Packed(d)' = Packed(d)
    BY <1>1 DEF Rows, Packed
  <2>2. ASSUME Alone(job[n]) PROVE BuildIsSound(job[n])'
    <3>1. BuildIsSound(job[n])
      BY <2>2 DEF BuildsAreSound
    <3> HIDE DEF Packed
    <3> QED BY <1>1, <1>2, <1>4, <2>1, <3>1 DEF BuildIsSound
  <2>3. zip' \in [Volumes -> (SUBSET Docs) \cup {NoFile}]
    BY <1>1 DEF BuildsAreSound
  <2> QED BY <1>2, <1>3, <1>4, <1>6, <2>2, <2>3, BuildStep
<1> QED BY <1>1, <1>5, <1>6

\* a step of a request that builds nothing, and ends or goes on as it was
\* A volume that could not be written leaves a part of itself, and no build that counts on it.
LEMMA VolumeSound ==
    ASSUME LibraryTypes, BuildsAreSound, NEW n \in Requests, VolumeFails(n)
    PROVE  BuildsAreSound'
<1>1. job[n].kind = "build" /\ Return(n) /\ job[n].todo \subseteq Docs
  BY DEF VolumeFails, At, LibraryTypes, Jobs
<1>2. PICK written \in SUBSET job[n].todo : zip' = [zip EXCEPT ![job[n].vol] = written]
  BY DEF VolumeFails
<1>3. zip' \in [Volumes -> (SUBSET Docs) \cup {NoFile}]
  BY <1>1, <1>2 DEF BuildsAreSound
<1> QED BY <1>1, <1>3, BuildEnds

LEMMA OtherStep ==
    ASSUME LibraryTypes, BuildsAreSound, UNCHANGED <<catalog, zip>>, NEW n \in Requests,
           job'[n].kind # "build", \A m \in Requests \ {n} : job'[m] = job[m]
    PROVE  BuildsAreSound'
<1>1. Rows' = Rows
  BY DEF Rows
<1> QED BY <1>1, BuildsKept

LEMMA InsertSound ==
    ASSUME LibraryTypes, BuildsAreSound, NEW n \in Requests, InsertDocument(n)
    PROVE  BuildsAreSound'
<1>1. job[n].kind = "collect" /\ UNCHANGED zip /\ (Return(n) \/ GoTo(n, "harvest"))
  BY DEF InsertDocument, At, files
<1>2. job'[n].kind # "build" /\ \A m \in Requests \ {n} : job'[m] = job[m]
  BY <1>1, ReturnFacts, GoToFrame DEF JobSteps
<1>3. \A d \in Rows : catalog'[d] = catalog[d]
  BY DEF InsertDocument, Rows, LibraryTypes
<1>4. Rows \subseteq Rows'
  BY <1>3 DEF Rows
<1> QED BY <1>1, <1>2, <1>3, <1>4, BuildsKept

Harvests(n) == \/ FetchCandidate(n) \/ OpenObject(n) \/ WriteObject(n) \/ WriteFails(n)
               \/ FinishCollect(n) \/ ScanNext(n) \/ Harvest(n) \/ RecordAlgorithm(n) \/ RecordCollides(n)

\* The steps of a collection or a scan, apart from the insertion.
LEMMA HarvestFrame ==
    ASSUME LibraryTypes, NEW n \in Requests, Harvests(n)
    PROVE  /\ UNCHANGED <<catalog, zip>> /\ job'[n].kind # "build"
           /\ \A m \in Requests \ {n} : job'[m] = job[m]
<1> USE DEF Harvests
<1>1. job[n].kind \in {"collect", "scan"} /\ UNCHANGED <<catalog, zip>>
  BY DEF FetchCandidate, OpenObject, WriteObject, WriteFails, FinishCollect, ScanNext, Harvest,
     RecordAlgorithm, RecordCollides, At, files
<1>2. job[n] \in Jobs
  BY DEF LibraryTypes
<1>3. \A d : [job[n] EXCEPT !.todo = @ \ {d}].kind = job[n].kind
  BY <1>2 DEF Jobs
<1>4. \A d, s : [job[n] EXCEPT !.todo = @ \ {d}, !.doc = d, !.step = s].kind = job[n].kind
  BY <1>2 DEF Jobs
<1>5. \A s : [job[n] EXCEPT !.step = s].kind = job[n].kind
  BY <1>2 DEF Jobs
<1>6. \A k : [job[n] EXCEPT !.step = "record", !.known = k].kind = job[n].kind
  BY <1>2 DEF Jobs
<1>7. \E j : Go(n, j) /\ j.kind # "build"
  <2>1. CASE FetchCandidate(n)
    <3>1. PICK d \in job[n].todo :
             \/ Go(n, [job[n] EXCEPT !.todo = @ \ {d}])
             \/ Go(n, [job[n] EXCEPT !.todo = @ \ {d}, !.doc = d, !.step = "open"])
      BY <1>2, <2>1 DEF FetchCandidate, AfterCheck, Jobs
    <3>2. [job[n] EXCEPT !.todo = @ \ {d}].kind # "build"
      BY <1>1, <1>3
    <3>3. [job[n] EXCEPT !.todo = @ \ {d}, !.doc = d, !.step = "open"].kind # "build"
      BY <1>1, <1>4
    <3> QED BY <3>1, <3>2, <3>3
  <2>2. CASE OpenObject(n) \/ WriteObject(n) \/ FinishCollect(n) \/ RecordAlgorithm(n)
    BY <1>1, <1>5, <2>2 DEF OpenObject, WriteObject, FinishCollect, RecordAlgorithm, GoTo
  <2>3. CASE WriteFails(n) \/ RecordCollides(n)
    BY <1>1, <1>5, <2>3, JobConstants DEF WriteFails, RecordCollides, GoTo, Return
  <2>4. CASE ScanNext(n)
    <3>1. CASE Return(n)
      BY <3>1, JobConstants DEF Return
    <3>2. CASE \E d \in job[n].todo :
                  Go(n, [job[n] EXCEPT !.todo = @ \ {d}, !.doc = d, !.step = "harvest"])
      <4>1. PICK d \in job[n].todo :
               Go(n, [job[n] EXCEPT !.todo = @ \ {d}, !.doc = d, !.step = "harvest"])
        BY <3>2
      <4>2. [job[n] EXCEPT !.todo = @ \ {d}, !.doc = d, !.step = "harvest"].kind # "build"
        BY <1>1, <1>4
      <4> QED BY <4>1, <4>2
    <3> QED BY <2>4, <3>1, <3>2 DEF ScanNext
  <2>5. CASE Harvest(n)
    BY <1>1, <1>5, <1>6, <2>5 DEF Harvest, GoTo
  <2> QED BY <2>1, <2>2, <2>3, <2>4, <2>5
<1>8. job'[n].kind # "build" /\ \A m \in Requests \ {n} : job'[m] = job[m]
  BY <1>7 DEF Go, LibraryTypes
<1> QED BY <1>1, <1>8

LEMMA LibraryBuilds ==
    ASSUME LibraryInv, BuildsAreSound, NEW n \in Requests, LibraryStep(n)
    PROVE  BuildsAreSound'
<1> USE DEF LibraryInv
<1>1. CASE Harvests(n)
  BY <1>1, HarvestFrame, OtherStep
<1>2. CASE Locked(n) \/ WriteManifest(n)
  <2>1. /\ UNCHANGED <<catalog, zip>>
        /\ Return(n) \/ (job[n].kind = "collect" /\ GoTo(n, "next"))
    BY <1>2 DEF Locked, WriteManifest, At, files
  <2>2. job'[n].kind # "build" /\ \A m \in Requests \ {n} : job'[m] = job[m]
    BY <2>1, ReturnFacts, GoToFrame DEF JobSteps
  <2> QED BY <2>1, <2>2, OtherStep
<1> QED BY <1>1, <1>2, InsertSound, UnlinkSound, ClearSound, OpenSound, BuildGoesOn, CommitSound,
           VolumeSound, ReadSound DEF LibraryStep, Harvests


-----------------------------------------------------------------------------
(* Builds, continued: requests that begin, and the end of the process *)

\* A second build ends the claim of the first, and its own.
LEMMA BeginSound ==
    ASSUME LibraryInv, BuildsAreSound, NEW n \in Requests, Begin(n)
    PROVE  BuildsAreSound'
<1>0. /\ UNCHANGED <<catalog, zip>> /\ Rows' = Rows
  BY DEF Begin, BeginCollect, BeginScan, BeginBuild, files, Rows
<1>a. LibraryTypes /\ Idle \in Jobs
  BY JobConstants DEF LibraryInv
<1>1. CASE BeginCollect(n) \/ BeginScan(n)
  <2>1. PICK k \in {"collect", "scan"}, t \in SUBSET Docs :
           Go(n, [Idle EXCEPT !.kind = k, !.step = "next", !.todo = t])
    BY <1>1 DEF BeginCollect, BeginScan, Rows
  <2>2. [Idle EXCEPT !.kind = k, !.step = "next", !.todo = t].kind = k
    BY <1>a DEF Jobs
  <2>3. job'[n].kind # "build" /\ \A m \in Requests \ {n} : job'[m] = job[m]
    BY <1>a, <2>1, <2>2 DEF Go, LibraryTypes
  <2> QED BY <1>0, <1>a, <2>3, OtherStep
<1>2. CASE BeginBuild(n)
  <2> DEFINE others == {m \in Requests : Building(m)}
             first == others = {}
             j == [Idle EXCEPT !.kind = "build", !.step = "unlink", !.todo = Rows,
                               !.packed = Rows, !.alone = first]
  <2>1. /\ job' = [m \in Requests |-> IF m = n THEN j
                                      ELSE IF m \in others THEN [job[m] EXCEPT !.alone = FALSE]
                                      ELSE job[m]]
        /\ job[n] = Idle
    BY <1>2 DEF BeginBuild
  <2> HIDE DEF first
  <2>2. /\ j.kind = "build" /\ j.step = "unlink" /\ j.todo = Rows /\ j.packed = Rows
        /\ j.alone = first
    BY <1>a DEF Jobs
  <2>3. j.vol = 1
    BY <1>a DEF Jobs, Idle
  <2> HIDE DEF j
  <2>4. \A m \in Requests : m \in others <=> job[m].kind = "build"
    BY DEF Building
  <2> HIDE DEF others
  <2>5. ASSUME NEW m \in Requests \ {n}
        PROVE  ~Alone(job'[m]) /\ (job'[m].kind = "build" => m \in others)
    <3>1. CASE m \in others
      <4>1. job'[m] = [job[m] EXCEPT !.alone = FALSE] /\ job[m] \in Jobs
        BY <1>a, <2>1, <3>1 DEF LibraryTypes
      <4>2. [job[m] EXCEPT !.alone = FALSE].alone = FALSE
        BY <4>1 DEF Jobs
      <4> QED BY <3>1, <4>1, <4>2 DEF Alone
    <3>2. CASE m \notin others
      <4>1. job'[m] = job[m]
        BY <2>1, <3>2
      <4> QED BY <2>4, <3>2, <4>1 DEF Alone
    <3> QED BY <3>1, <3>2
  <2>6. job'[n] = j
    BY <2>1
  <2>7. BuildIsSound(job[n])'
    BY <1>0, <2>2, <2>3, <2>6 DEF BuildIsSound
  <2>8. Alone(j) => \A m \in Requests \ {n} : job'[m].kind # "build"
    BY <2>2, <2>5 DEF Alone, first
  <2>9. zip' \in [Volumes -> (SUBSET Docs) \cup {NoFile}]
    BY <1>0 DEF BuildsAreSound
  <2>10. \A k \in Requests : Alone(job[k])' => k = n
    BY <2>5 DEF Alone
  <2>11. Alone(job[n])' => \A m \in Requests \ {n} : job'[m].kind # "build"
    BY <2>6, <2>8 DEF Alone
  <2> QED BY <2>7, <2>9, <2>10, <2>11 DEF BuildsAreSound
<1> QED BY <1>1, <1>2 DEF Begin

LEMMA CrashSound ==
    ASSUME BuildsAreSound, LibraryCrash
    PROVE  BuildsAreSound'
<1>1. \A m \in Requests : job'[m].kind = "idle"
  BY JobConstants DEF LibraryCrash
<1>2. UNCHANGED <<catalog, zip>>
  BY DEF LibraryCrash, files
<1> QED BY <1>1, <1>2 DEF BuildsAreSound, Alone

LEMMA PackageFrame ==
    ASSUME LibraryTypes, NEW n \in Requests,
           BeginPackage(n) \/ PipDownload(n) \/ PackageStep(n)
    PROVE  /\ UNCHANGED <<catalog, zip>> /\ job'[n].kind # "build"
           /\ \A m \in Requests \ {n} : job'[m] = job[m]
<1>a. LibraryTypes /\ Idle \in Jobs /\ job[n] \in Jobs
  BY JobConstants DEF LibraryTypes
<1>1. UNCHANGED <<catalog, zip>>
  BY DEF BeginPackage, PipDownload, PackageStep, OpenPart, FinishDownload, DownloadFails, VerifyFails,
     RenamePart, CleanUp, ListPackage, ListLocked, ListBundle, unchangedLibrary
<1>2. ASSUME NEW s, GoTo(n, s), job[n].kind = "package"
      PROVE  \E j : Go(n, j) /\ j.kind # "build"
  <2>1. [job[n] EXCEPT !.step = s].kind = job[n].kind
    BY <1>a DEF Jobs
  <2> QED BY <1>2, <2>1 DEF GoTo
<1>3. ASSUME Return(n)
      PROVE  \E j : Go(n, j) /\ j.kind # "build"
  BY <1>3, JobConstants DEF Return
<1>4. ASSUME NEW k \in {"package", "bundle"}, NEW s, Go(n, [Idle EXCEPT !.kind = k, !.step = s])
      PROVE  \E j : Go(n, j) /\ j.kind # "build"
  <2>1. [Idle EXCEPT !.kind = k, !.step = s].kind = k
    BY <1>a DEF Jobs
  <2> QED BY <1>4, <2>1
<1>5. \E j : Go(n, j) /\ j.kind # "build"
  <2>1. CASE BeginPackage(n) \/ PipDownload(n)
    BY <1>4, <2>1, JobConstants DEF BeginPackage, PipDownload
  <2>2. CASE OpenPart(n) \/ FinishDownload(n) \/ DownloadFails(n) \/ VerifyFails(n) \/ RenamePart(n)
    BY <1>2, <2>2 DEF OpenPart, FinishDownload, DownloadFails, VerifyFails, RenamePart, Downloading, At
  <2>3. CASE CleanUp(n) \/ ListPackage(n) \/ ListLocked(n) \/ ListBundle(n)
    BY <1>3, <2>3 DEF CleanUp, ListPackage, ListLocked, ListBundle
  <2> QED BY <2>1, <2>2, <2>3 DEF PackageStep
<1>6. job'[n].kind # "build" /\ \A m \in Requests \ {n} : job'[m] = job[m]
  BY <1>a, <1>5 DEF Go, LibraryTypes
<1> QED BY <1>1, <1>6

LEMMA PackageSound ==
    ASSUME LibraryInv, BuildsAreSound, NEW n \in Requests,
           BeginPackage(n) \/ PipDownload(n) \/ PackageStep(n)
    PROVE  BuildsAreSound'
BY PackageFrame, OtherStep DEF LibraryInv

LEMMA BuildsInit == Init => BuildsAreSound
<1> SUFFICES ASSUME Init PROVE BuildsAreSound
  OBVIOUS
<1>1. zip \in [Volumes -> (SUBSET Docs) \cup {NoFile}]
  BY DEF Init, LibraryInit
<1>2. \A n \in Requests : job[n].kind = "idle"
  BY JobConstants DEF Init, LibraryInit
<1> QED BY <1>1, <1>2 DEF BuildsAreSound, Alone

LEMMA BuildsAlone == ASSUME BuildsAreSound, UNCHANGED libraryVars PROVE BuildsAreSound'
<1>1. UNCHANGED <<catalog, zip, job>> /\ Rows' = Rows
  BY DEF libraryVars, files, Rows
<1> QED BY <1>1, BuildsKept

LEMMA BuildsNext == ASSUME IInv, BuildsAreSound, [Next]_vars PROVE BuildsAreSound'
<1>1. CASE UNCHANGED libraryVars
  BY <1>1, BuildsAlone
<1>2. CASE \E n \in Requests : LibraryStep(n)
  BY <1>2, LibraryBuilds DEF IInv
<1>3. CASE \E n \in Requests : Begin(n)
  BY <1>3, BeginSound DEF IInv
<1>4. CASE \E n \in Requests : BeginPackage(n) \/ PipDownload(n) \/ PackageStep(n)
  BY <1>4, PackageSound DEF IInv
<1>5. CASE LibraryCrash
  BY <1>5, CrashSound
<1>6. CASE UNCHANGED vars
  BY <1>1, <1>6 DEF vars
<1> QED BY <1>1, <1>2, <1>3, <1>4, <1>5, <1>6 DEF Next, SetMode, PostChat, UserApproves, StartLibrary,
      ImportLive, ImportOffline, ImportFile, RemoveSource, RouteRests, Serve, Crash

\* In every reachable state, what a build that no other one overlapped has done is in the volumes
\* and in the rows (hkr.py, build_volumes).
THEOREM BuildInvariant == Spec => [](IInv /\ BuildsAreSound)
<1>1. Init => IInv /\ BuildsAreSound
  BY InitInvariant, BuildsInit
<1>2. IInv /\ BuildsAreSound /\ [Next]_vars => (IInv /\ BuildsAreSound)'
  BY NextInvariant, StutterInvariant, BuildsNext
<1> QED BY <1>1, <1>2, PTL DEF Spec

\* A build that no other one overlapped ends with each of its documents in the volume its row
\* names, and in the manifest, whatever was collected, downloaded and imported meanwhile, and
\* whatever failed before (hkr.py, build_volumes and export_catalog).
THEOREM BuildsStayConsistent == Spec => BuildIsConsistent
<1>1. ASSUME IInv, BuildsAreSound, NEW n \in Requests, Building(n), job[n].alone, WriteManifest(n),
             NEW d \in job[n].packed
      PROVE  /\ catalog'[d] \in Volumes /\ d \in zip'[catalog'[d]] /\ d \in manifest'
  <2>1. BuildIsSound(job[n]) /\ job[n].step = "publish"
    BY <1>1 DEF BuildsAreSound, Alone, Building, WriteManifest, At
  <2>2. Packed(d) /\ d \in job[n].todo
    BY <2>1 DEF BuildIsSound
  <2>3. UNCHANGED <<catalog, zip>> /\ manifest' = job[n].todo
    BY <1>1 DEF WriteManifest, files
  <2> QED BY <2>2, <2>3 DEF Packed
<1> DEFINE Done == \A n \in Requests : Building(n) /\ job[n].alone /\ WriteManifest(n) =>
                      \A d \in job[n].packed : /\ catalog'[d] \in Volumes
                                               /\ d \in zip'[catalog'[d]]
                                               /\ d \in manifest'
<1>2. IInv /\ BuildsAreSound => Done
  BY <1>1
<1>3. (IInv /\ BuildsAreSound) /\ [Next]_vars => [Done]_libraryVars
  BY <1>2
<1> QED BY <1>3, BuildInvariant, PTL DEF Spec, BuildIsConsistent

-----------------------------------------------------------------------------
(* The types of the server: what the invariants of its parts do not say *)

\* a build never has more volumes behind it than documents
HasRoom(j) ==
    j.kind = "build" /\ j.step \in {"unlink", "clear", "pack", "update", "commit"} =>
        /\ j.todo \subseteq j.packed
        /\ j.vol >= 1 /\ j.vol <= 1 + Cardinality(j.packed \ j.todo)

BuildsHaveRoom == \A n \in Requests : HasRoom(job[n])

CatalogTypes ==
    /\ catalog \in [Docs -> {NoRow, Unpacked} \cup Volumes]
    /\ manifest \subseteq Docs /\ raced \subseteq Docs
    /\ lock \in Requests \cup {Nobody}
RowTypes == listed \in BOOLEAN /\ bundle \in {"none", "downloaded", "listed"}
RestTypes == resting \in [Routes -> {"no", "timed", "forever"}]
ModeTypes == /\ mode \in {"offline", "live"} /\ crashes \in 0..MaxCrashes
             /\ kb \in [Docs -> {"none", "stray", "partial", "whole"}]
ServerTypes == BuildsHaveRoom /\ CatalogTypes /\ RowTypes /\ RestTypes /\ ModeTypes

LEMMA RoomFrame ==
    ASSUME BuildsHaveRoom, NEW n \in Requests, \A m \in Requests \ {n} : job'[m] = job[m],
           HasRoom(job'[n])
    PROVE  BuildsHaveRoom'
BY DEF BuildsHaveRoom, HasRoom

\* A volume takes at least one of the documents left.
LEMMA CommitRoom ==
    ASSUME LibraryTypes, BuildsHaveRoom, NEW n \in Requests, CommitVolume(n)
    PROVE  BuildsHaveRoom' /\ job[n].vol \in Volumes
<1>a. job[n] \in Jobs
  BY DEF LibraryTypes
<1>1. PICK bucket \in (SUBSET job[n].todo) \ {{}} :
        Go(n, [job[n] EXCEPT !.todo = @ \ bucket, !.vol = @ + 1, !.step = "pack"])
  BY DEF CommitVolume
<1>2. job[n].kind = "build" /\ job[n].step = "commit"
  BY DEF CommitVolume, At
<1> DEFINE todo == job[n].todo
           packed == job[n].packed
           v == job[n].vol
           rest == todo \ bucket
           next == v + 1
           j == [job[n] EXCEPT !.todo = rest, !.vol = next, !.step = "pack"]
<1>3. /\ todo \subseteq Docs /\ packed \subseteq Docs /\ v \in Nat /\ next \in Nat
      /\ bucket \subseteq todo /\ bucket # {} /\ rest \subseteq Docs
  <2>1. todo \subseteq Docs /\ packed \subseteq Docs /\ v \in Nat
    BY <1>a DEF Jobs
  <2>2. bucket \subseteq todo /\ bucket # {}
    BY <1>1
  <2> QED BY <2>1, <2>2
<1>4. Go(n, j)
  BY <1>1
<1>5. todo \subseteq packed /\ v >= 1 /\ v <= 1 + Cardinality(packed \ todo)
  BY <1>2 DEF BuildsHaveRoom, HasRoom
<1>6. v \in Volumes /\ v + 1 <= 1 + Cardinality(packed \ (todo \ bucket))
  BY <1>3, <1>5, NextVolume
<1>7. next >= 1 /\ next <= 1 + Cardinality(packed \ rest) /\ rest \subseteq packed
  <2>1. next <= 1 + Cardinality(packed \ rest)
    BY <1>6 DEF next, rest
  <2>2. rest \subseteq packed
    BY <1>5 DEF rest
  <2> QED BY <1>3, <1>5, <2>1, <2>2 DEF next
<1> HIDE DEF rest, next
<1>8. j \in Jobs
  BY <1>a, <1>3 DEF Jobs, JobSteps
<1>9. j.todo = rest /\ j.packed = packed
  BY <1>a DEF Jobs
<1>10. j.vol = next
  BY <1>a DEF Jobs
<1> HIDE DEF j
<1>11. job'[n] = j /\ \A m \in Requests \ {n} : job'[m] = job[m]
  BY <1>4, <1>8, GoFacts
<1>12. HasRoom(job'[n])
  BY <1>7, <1>9, <1>10, <1>11 DEF HasRoom
<1> QED BY <1>6, <1>11, <1>12, RoomFrame

\* a build goes on with the documents it had
LEMMA SameRoom ==
    ASSUME LibraryTypes, BuildsHaveRoom, NEW n \in Requests, NEW s \in JobSteps, GoTo(n, s),
           \/ job[n].step \in {"unlink", "clear", "pack", "update", "commit"}
           \/ s \notin {"unlink", "clear", "pack", "update", "commit"}
    PROVE  BuildsHaveRoom'
<1>1. /\ job'[n].step = s /\ job'[n].kind = job[n].kind /\ job'[n].todo = job[n].todo
      /\ job'[n].packed = job[n].packed /\ job'[n].vol = job[n].vol
      /\ \A m \in Requests \ {n} : job'[m] = job[m]
  BY GoToFrame
<1>2. HasRoom(job[n])
  BY DEF BuildsHaveRoom
<1>3. HasRoom(job'[n])
  BY <1>1, <1>2 DEF HasRoom
<1> QED BY <1>1, <1>3, RoomFrame

LEMMA OtherRoom ==
    ASSUME BuildsHaveRoom, NEW n \in Requests, job'[n].kind # "build",
           \A m \in Requests \ {n} : job'[m] = job[m]
    PROVE  BuildsHaveRoom'
BY RoomFrame DEF HasRoom

LEMMA LibraryRoom ==
    ASSUME LibraryTypes, BuildsHaveRoom, NEW n \in Requests, LibraryStep(n)
    PROVE  BuildsHaveRoom'
<1>1. CASE Harvests(n)
  BY <1>1, HarvestFrame, OtherRoom
<1>2. ASSUME Return(n)
      PROVE  BuildsHaveRoom'
  BY <1>2, ReturnFacts, OtherRoom
<1>3. CASE InsertDocument(n)
  <2>1. job[n].kind = "collect" /\ (Return(n) \/ GoTo(n, "harvest"))
    BY <1>3 DEF InsertDocument, At
  <2> QED BY <1>2, <2>1, SameRoom DEF JobSteps
<1>4. CASE UnlinkVolumes(n) \/ ClearRows(n) \/ OpenVolume(n) \/ LockRows(n) \/ AllPacked(n)
  <2>1. \/ Return(n)
        \/ \E s \in {"clear", "pack", "update", "commit", "export"} :
              GoTo(n, s) /\ job[n].step \in {"unlink", "clear", "pack", "update"}
    BY <1>4 DEF UnlinkVolumes, ClearRows, OpenVolume, LockRows, AllPacked, At
  <2> QED BY <1>2, <2>1, SameRoom DEF JobSteps
<1>5. CASE CommitVolume(n)
  BY <1>5, CommitRoom
<1>6. CASE Locked(n) \/ WriteManifest(n)
  <2>1. Return(n) \/ GoTo(n, "next")
    BY <1>6 DEF Locked, WriteManifest
  <2> QED BY <1>2, <2>1, SameRoom DEF JobSteps
<1>7. CASE ReadCatalog(n)
  <2> DEFINE j == [job[n] EXCEPT !.todo = Rows, !.step = "publish"]
  <2>1. job[n] \in Jobs /\ Rows \subseteq Docs /\ Go(n, j)
    BY <1>7 DEF LibraryTypes, ReadCatalog, Rows
  <2>2. j \in Jobs /\ j.step = "publish"
    BY <2>1 DEF Jobs, JobSteps
  <2> HIDE DEF j
  <2>3. job'[n] = j /\ \A m \in Requests \ {n} : job'[m] = job[m]
    BY <2>1, <2>2, GoFacts
  <2>4. HasRoom(job'[n])
    BY <2>2, <2>3 DEF HasRoom
  <2> QED BY <2>3, <2>4, RoomFrame
<1>8. CASE VolumeFails(n)
  BY <1>2, <1>8 DEF VolumeFails
<1> QED BY <1>1, <1>3, <1>4, <1>5, <1>6, <1>7, <1>8 DEF LibraryStep, Harvests

LEMMA BeginRoom ==
    ASSUME LibraryTypes, BuildsHaveRoom, NEW n \in Requests, Begin(n)
    PROVE  BuildsHaveRoom'
<1>a. Idle \in Jobs /\ Rows \subseteq Docs /\ job \in [Requests -> Jobs]
  BY JobConstants DEF LibraryTypes, Rows
<1>1. CASE BeginCollect(n) \/ BeginScan(n)
  <2>1. PICK k \in {"collect", "scan"}, t \in SUBSET Docs :
           Go(n, [Idle EXCEPT !.kind = k, !.step = "next", !.todo = t])
    BY <1>1 DEF BeginCollect, BeginScan, Rows
  <2>2. [Idle EXCEPT !.kind = k, !.step = "next", !.todo = t].kind = k
    BY <1>a DEF Jobs
  <2>3. job'[n].kind # "build" /\ \A m \in Requests \ {n} : job'[m] = job[m]
    BY <1>a, <2>1, <2>2 DEF Go
  <2> QED BY <2>3, OtherRoom
<1>2. CASE BeginBuild(n)
  <2> DEFINE others == {m \in Requests : Building(m)}
             first == others = {}
             j == [Idle EXCEPT !.kind = "build", !.step = "unlink", !.todo = Rows,
                               !.packed = Rows, !.alone = first]
  <2>1. job' = [m \in Requests |-> IF m = n THEN j
                                   ELSE IF m \in others THEN [job[m] EXCEPT !.alone = FALSE]
                                   ELSE job[m]]
    BY <1>2 DEF BeginBuild
  <2> HIDE DEF first
  <2>2. j.todo = Rows /\ j.packed = Rows
    BY <1>a DEF Jobs
  <2>3. j.vol = 1
    BY <1>a DEF Jobs, Idle
  <2> HIDE DEF j, others
  <2>4. Cardinality(Rows \ Rows) = 0
    <3>1. Rows \ Rows = {}
      OBVIOUS
    <3> QED BY <3>1, FS_EmptySet
  <2>5. HasRoom(j)
    BY <2>2, <2>3, <2>4 DEF HasRoom
  <2>6. ASSUME NEW m \in Requests \ {n}
        PROVE  HasRoom(job'[m])
    <3>1. job[m] \in Jobs /\ HasRoom(job[m])
      BY <1>a DEF BuildsHaveRoom
    <3>2. LET i == [job[m] EXCEPT !.alone = FALSE]
          IN  /\ i.kind = job[m].kind /\ i.step = job[m].step /\ i.todo = job[m].todo
              /\ i.packed = job[m].packed /\ i.vol = job[m].vol
      BY <3>1 DEF Jobs
    <3>3. HasRoom([job[m] EXCEPT !.alone = FALSE])
      BY <3>1, <3>2 DEF HasRoom
    <3> QED BY <2>1, <3>1, <3>3
  <2>7. job'[n] = j
    BY <2>1
  <2>8. \A m \in Requests : HasRoom(job'[m])
    BY <2>5, <2>6, <2>7
  <2> QED BY <2>8 DEF BuildsHaveRoom, HasRoom
<1> QED BY <1>1, <1>2 DEF Begin

LEMMA RoomNext == ASSUME IInv, BuildsHaveRoom, [Next]_vars PROVE BuildsHaveRoom'
<1>1. CASE UNCHANGED job
  BY <1>1 DEF BuildsHaveRoom, HasRoom
<1>2. CASE \E n \in Requests : LibraryStep(n)
  BY <1>2, LibraryRoom DEF IInv, LibraryInv
<1>3. CASE \E n \in Requests : Begin(n)
  BY <1>3, BeginRoom DEF IInv, LibraryInv
<1>4. CASE \E n \in Requests : BeginPackage(n) \/ PipDownload(n) \/ PackageStep(n)
  BY <1>4, PackageFrame, OtherRoom DEF IInv, LibraryInv
<1>5. CASE LibraryCrash
  <2>1. \A m \in Requests : job'[m].kind = "idle"
    BY <1>5, JobConstants DEF LibraryCrash
  <2> QED BY <2>1 DEF BuildsHaveRoom, HasRoom
<1> QED BY <1>1, <1>2, <1>3, <1>4, <1>5 DEF Next, SetMode, PostChat, UserApproves, StartLibrary,
      ImportLive, ImportOffline, ImportFile, RemoveSource, RouteRests, Serve, Crash, vars, libraryVars

LEMMA LibraryCatalog ==
    ASSUME LibraryInv, BuildsHaveRoom, CatalogTypes, NEW n \in Requests, LibraryStep(n)
    PROVE  CatalogTypes'
<1> USE DEF CatalogTypes
<1>a. job[n] \in Jobs /\ Rows \subseteq Docs
  BY DEF LibraryInv, LibraryTypes, Rows
<1>b. Return(n) => lock' \in Requests \cup {Nobody}
  BY DEF Return
<1>c. Commit => lock' \in Requests \cup {Nobody}
  BY DEF Commit
<1>d. ASSUME UNCHANGED <<catalog, manifest, raced>>, lock' \in Requests \cup {Nobody}
      PROVE  CatalogTypes'
  BY <1>d
<1>1. CASE FetchCandidate(n) \/ OpenVolume(n) \/ AllPacked(n) \/ ReadCatalog(n) \/ Harvest(n)
  BY <1>1, <1>d DEF FetchCandidate, OpenVolume, AllPacked, ReadCatalog, Harvest, files, history
<1>2. CASE OpenObject(n)
  <2>1. job[n].doc \in Docs
    BY <1>2 DEF OpenObject, At, LibraryInv, JobsAreSound, Stores
  <2>2. raced' \subseteq raced \cup {job[n].doc} /\ UNCHANGED <<catalog, manifest, lock>>
    BY <1>2 DEF OpenObject
  <2> QED BY <2>1, <2>2
<1>3. CASE WriteObject(n) \/ WriteFails(n) \/ ScanNext(n) \/ WriteManifest(n)
  <2>1. /\ UNCHANGED <<catalog, raced>> /\ manifest' \in {manifest, job[n].todo}
        /\ UNCHANGED lock \/ Return(n)
    BY <1>3 DEF WriteObject, WriteFails, ScanNext, WriteManifest, files, history
  <2>2. job[n].todo \subseteq Docs
    BY <1>a DEF Jobs
  <2> QED BY <1>b, <2>1, <2>2
<1>4. CASE InsertDocument(n)
  <2>1. /\ UNCHANGED <<manifest, raced>> /\ (Return(n) \/ Commit)
        /\ catalog' = catalog \/ catalog' = [catalog EXCEPT ![job[n].doc] = Unpacked]
    BY <1>4 DEF InsertDocument, history
  <2> QED BY <1>b, <1>c, <2>1
<1>5. CASE FinishCollect(n) \/ RecordAlgorithm(n) \/ RecordCollides(n)
  <2>1. UNCHANGED <<catalog, manifest, raced>> /\ (Commit \/ Return(n) \/ lock' = n)
    BY <1>5 DEF FinishCollect, RecordAlgorithm, RecordCollides, history
  <2> QED BY <1>b, <1>c, <1>d, <2>1
<1>6. CASE UnlinkVolumes(n) \/ LockRows(n) \/ VolumeFails(n) \/ Locked(n)
  <2>1. UNCHANGED <<catalog, manifest, raced>> /\ (UNCHANGED lock \/ Return(n) \/ lock' = n)
    BY <1>6 DEF UnlinkVolumes, LockRows, VolumeFails, Locked, history
  <2> QED BY <1>b, <1>d, <2>1
<1>7. CASE ClearRows(n)
  <2>1. /\ catalog' = [d \in Docs |-> IF d \in Rows THEN Unpacked ELSE NoRow]
        /\ Commit /\ UNCHANGED <<manifest, raced>>
    BY <1>7 DEF ClearRows, history
  <2> QED BY <1>c, <2>1
<1>8. CASE CommitVolume(n)
  <2>1. PICK bucket \in (SUBSET job[n].todo) \ {{}} :
           catalog' = [d \in Docs |-> IF d \in bucket THEN job[n].vol ELSE catalog[d]]
    BY <1>8 DEF CommitVolume, Recorded
  <2>2. job[n].vol \in Volumes
    BY <1>8, CommitRoom DEF LibraryInv
  <2>3. Commit /\ UNCHANGED <<manifest, raced>>
    BY <1>8 DEF CommitVolume, history
  <2> QED BY <1>c, <2>1, <2>2, <2>3
<1> QED BY <1>1, <1>2, <1>3, <1>4, <1>5, <1>6, <1>7, <1>8 DEF LibraryStep

LEMMA CatalogNext ==
    ASSUME IInv, BuildsHaveRoom, CatalogTypes, [Next]_vars
    PROVE  CatalogTypes'
<1>1. CASE UNCHANGED <<catalog, manifest, raced, lock>>
  BY <1>1 DEF CatalogTypes
<1>2. CASE \E n \in Requests : LibraryStep(n)
  BY <1>2, LibraryCatalog DEF IInv
<1>3. CASE \E n \in Requests : Begin(n) \/ BeginPackage(n) \/ PipDownload(n)
  <2>1. UNCHANGED <<catalog, manifest, raced, lock>>
    BY <1>3 DEF Begin, BeginCollect, BeginScan, BeginBuild, BeginPackage, PipDownload, history,
       unchangedLibrary
  <2> QED BY <1>1, <2>1
<1>4. CASE \E n \in Requests : PackageStep(n)
  <2>1. PICK n \in Requests : PackageStep(n)
    BY <1>4
  <2>2. UNCHANGED <<catalog, manifest, raced>> /\ (UNCHANGED lock \/ Return(n))
    BY <2>1 DEF PackageStep, OpenPart, FinishDownload, DownloadFails, VerifyFails, RenamePart, CleanUp,
       ListPackage, ListLocked, ListBundle, unchangedLibrary
  <2>3. lock' \in Requests \cup {Nobody}
    BY <2>2 DEF Return, CatalogTypes
  <2> QED BY <2>2, <2>3 DEF CatalogTypes
<1>5. CASE LibraryCrash
  BY <1>5 DEF LibraryCrash, history, CatalogTypes
<1> QED BY <1>1, <1>2, <1>3, <1>4, <1>5 DEF Next, SetMode, PostChat, UserApproves, StartLibrary,
      ImportLive, ImportOffline, ImportFile, RemoveSource, RouteRests, Serve, Crash, vars, libraryVars,
      history

LEMMA RowNext == ASSUME RowTypes, [Next]_vars PROVE RowTypes'
<1> USE DEF RowTypes
<1>1. CASE UNCHANGED packageVars
  BY <1>1 DEF packageVars
<1>2. CASE \E n \in Requests : BeginPackage(n) \/ PipDownload(n) \/ PackageStep(n)
  <2>1. listed' \in {listed, TRUE} /\ bundle' \in {bundle, "downloaded", "listed"}
    BY <1>2 DEF BeginPackage, PipDownload, PackageStep, OpenPart, FinishDownload, DownloadFails,
       VerifyFails, RenamePart, CleanUp, ListPackage, ListLocked, ListBundle, packageVars
  <2> QED BY <2>1
<1> QED BY <1>1, <1>2 DEF Next, SetMode, PostChat, UserApproves, StartLibrary,
      ImportLive, ImportOffline, ImportFile, RemoveSource, RouteRests, Serve, Crash, vars

LEMMA RestNext == ASSUME RouterInv, RestTypes, [Next]_vars PROVE RestTypes'
<1> USE DEF RestTypes
<1>1. ASSUME NEW r, NEW w \in {"no", "timed", "forever"}, resting' = [resting EXCEPT ![r] = w]
      PROVE  RestTypes'
  BY <1>1
<1>2. CASE UNCHANGED resting
  BY <1>2
<1>3. CASE \E n \in Requests : ChatStep(n)
  BY <1>1, <1>2, <1>3 DEF ChatStep, ReadTask, PinTask, OrderRoutes, Answer, Rejects, Backs, Refuses,
     Exhausted
<1>4. CASE \E r \in Routes : RestEnds(r)
  BY <1>1, <1>4 DEF RestEnds
<1>5. CASE RouterCrash
  BY <1>5 DEF RouterCrash
<1> QED BY <1>2, <1>3, <1>4, <1>5 DEF Next, SetMode, PostChat, StartChat, UserApproves, ApproveTier,
      StartLibrary, ImportLive, ImportOffline, ImportFile, RemoveSource, RouteRests, Serve, Crash, vars,
      routerVars

LEMMA ModeNext == ASSUME IInv, ModeTypes, [Next]_vars PROVE ModeTypes'
<1> USE DEF ModeTypes
<1>1. CASE UNCHANGED serverVars
  BY <1>1 DEF serverVars
<1>2. CASE \E m \in {"offline", "live"} : SetMode(m)
  BY <1>2 DEF SetMode
<1>3. CASE \E d \in Docs : ImportFile(d)
  <2>1. PICK d \in Docs : kb' = [kb EXCEPT ![d] = IF d \in Rows THEN object[d] ELSE "stray"]
    BY <1>3 DEF ImportFile
  <2>2. object[d] \in {"none", "partial", "whole"}
    BY DEF IInv, LibraryInv, LibraryTypes
  <2>3. UNCHANGED <<mode, crashes>>
    BY <1>3 DEF ImportFile
  <2> QED BY <2>1, <2>2, <2>3
<1>4. CASE \E d \in Docs : RemoveSource(d)
  BY <1>4 DEF RemoveSource
<1>5. CASE Crash
  BY <1>5, ServerAssumption DEF Crash
<1> QED BY <1>1, <1>2, <1>3, <1>4, <1>5 DEF Next, PostChat, UserApproves, StartLibrary,
      ImportLive, ImportOffline, RouteRests, Serve, vars

LEMMA ServerTypesInit == Init => ServerTypes
<1> SUFFICES ASSUME Init PROVE ServerTypes
  OBVIOUS
<1>1. BuildsHaveRoom
  BY JobConstants DEF Init, LibraryInit, BuildsHaveRoom, HasRoom
<1>2. CatalogTypes
  BY DEF Init, LibraryInit, CatalogTypes
<1>3. RowTypes /\ RestTypes
  BY DEF Init, PackageInit, RouterInit, RowTypes, RestTypes
<1>4. ModeTypes
  BY ServerAssumption DEF Init, ModeTypes
<1> QED BY <1>1, <1>2, <1>3, <1>4 DEF ServerTypes

\* Every variable of the server keeps its type: whatever runs at the same time, a row names a volume
\* there can be, a rest is one of the three kinds, and a task is pinned to a tier of a configured
\* route (hkr.py, cloud_router.py, server.py).
THEOREM ServerTypeCorrect == Spec => []TypeOK
<1>1. Init => ServerTypes
  BY ServerTypesInit
<1>2. (IInv /\ BuildsAreSound) /\ ServerTypes /\ [Next]_vars => ServerTypes'
  BY RoomNext, CatalogNext, RowNext, RestNext, ModeNext DEF ServerTypes, IInv
<1>3. ASSUME IInv, BuildsAreSound, ServerTypes
      PROVE  TypeOK
  <2>1. LibraryTypeOK
    <3>1. \A n \in Requests : job[n].todo \subseteq Docs /\ job[n].packed \subseteq Docs
      BY <1>3 DEF IInv, LibraryInv, LibraryTypes, Jobs
    <3>2. /\ object \in [Docs -> {"none", "partial", "whole"}]
          /\ algorithms \in Nat /\ mixed \in BOOLEAN
      BY <1>3 DEF IInv, LibraryInv, LibraryTypes
    <3>3. zip \in [Volumes -> (SUBSET Docs) \cup {NoFile}]
      BY <1>3 DEF BuildsAreSound
    <3> QED BY <1>3, <3>1, <3>2, <3>3 DEF ServerTypes, CatalogTypes, LibraryTypeOK
  <2>2. PackageTypeOK
    BY <1>3 DEF IInv, PackageInv, ServerTypes, RowTypes, PackageTypeOK
  <2>3. RouterTypeOK
    BY <1>3 DEF IInv, RouterInv, RouterTypes, ChatRecords, ServerTypes, RestTypes, RouterTypeOK
  <2> QED BY <1>3, <2>1, <2>2, <2>3 DEF ServerTypes, ModeTypes, TypeOK
<1> QED BY <1>1, <1>2, <1>3, BuildInvariant, PTL DEF Spec
=============================================================================
