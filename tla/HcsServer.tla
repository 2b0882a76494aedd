------------------------------- MODULE HcsServer -------------------------------
(***************************************************************************)
(* The HCS server (server.py) over the repository, the package cache, the  *)
(* knowledge base (knowledge.py) and the provider pool.  Requests are      *)
(* served in threads: chats, changes of the AI mode, collections, builds,  *)
(* scans, package downloads, and imports of documents into the knowledge   *)
(* base, which the classifier of the knowledge tree may end with a chat of *)
(* its own.  The process may end at any time, and is started again.        *)
(***************************************************************************)
EXTENDS PackageCache, CloudRouter

CONSTANT MaxCrashes     \* bound: ends of the process

ASSUME ServerAssumption == Chats = Requests /\ MaxCrashes \in Nat

VARIABLES
    mode,           \* the selected AI mode: "offline" or "live"
    kb,             \* the text of each document in the knowledge base: "whole" or "partial" as its
                    \* file was, or "stray" when no row named the file
    crashes

serverVars == <<mode, kb, crashes>>
vars == <<libraryVars, packageVars, routerVars, serverVars>>

Init ==
    /\ LibraryInit /\ PackageInit /\ RouterInit
    /\ mode \in {"offline", "live"}
    /\ kb = [d \in Docs |-> "none"]
    /\ crashes = 0

Used(n) == job[n] # Idle \/ chat[n] # Silent
\* requests are numbered as they arrive
Arrives(n) == ~Used(n) /\ \A m \in Requests : m < n => Used(m)

\* the probe of the first route answers or not; a live chat needs a route of any tier
LiveAvailable(internet) == internet /\ Available # {}

SetMode(m) ==
    /\ mode # m
    /\ m = "live" => \E internet \in BOOLEAN : LiveAvailable(internet)
    /\ mode' = m
    /\ UNCHANGED <<libraryVars, packageVars, routerVars, kb, crashes>>

\* a chat that cannot go live is answered by the local model
PostChat(n, t) ==
    /\ Arrives(n)
    /\ \E internet \in BOOLEAN :
          IF mode = "live" /\ LiveAvailable(internet)
          THEN StartChat(n, t)
          ELSE SayStep(n, "done") /\ UNCHANGED <<pinned, resting, approved>>
    /\ UNCHANGED <<libraryVars, packageVars, serverVars>>

UserApproves(t, tier) == ApproveTier(t, tier) /\ UNCHANGED <<libraryVars, packageVars, serverVars>>
RouteRests(r) == RestEnds(r) /\ UNCHANGED <<libraryVars, packageVars, serverVars>>

StartLibrary(n) ==
    /\ Arrives(n)
    /\ \/ Begin(n) /\ UNCHANGED packageVars
       \/ BeginPackage(n) \/ PipDownload(n)
    /\ UNCHANGED <<routerVars, serverVars>>

-----------------------------------------------------------------------------
(* import_path, remove_source *)

\* A file or a folder is read, and one transaction for each file replaces the document's chunks.
\* A file that is being written again has no text yet, and is skipped, or a part of it; a file no
\* row names, whole or cut off by an interrupted collection, is imported as well.  Then the
\* document is classified: by a chat when the selected mode is live (no probe is made), by the
\* local model, or not at all when that fails; what comes of it changes the tree only.
ImportFile(d) ==
    /\ object[d] # "none"
    /\ kb' = [kb EXCEPT ![d] = IF d \in Rows THEN object[d] ELSE "stray"]
    /\ UNCHANGED <<libraryVars, packageVars, mode, crashes>>

ImportOffline(d) == ImportFile(d) /\ UNCHANGED routerVars
ImportLive(n, d) == mode = "live" /\ Arrives(n) /\ StartChat(n, Classifier) /\ ImportFile(d)

RemoveSource(d) ==
    /\ kb[d] # "none"
    /\ kb' = [kb EXCEPT ![d] = "none"]
    /\ UNCHANGED <<libraryVars, packageVars, routerVars, mode, crashes>>

-----------------------------------------------------------------------------
Crash ==
    /\ crashes < MaxCrashes /\ \E n \in Requests : Used(n)
    /\ crashes' = crashes + 1
    /\ LibraryCrash /\ RouterCrash
    /\ UNCHANGED <<packageVars, mode, kb>>

Serve(n) ==
    \/ LibraryStep(n) /\ UNCHANGED <<packageVars, routerVars, serverVars>>
    \/ PackageStep(n) /\ UNCHANGED <<routerVars, serverVars>>
    \/ ChatStep(n) /\ UNCHANGED <<libraryVars, packageVars, serverVars>>

Next ==
    \/ \E m \in {"offline", "live"} : SetMode(m)
    \/ \E n \in Requests : \/ \E t \in Tasks : PostChat(n, t)
                           \/ StartLibrary(n)
                           \/ \E d \in Docs : ImportLive(n, d)
                           \/ Serve(n)
    \/ \E t \in Tasks, tier \in Tiers : UserApproves(t, tier)
    \/ \E r \in Routes : RouteRests(r)
    \/ \E d \in Docs : ImportOffline(d) \/ RemoveSource(d)
    \/ Crash

Spec == Init /\ [][Next]_vars

-----------------------------------------------------------------------------
(* Correctness *)

TypeOK ==
    /\ LibraryTypeOK /\ PackageTypeOK /\ RouterTypeOK
    /\ mode \in {"offline", "live"}
    /\ kb \in [Docs -> {"none", "stray", "partial", "whole"}]
    /\ crashes \in 0..MaxCrashes

\* The knowledge base holds no cut-off text of the library: what it took from a catalogued
\* document is whole, unless two collections wrote the file at the same time.
KnowledgeIsWhole == \A d \in Docs : kb[d] = "partial" => d \in raced

\* The library keeps what its catalog says, and hands it on whole: files are written before their
\* rows, records are merged, and imports read what a row names, through failed and interrupted
\* requests of every kind.
LibraryIsSound == WholeDocuments /\ OneRecord /\ KnowledgeIsWhole
=============================================================================
