----------------------------- MODULE PackageCache ------------------------------
(***************************************************************************)
(* The repository's cache of Python packages.  cache_python_package: one   *)
(* distribution is downloaded to a .part file, checked against the digest  *)
(* PyPI publishes, renamed and entered in the catalog, under its write     *)
(* lock.  The digest is taken of the bytes received, not of the file, and  *)
(* two requests for one package share the .part file.  cache_python_bundle *)
(* lets pip download a package with its dependencies.                      *)
(***************************************************************************)
EXTENDS HkrLibrary

VARIABLES
    part,           \* the .part file: "none", "partial" (or with a hole), "whole"
    package,        \* the cached file, likewise
    listed,         \* its row, with the digest of the whole file
    bundle,         \* a package with its dependencies: "none", "downloaded" or "listed"
    shared          \* history: two downloads used the .part file at the same time

packageVars == <<part, package, listed, bundle, shared>>

PackageInit ==
    /\ part = "none" /\ package = "none" /\ listed = FALSE
    /\ bundle = "none" /\ shared = FALSE

unchangedLibrary == <<object, catalog, zip, manifest, algorithms, raced, mixed>>

\* the .part file is open
Downloading(m) == At(m, {"package"}, "download")

\* PyPI is asked for the distributions, and one is chosen; a failure ends the request
BeginPackage(n) ==
    /\ job[n] = Idle
    /\ \/ Go(n, [Idle EXCEPT !.kind = "package", !.step = "open"])
       \/ Go(n, Ended)
    /\ UNCHANGED <<unchangedLibrary, lock, packageVars>>

OpenPart(n) ==
    /\ At(n, {"package"}, "open")
    /\ part' = "partial"
    /\ shared' = (shared \/ \E m \in Requests : Downloading(m) \/ At(m, {"package"}, "verify"))
    /\ GoTo(n, "download")
    /\ UNCHANGED <<unchangedLibrary, lock, package, listed, bundle>>

\* All bytes were received.  They are the file's, unless another download truncated it since.
FinishDownload(n) ==
    /\ Downloading(n)
    /\ part' \in IF shared THEN {"partial", "whole"} ELSE {"whole"}
    /\ GoTo(n, "verify")
    /\ UNCHANGED <<unchangedLibrary, lock, package, listed, shared, bundle>>

Deletable == \A m \in Requests : ~Downloading(m)

AfterFailure_Renamed == "verify"
AfterFailure == "cleanup"

\* the connection breaks, or the archive is too large
DownloadFails(n) ==
    /\ Downloading(n)
    /\ GoTo(n, AfterFailure)
    /\ UNCHANGED <<unchangedLibrary, lock, packageVars>>

\* the digest differs from the published one
VerifyFails(n) ==
    /\ At(n, {"package"}, "verify")
    /\ GoTo(n, "cleanup")
    /\ UNCHANGED <<unchangedLibrary, lock, packageVars>>

\* renaming fails for a file that is gone or open; the clean-up follows
RenamePart(n) ==
    /\ At(n, {"package"}, "verify")
    /\ IF part # "none" /\ Deletable
         THEN package' = part /\ part' = "none" /\ GoTo(n, "list")
         ELSE GoTo(n, "cleanup") /\ UNCHANGED <<part, package>>
    /\ UNCHANGED <<unchangedLibrary, lock, listed, shared, bundle>>

CleanUp(n) ==
    /\ At(n, {"package"}, "cleanup")
    /\ part' = IF Deletable THEN "none" ELSE part
    /\ Return(n)
    /\ UNCHANGED <<unchangedLibrary, package, listed, shared, bundle>>

ListPackage(n) ==
    /\ At(n, {"package"}, "list") /\ CanWrite(n)
    /\ listed' = TRUE
    /\ Return(n)
    /\ UNCHANGED <<unchangedLibrary, part, package, shared, bundle>>

\* the catalog stays locked: the files are cached, and no row names them
ListLocked(n) ==
    /\ At(n, {"package"}, "list") \/ At(n, {"bundle"}, "list")
    /\ ~CanWrite(n)
    /\ Return(n)
    /\ UNCHANGED <<unchangedLibrary, packageVars>>

-----------------------------------------------------------------------------
(* cache_python_bundle *)

\* pip downloads the package and what it depends on, or fails
PipDownload(n) ==
    /\ job[n] = Idle
    /\ \/ /\ bundle' = "downloaded"
          /\ Go(n, [Idle EXCEPT !.kind = "bundle", !.step = "list"])
       \/ Go(n, Ended) /\ UNCHANGED bundle
    /\ UNCHANGED <<unchangedLibrary, lock, part, package, listed, shared>>

\* each file is entered with the digest of what is on the disk, all in one transaction
ListBundle(n) ==
    /\ At(n, {"bundle"}, "list") /\ CanWrite(n)
    /\ bundle' = "listed"
    /\ Return(n)
    /\ UNCHANGED <<unchangedLibrary, part, package, listed, shared>>

-----------------------------------------------------------------------------
PackageStep(n) ==
    \/ OpenPart(n) \/ FinishDownload(n) \/ DownloadFails(n) \/ VerifyFails(n) \/ RenamePart(n)
    \/ CleanUp(n) \/ ListPackage(n) \/ ListLocked(n) \/ ListBundle(n)

PackageTypeOK ==
    /\ {part, package} \subseteq {"none", "partial", "whole"}
    /\ listed \in BOOLEAN /\ shared \in BOOLEAN
    /\ bundle \in {"none", "downloaded", "listed"}

\* "SHA-256 mismatch; package was not cached": the file a row names has the digest in the row,
\* through failed and interrupted downloads, unless two of them used the .part file at the
\* same time.
ListedIsWhole == listed => package = "whole" \/ shared
=============================================================================
