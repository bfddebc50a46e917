----------------------------- MODULE CacheStore -----------------------------
(***************************************************************************)
(* The compact cache of one trade date: store.py, publication.py and the   *)
(* control of builder.py.  Builders run build_date and readers read_symbol *)
(* as processes that share nothing but the file system, so every action is *)
(* one file-system step of one process, in the order of the code.          *)
(*                                                                         *)
(* A date directory is a record: the build that made it (no two manifests  *)
(* are equal, they hold the elapsed time), the identity it was built for,  *)
(* the source versions whose rows it holds, the bytes under .parts, of the *)
(* consolidated files and of the manifests, and whether the date's         *)
(* manifest is written.                                                    *)
(* An identity is the version of the raw source (path, bytes, mtime, rows, *)
(* footer) and everything else the request fixes.                          *)
(*                                                                         *)
(* Crash is a process that dies or leaves by a BaseException: no handler   *)
(* of the code runs.  An operator Mut... is a plausible mistake in the     *)
(* definition after it.                                                    *)
(***************************************************************************)
EXTENDS Naturals, FiniteSetsExt

CONSTANTS
  Builders, Readers,       \* processes
  Requests,                \* sources, symbols and configuration a build may ask for
  NoTree,
  Batches,                 \* record batches of the source, one byte unit each
  Estimate,                \* projected_bytes of the source's rows
  MaxCacheBytes,
  SourceManifestBytes, DateManifestBytes,
  MaxVersion, MaxCalls, MaxFaults, MaxCrashes  \* bounds on what a run explores

ASSUME SizesAssumption == /\ Batches \in Nat \ {0} /\ Estimate \in Nat /\ MaxCacheBytes \in Nat
                          /\ SourceManifestBytes \in Nat /\ DateManifestBytes \in Nat
ASSUME BoundsAssumption == MaxVersion \in Nat /\ MaxCalls \in Nat
ASSUME ProcessAssumption == Builders \cap Readers = {} /\ IsFiniteSet(Builders)

Processes == Builders \cup Readers
Versions  == 0 .. MaxVersion
Identity  == [version : Versions, request : Requests]
Tree      == [id : 1 .. MaxCalls, identity : Identity, data : SUBSET Versions,
              parts : 0 .. Batches, output : 0 .. Batches,
              manifests : 0 .. SourceManifestBytes + DateManifestBytes, complete : BOOLEAN]

ASSUME NoTreeAssumption == NoTree \notin Tree

VARIABLES
  source,       \* version of the raw source files
  final,        \* the directory date=..., or NoTree
  superseded,   \* the directories .superseded-...
  temp,         \* per builder, its directory .tmp-..., or NoTree
  litter,       \* .tmp- directories whose builder died
  pc,           \* per process, the step it is about to take
  call,         \* per process, its call: serial, expected identity, config.rebuild
  seen,         \* per process, the directory whose manifest it read last
  moved,        \* per builder, the local superseded of publish_date_atomically
  outcome,      \* per process, how its last call ended
  calls, faults, crashes   \* counters of the bounds

disk  == <<final, superseded, temp, litter>>
local == <<call, seen, moved, outcome>>
count == <<calls, faults, crashes>>
vars  == <<source, disk, pc, local, count>>

Running   == [kind |-> "none", tree |-> NoTree]
Published == {t \in superseded \cup {final} : t # NoTree}

Init ==
  /\ source = 0
  /\ final = NoTree /\ superseded = {} /\ litter = {}
  /\ temp = [b \in Builders |-> NoTree]
  /\ pc = [p \in Processes |-> "idle"]
  /\ call = [p \in Processes |-> <<>>]
  /\ seen = [p \in Processes |-> NoTree]
  /\ moved = [b \in Builders |-> NoTree]
  /\ outcome = [p \in Processes |-> Running]
  /\ calls = 0 /\ faults = 0 /\ crashes = 0

Go(p, step) == pc' = [pc EXCEPT ![p] = step]
End(p, kind, tree) ==
  /\ Go(p, "idle")
  /\ outcome' = [outcome EXCEPT ![p] = [kind |-> kind, tree |-> tree]]

\* A call begins with its locals unset; request and rebuild are its arguments.
Begin(p, request, rebuild, step) ==
  /\ pc[p] = "idle" /\ calls < MaxCalls
  /\ calls' = calls + 1
  /\ call' = [call EXCEPT ![p] = [id |-> calls', rebuild |-> rebuild,
                identity |-> [version |-> source, request |-> request]]]
  /\ seen' = [seen EXCEPT ![p] = NoTree]
  /\ outcome' = [outcome EXCEPT ![p] = Running]
  /\ Go(p, step)
-----------------------------------------------------------------------------
(* validate_date: read the manifest and compare the raw sources with the   *)
(* identity it records, then check every file under the same path.         *)

MutCurrent(t) == t # NoTree /\ t.complete              \* raw sources not compared
Current(t) == t # NoTree /\ t.complete /\ t.identity.version = source

ReadManifest(p) ==
  /\ Current(final)
  /\ seen' = [seen EXCEPT ![p] = final]

FilesMatch(p) == final = seen[p]
-----------------------------------------------------------------------------
(* build_date up to the first write.                                       *)

BuildDate(b) ==
  /\ \E request \in Requests, rebuild \in BOOLEAN : Begin(b, request, rebuild, "exists")
  /\ moved' = [moved EXCEPT ![b] = NoTree]
  /\ UNCHANGED <<source, disk, faults, crashes>>

FinalExists(b) ==
  /\ pc[b] = "exists"
  /\ Go(b, IF final = NoTree THEN "preflight" ELSE "manifest")
  /\ UNCHANGED <<source, disk, local, count>>

\* No hit: replace the date if told to, else refuse.
ReplaceOrRefuse(b) ==
  \/ call[b].rebuild /\ Go(b, "preflight") /\ UNCHANGED outcome
  \/ ~call[b].rebuild /\ End(b, "refused", NoTree)

CheckManifest(b) ==
  /\ pc[b] = "manifest"
  /\ \/ ReadManifest(b) /\ Go(b, "files") /\ UNCHANGED outcome
     \/ ~Current(final) /\ ReplaceOrRefuse(b) /\ UNCHANGED seen
  /\ UNCHANGED <<source, disk, call, moved, count>>

MutReusable(b) == FilesMatch(b)                         \* identity_sha256 not compared
Reusable(b) == FilesMatch(b) /\ seen[b].identity = call[b].identity

CheckFiles(b) ==
  /\ pc[b] = "files"
  /\ \/ Reusable(b) /\ End(b, "hit", seen[b])
     \/ ~Reusable(b) /\ ReplaceOrRefuse(b)
  /\ UNCHANGED <<source, disk, call, seen, moved, count>>

Bytes(t) == IF t = NoTree THEN 0 ELSE t.parts + t.output + t.manifests
BytesIn(trees) == MapThenSumSet(Bytes, trees)
DirectoryBytes == BytesIn(Published \cup litter \cup {temp[b] : b \in Builders})

NewTree(b) == [id |-> call[b].id, identity |-> call[b].identity, data |-> {},
               parts |-> 0, output |-> 0, manifests |-> 0, complete |-> FALSE]

\* The second disjunct is also the free-space reserve, which depends on
\* whatever else the disk holds.
PreflightSpace(b) ==
  /\ pc[b] = "preflight"
  /\ \/ /\ DirectoryBytes + Estimate <= MaxCacheBytes
        /\ temp' = [temp EXCEPT ![b] = NewTree(b)]
        /\ Go(b, "scan") /\ UNCHANGED outcome
     \/ End(b, "failed", NoTree) /\ UNCHANGED temp
  /\ UNCHANGED <<source, final, superseded, litter, call, seen, moved, count>>
-----------------------------------------------------------------------------
(* build_source: scan and consolidate, with the budget checked after every *)
(* write but those of the manifests, the date's last.  An exception        *)
(* anywhere leads to the cleanup.                                          *)

ScanBatch(b) ==
  /\ pc[b] = "scan"
  /\ temp' = [temp EXCEPT ![b].data = @ \cup {source}, ![b].parts = @ + 1]
  /\ Go(b, "scanned")
  /\ UNCHANGED <<source, final, superseded, litter, local, count>>

MutWithinBudget == TRUE                                  \* checked before the build only
WithinBudget == DirectoryBytes <= MaxCacheBytes

BudgetAfterScan(b) ==
  /\ pc[b] = "scanned" /\ WithinBudget
  /\ Go(b, IF temp[b].parts < Batches THEN "scan" ELSE "consolidate")
  /\ UNCHANGED <<source, disk, local, count>>

Consolidate(b) ==
  /\ pc[b] = "consolidate"
  /\ temp' = [temp EXCEPT ![b].output = temp[b].parts]
  /\ Go(b, "consolidated")
  /\ UNCHANGED <<source, final, superseded, litter, local, count>>

BudgetAfterConsolidate(b) ==
  /\ pc[b] = "consolidated" /\ WithinBudget
  /\ Go(b, "trim")
  /\ UNCHANGED <<source, disk, local, count>>

RemoveParts(b) ==
  /\ pc[b] = "trim"
  /\ temp' = [temp EXCEPT ![b].parts = 0]
  /\ Go(b, "source manifest")
  /\ UNCHANGED <<source, final, superseded, litter, local, count>>

SealSource(b) ==
  /\ pc[b] = "source manifest"
  /\ temp' = [temp EXCEPT ![b].manifests = SourceManifestBytes]
  /\ Go(b, "date manifest")
  /\ UNCHANGED <<source, final, superseded, litter, local, count>>

\* The files are validated, then the date is sealed.
SealDate(b) ==
  /\ pc[b] = "date manifest"
  /\ temp' = [temp EXCEPT ![b].manifests = SourceManifestBytes + DateManifestBytes,
                          ![b].complete = TRUE]
  /\ Go(b, "staged")
  /\ UNCHANGED <<source, final, superseded, litter, local, count>>

BuildRaises(b) ==
  /\ pc[b] \in {"scan", "scanned", "consolidate", "consolidated",
               "trim", "source manifest", "date manifest"}
  /\ Go(b, "cleanup")
  /\ UNCHANGED <<source, disk, local, count>>

MutRemoved(t) == t                                       \* prefix never matches
Removed(t) == NoTree

Cleanup(b) ==
  /\ pc[b] = "cleanup"
  /\ temp' = [temp EXCEPT ![b] = Removed(temp[b])]
  /\ End(b, "failed", NoTree)
  /\ UNCHANGED <<source, final, superseded, litter, call, seen, moved, count>>
-----------------------------------------------------------------------------
(* publish_date_atomically and the validation of what it published.        *)

MutStagedCurrent(b) == TRUE                              \* sources not compared again
StagedCurrent(b) == Current(temp[b])

ValidateStaged(b) ==
  /\ pc[b] = "staged"
  /\ Go(b, IF StagedCurrent(b) THEN "publish" ELSE "cleanup")
  /\ UNCHANGED <<source, disk, local, count>>

PredecessorExists(b) ==
  /\ pc[b] = "publish"
  /\ Go(b, IF final = NoTree THEN "install" ELSE "supersede")
  /\ UNCHANGED <<source, disk, local, count>>

MutKept(trees, t) == trees                               \* deleted, not set aside
Kept(trees, t) == trees \cup {t}

\* Outside the try: when another builder took the directory first, the build
\* fails without a restore.
Supersede(b) ==
  /\ pc[b] = "supersede"
  /\ \/ /\ final # NoTree
        /\ superseded' = Kept(superseded, final)
        /\ moved' = [moved EXCEPT ![b] = final]
        /\ final' = NoTree
        /\ Go(b, "install")
     \/ /\ final = NoTree
        /\ Go(b, "cleanup")
        /\ UNCHANGED <<final, superseded, moved>>
  /\ UNCHANGED <<source, temp, litter, call, seen, outcome, count>>

\* os.replace onto a directory that is not empty fails.
Install(b) ==
  /\ pc[b] = "install" /\ final = NoTree
  /\ final' = temp[b]
  /\ temp' = [temp EXCEPT ![b] = NoTree]
  /\ Go(b, "report")
  /\ UNCHANGED <<source, superseded, litter, local, count>>

Fault == faults < MaxFaults /\ faults' = faults + 1

InstallRaises(b) ==
  /\ pc[b] = "install"
  /\ Go(b, "restore?")
  /\ \/ final # NoTree /\ UNCHANGED faults
     \/ Fault
  /\ UNCHANGED <<source, disk, local, calls, crashes>>

MutToRestore(b) == FALSE                                 \* predecessor left aside
ToRestore(b) == moved[b] \in superseded /\ final = NoTree

MustRestore(b) ==
  /\ pc[b] = "restore?"
  /\ Go(b, IF ToRestore(b) THEN "restore" ELSE "cleanup")
  /\ UNCHANGED <<source, disk, local, count>>

Restore(b) ==
  /\ pc[b] = "restore"
  /\ \/ /\ final = NoTree
        /\ final' = moved[b]
        /\ superseded' = superseded \ {moved[b]}
        /\ UNCHANGED faults
     \/ /\ (final # NoTree /\ UNCHANGED faults) \/ Fault
        /\ UNCHANGED <<final, superseded>>
  /\ Go(b, "cleanup")
  /\ UNCHANGED <<source, temp, litter, local, calls, crashes>>

ReportManifest(b) ==
  /\ pc[b] = "report"
  /\ \/ ReadManifest(b) /\ Go(b, "report files") /\ UNCHANGED outcome
     \/ ~Current(final) /\ End(b, "unconfirmed", NoTree) /\ UNCHANGED seen
  /\ UNCHANGED <<source, disk, call, moved, count>>

ReportFiles(b) ==
  /\ pc[b] = "report files"
  /\ \/ FilesMatch(b) /\ End(b, "miss", seen[b])
     \/ ~FilesMatch(b) /\ End(b, "unconfirmed", NoTree)
  /\ UNCHANGED <<source, disk, call, seen, moved, count>>
-----------------------------------------------------------------------------
(* read_symbol: validate the date, then open the symbol's file by path.    *)

ReadSymbol(r) ==
  /\ \E request \in Requests : Begin(r, request, FALSE, "manifest")
  /\ UNCHANGED <<source, disk, moved, faults, crashes>>

ReadDateManifest(r) ==
  /\ pc[r] = "manifest"
  /\ \/ ReadManifest(r) /\ Go(r, "files") /\ UNCHANGED outcome
     \/ ~Current(final) /\ End(r, "failed", NoTree) /\ UNCHANGED seen
  /\ UNCHANGED <<source, disk, call, moved, count>>

ReadDateFiles(r) ==
  /\ pc[r] = "files"
  /\ \/ FilesMatch(r) /\ Go(r, "open") /\ UNCHANGED outcome
     \/ ~FilesMatch(r) /\ End(r, "failed", NoTree)
  /\ UNCHANGED <<source, disk, call, seen, moved, count>>

\* A directory put in place since the validation may lack the symbol's file.
Open(r) ==
  /\ pc[r] = "open"
  /\ \/ final # NoTree /\ End(r, "read", final)
     \/ ~FilesMatch(r) /\ End(r, "failed", NoTree)
  /\ UNCHANGED <<source, disk, call, seen, moved, count>>
-----------------------------------------------------------------------------
(* The environment.                                                        *)

\* Another version of the raw source appears; it never has an old identity.
Rewrite ==
  /\ source < MaxVersion
  /\ source' = source + 1
  /\ UNCHANGED <<disk, pc, local, count>>

Crash(b) ==
  /\ pc[b] # "idle" /\ crashes < MaxCrashes
  /\ crashes' = crashes + 1
  /\ litter' = litter \cup ({temp[b]} \ {NoTree})
  /\ temp' = [temp EXCEPT ![b] = NoTree]
  /\ End(b, "crashed", NoTree)
  /\ UNCHANGED <<source, final, superseded, call, seen, moved, calls, faults>>

Build(b) ==
  \/ FinalExists(b) \/ CheckManifest(b) \/ CheckFiles(b) \/ PreflightSpace(b)
  \/ ScanBatch(b) \/ BudgetAfterScan(b) \/ Consolidate(b)
  \/ BudgetAfterConsolidate(b) \/ RemoveParts(b) \/ SealSource(b) \/ SealDate(b)
  \/ BuildRaises(b) \/ Cleanup(b)
  \/ ValidateStaged(b) \/ PredecessorExists(b) \/ Supersede(b)
  \/ Install(b) \/ InstallRaises(b) \/ MustRestore(b) \/ Restore(b)
  \/ ReportManifest(b) \/ ReportFiles(b)

Read(r) == ReadDateManifest(r) \/ ReadDateFiles(r) \/ Open(r)

Next ==
  \/ \E b \in Builders : BuildDate(b) \/ Build(b) \/ Crash(b)
  \/ \E r \in Readers : ReadSymbol(r) \/ Read(r)
  \/ Rewrite

Spec == Init /\ [][Next]_vars
=============================================================================
