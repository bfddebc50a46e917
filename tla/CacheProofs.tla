---------------------------- MODULE CacheProofs -----------------------------
(***************************************************************************)
(* What builders and readers of a date can rely on, for any number of      *)
(* processes, requests, batches, rewrites, failures and deaths.            *)
(***************************************************************************)
EXTENDS CacheProps, OrderLemmas

IdentityOfNat == [version : Nat, request : Requests]
CallRecord == [id : Nat, rebuild : BOOLEAN, identity : IdentityOfNat]
Directory  == [id : Nat, identity : IdentityOfNat, data : SUBSET Nat,
               parts : Nat, output : Nat, manifests : Nat, complete : BOOLEAN]

Faithful(t) == t.complete /\ t.parts = 0 /\ t.data = {t.identity.version}

\* The rows scanned so far lie between the version the build is for and the
\* source's present one: versions only grow.
Bracketed(t) ==
  /\ t \in Directory
  /\ t.identity.version <= source
  /\ \A v \in t.data : t.identity.version <= v /\ v <= source

Filled == {"scanned", "consolidate", "consolidated", "trim", "source manifest",
           "date manifest", "staged"}

Staging(b) ==
  /\ pc[b] \in Filled \cup {"scan"} => Bracketed(temp[b])
  /\ pc[b] \in Filled => temp[b].data # {}
  /\ pc[b] \in {"source manifest", "date manifest", "staged"} => temp[b].parts = 0
  /\ pc[b] = "staged" => temp[b].complete
  /\ pc[b] \in {"publish", "supersede", "install"} => Faithful(temp[b])
  /\ moved[b] # NoTree => Faithful(moved[b])

Calling(p) ==
  pc[p] # "idle" => /\ call[p] \in CallRecord
                    /\ call[p].identity.version <= source
                    /\ outcome[p] = Running

Fresh(p) ==
  /\ seen[p] \in Published
  /\ seen[p].identity.version >= call[p].identity.version

Seeing(p) == pc[p] \in {"files", "report files", "open"} => Fresh(p)

OutcomeTrue(p) ==
  /\ outcome[p].kind = "hit" => outcome[p].tree.identity = call[p].identity
  /\ outcome[p].kind \in {"hit", "miss", "read"} => outcome[p].tree \in Published /\ Fresh(p)

Local(p) == Calling(p) /\ Seeing(p) /\ OutcomeTrue(p) /\ (p \in Builders => Staging(p))

Shape ==
  /\ source \in Nat /\ calls \in Nat
  /\ DOMAIN pc = Processes /\ DOMAIN call = Processes /\ DOMAIN seen = Processes
  /\ DOMAIN outcome = Processes
  /\ DOMAIN temp = Builders /\ DOMAIN moved = Builders

CacheInv == Shape /\ PublishedIsFaithful /\ \A p \in Processes : Local(p)
-----------------------------------------------------------------------------
LEMMA CacheInit == Init => CacheInv
<1> SUFFICES ASSUME Init PROVE CacheInv
  OBVIOUS
<1>1. Published = {}
  BY DEF Init, Published
<1>2. Shape
  BY DEF Init, Shape
<1>3. ASSUME NEW p \in Processes PROVE Local(p)
  <2>1. /\ pc[p] = "idle" /\ outcome[p].kind = "none"
    BY DEF Init, Running
  <2>2. p \in Builders => moved[p] = NoTree
    BY DEF Init
  <2> QED
    BY <2>1, <2>2 DEF Local, Calling, Seeing, OutcomeTrue, Filled, Staging
<1> QED
  BY <1>1, <1>2, <1>3 DEF CacheInv, PublishedIsFaithful

\* What a step of one process leaves of another's facts.
Alone(p) ==
  /\ \A q \in Processes \ {p} : /\ pc'[q] = pc[q] /\ call'[q] = call[q]
                                /\ seen'[q] = seen[q] /\ outcome'[q] = outcome[q]
  /\ \A b \in Builders \ {p} : temp'[b] = temp[b] /\ moved'[b] = moved[b]

LEMMA OthersKeep ==
  ASSUME CacheInv, source' = source, Published \subseteq Published',
         NEW p \in Processes, Alone(p), NEW q \in Processes, q # p
  PROVE  Local(q)'
<1>1. Local(q) /\ q \in Processes \ {p}
  BY DEF CacheInv
<1>2. pc'[q] = pc[q] /\ call'[q] = call[q] /\ seen'[q] = seen[q] /\ outcome'[q] = outcome[q]
  BY <1>1 DEF Alone
<1>3. Calling(q)'
  BY <1>1, <1>2 DEF Local, Calling, Running
<1>4. Seeing(q)'
  BY <1>1, <1>2 DEF Local, Seeing, Fresh
<1>5. OutcomeTrue(q)'
  BY <1>1, <1>2 DEF Local, OutcomeTrue, Fresh
<1>6. q \in Builders => Staging(q)'
  <2> SUFFICES ASSUME q \in Builders PROVE Staging(q)'
    OBVIOUS
  <2>1. temp'[q] = temp[q] /\ moved'[q] = moved[q]
    BY <1>1 DEF Alone
  <2> QED
    BY <1>1, <1>2, <2>1 DEF Local, Filled, Staging, Bracketed, Faithful
<1> QED
  BY <1>3, <1>4, <1>5, <1>6 DEF Local

\* A step of one process preserves the invariant when it does so for the process
\* and adds only faithful directories to what is published.
LEMMA OneStep ==
  ASSUME CacheInv, UNCHANGED source, calls' \in Nat, NEW p \in Processes, Alone(p), Local(p)',
         Published \subseteq Published', \A t \in Published' \ Published : Faithful(t),
         DOMAIN pc' = Processes, DOMAIN call' = Processes, DOMAIN seen' = Processes,
         DOMAIN outcome' = Processes, DOMAIN temp' = Builders, DOMAIN moved' = Builders
  PROVE  CacheInv'
<1>1. \A q \in Processes : Local(q)'
  BY OthersKeep
<1>2. PublishedIsFaithful'
  BY DEF CacheInv, PublishedIsFaithful, Faithful
<1>3. Shape'
  BY DEF CacheInv, Shape
<1> QED
  BY <1>1, <1>2, <1>3 DEF CacheInv

\* A step that leaves the visible and the superseded directories alone.
LEMMA QuietStep ==
  ASSUME CacheInv, UNCHANGED <<source, final, superseded>>, calls' \in Nat,
         NEW p \in Processes, Alone(p), Local(p)',
         DOMAIN pc' = Processes, DOMAIN call' = Processes, DOMAIN seen' = Processes,
         DOMAIN outcome' = Processes, DOMAIN temp' = Builders, DOMAIN moved' = Builders
  PROVE  CacheInv'
<1>1. Published' = Published
  BY DEF Published
<1> QED
  BY <1>1, OneStep

LEMMA FinalExistsStep == ASSUME CacheInv, NEW b \in Builders, FinalExists(b) PROVE CacheInv'
<1> USE DEF FinalExists, disk, local, count, Go, End
<1>1. Local(b) /\ Shape /\ b \in Processes
  BY DEF CacheInv, Processes
<1>2. Alone(b)
  BY <1>1, ProcessAssumption DEF Shape, Alone, Processes
<1>3. Published' = Published
  BY DEF Published
<1>4. Calling(b)'
  BY <1>1 DEF Shape, Local, Calling
<1>5. Seeing(b)'
  BY <1>1, <1>3 DEF Shape, Local, Calling, Seeing, Fresh, Published
<1>6. OutcomeTrue(b)'
  BY <1>1, <1>3 DEF Shape, Local, Calling, Seeing, OutcomeTrue, Fresh, Running, Published
<1>7. Staging(b)'
  BY <1>1 DEF Shape, Local, Calling, Filled, Staging, Bracketed, Faithful
<1> QED
  BY <1>1, <1>2, <1>4, <1>5, <1>6, <1>7, QuietStep DEF Shape, Local

LEMMA CheckManifestStep == ASSUME CacheInv, NEW b \in Builders, CheckManifest(b) PROVE CacheInv'
<1> USE DEF CheckManifest, ReadManifest, Current, ReplaceOrRefuse, disk, local, count, Go, End
<1>1. Local(b) /\ Shape /\ b \in Processes
  BY DEF CacheInv, Processes
<1>2. Alone(b)
  BY <1>1, ProcessAssumption DEF Shape, Alone, Processes
<1>3. Published' = Published
  BY DEF Published
<1>4. Calling(b)'
  BY <1>1 DEF Shape, Local, Calling
<1>5. Seeing(b)'
  BY <1>1, <1>3 DEF Shape, Local, Calling, Seeing, Fresh, Published
<1>6. OutcomeTrue(b)'
  BY <1>1, <1>3 DEF Shape, Local, Calling, Seeing, OutcomeTrue, Fresh, Running, Published
<1>7. Staging(b)'
  BY <1>1 DEF Shape, Local, Calling, Filled, Staging, Bracketed, Faithful
<1> QED
  BY <1>1, <1>2, <1>4, <1>5, <1>6, <1>7, QuietStep DEF Shape, Local

LEMMA CheckFilesStep == ASSUME CacheInv, NEW b \in Builders, CheckFiles(b) PROVE CacheInv'
<1> USE DEF CheckFiles, Reusable, FilesMatch, ReplaceOrRefuse, disk, local, count, Go, End
<1>1. Local(b) /\ Shape /\ b \in Processes
  BY DEF CacheInv, Processes
<1>2. Alone(b)
  BY <1>1, ProcessAssumption DEF Shape, Alone, Processes
<1>3. Published' = Published
  BY DEF Published
<1>4. Calling(b)'
  BY <1>1 DEF Shape, Local, Calling
<1>5. Seeing(b)'
  BY <1>1, <1>3 DEF Shape, Local, Calling, Seeing, Fresh, Published
<1>6. OutcomeTrue(b)'
  BY <1>1, <1>3 DEF Shape, Local, Calling, Seeing, OutcomeTrue, Fresh, Running, Published
<1>7. Staging(b)'
  BY <1>1 DEF Shape, Local, Calling, Filled, Staging, Bracketed, Faithful
<1> QED
  BY <1>1, <1>2, <1>4, <1>5, <1>6, <1>7, QuietStep DEF Shape, Local

LEMMA PreflightSpaceStep == ASSUME CacheInv, NEW b \in Builders, PreflightSpace(b) PROVE CacheInv'
<1> USE DEF PreflightSpace, NewTree, disk, local, count, Go, End
<1>1. Local(b) /\ Shape /\ b \in Processes
  BY DEF CacheInv, Processes
<1>2. Alone(b)
  BY <1>1, ProcessAssumption DEF Shape, Alone, Processes
<1>3. Published' = Published
  BY DEF Published
<1>4. Calling(b)'
  BY <1>1 DEF Shape, Local, Calling
<1>5. Seeing(b)'
  BY <1>1, <1>3 DEF Shape, Local, Calling, Seeing, Fresh, Published
<1>6. OutcomeTrue(b)'
  BY <1>1, <1>3 DEF Shape, Local, Calling, Seeing, OutcomeTrue, Fresh, Running, Published
<1>7. Staging(b)'
  <2>1. Staging(b) /\ moved' = moved /\ source' = source
    BY <1>1 DEF Local
  <2>2. CASE pc'[b] = "idle"
    BY <2>1, <2>2 DEF Filled, Staging, Faithful
  <2>3. CASE pc'[b] = "scan" /\ temp' = [temp EXCEPT ![b] = NewTree(b)]
    <3>1. temp'[b] = NewTree(b)
      BY <1>1, <2>3 DEF Shape
    <3>2. call[b] \in CallRecord /\ call[b].identity.version <= source
      BY <1>1 DEF Local, Calling
    <3> HIDE DEF PreflightSpace
    <3>3. NewTree(b) \in Directory
      BY <3>2 DEF Directory, CallRecord
    <3>4. NewTree(b).identity = call[b].identity /\ NewTree(b).data = {}
      OBVIOUS
    <3> HIDE DEF NewTree
    <3>5. Bracketed(temp[b])'
      BY <2>1, <3>1, <3>2, <3>3, <3>4 DEF Bracketed
    <3> QED
      BY <2>1, <2>3, <3>5 DEF Filled, Staging, Faithful
  <2> QED
    BY <1>1, <2>2, <2>3 DEF Shape
<1> QED
  BY <1>1, <1>2, <1>4, <1>5, <1>6, <1>7, QuietStep DEF Shape, Local

LEMMA ScanBatchStep == ASSUME CacheInv, NEW b \in Builders, ScanBatch(b) PROVE CacheInv'
<1> USE DEF ScanBatch, disk, local, count, Go, End
<1>1. Local(b) /\ Shape /\ b \in Processes
  BY DEF CacheInv, Processes
<1>2. Alone(b)
  BY <1>1, ProcessAssumption DEF Shape, Alone, Processes
<1>3. Published' = Published
  BY DEF Published
<1>4. Calling(b)'
  BY <1>1 DEF Shape, Local, Calling
<1>5. Seeing(b)'
  BY <1>1, <1>3 DEF Shape, Local, Calling, Seeing, Fresh, Published
<1>6. OutcomeTrue(b)'
  BY <1>1, <1>3 DEF Shape, Local, Calling, Seeing, OutcomeTrue, Fresh, Running, Published
<1>7. Staging(b)'
  <2> DEFINE t == temp[b]
             u == temp'[b]
  <2>1. Staging(b) /\ moved' = moved
    BY <1>1 DEF Local
  <2>2. Bracketed(t)
    BY <2>1 DEF Filled, Staging
  <2>3. t \in Directory /\ source \in Nat
    BY <1>1, <2>2 DEF Bracketed, Shape
  <2>4. u = [t EXCEPT !.data = t.data \cup {source}, !.parts = t.parts + 1]
    BY <1>1 DEF Shape
  <2>5. pc'[b] = "scanned" /\ source' = source
    BY <1>1 DEF Shape
  <2> HIDE DEF t, u, ScanBatch, disk, local, count, Go, End
  <2>6. u \in Directory
    <3>1. /\ t.data \cup {source} \in SUBSET Nat /\ t.parts + 1 \in Nat
          /\ t.parts \in Nat /\ 0 \in Nat
      BY <2>3 DEF Directory
    <3> QED
      BY <2>3, <2>4, <3>1 DEF Directory
  <2>7. u.identity = t.identity /\ u.data = t.data \cup {source}
    BY <2>3, <2>4 DEF Directory, IdentityOfNat
  <2>8. /\ u.identity.version <= source
        /\ \A v \in u.data : u.identity.version <= v /\ v <= source
    BY <2>2, <2>3, <2>7 DEF Bracketed, Directory, IdentityOfNat
  <2>9. Bracketed(temp[b])'
    BY <2>5, <2>6, <2>8 DEF Bracketed, u
  <2>10. temp'[b] = u
    BY DEF u
  <2> QED
    BY <2>1, <2>5, <2>7, <2>9, <2>10 DEF Filled, Staging, Faithful
<1> QED
  BY <1>1, <1>2, <1>4, <1>5, <1>6, <1>7, QuietStep DEF Shape, Local

LEMMA BudgetAfterScanStep == ASSUME CacheInv, NEW b \in Builders, BudgetAfterScan(b) PROVE CacheInv'
<1> USE DEF BudgetAfterScan, disk, local, count, Go, End
<1>1. Local(b) /\ Shape /\ b \in Processes
  BY DEF CacheInv, Processes
<1>2. Alone(b)
  BY <1>1, ProcessAssumption DEF Shape, Alone, Processes
<1>3. Published' = Published
  BY DEF Published
<1>4. Calling(b)'
  BY <1>1 DEF Shape, Local, Calling
<1>5. Seeing(b)'
  BY <1>1, <1>3 DEF Shape, Local, Calling, Seeing, Fresh, Published
<1>6. OutcomeTrue(b)'
  BY <1>1, <1>3 DEF Shape, Local, Calling, Seeing, OutcomeTrue, Fresh, Running, Published
<1>7. Staging(b)'
  BY <1>1 DEF Shape, Local, Calling, Filled, Staging, Bracketed, Faithful
<1> QED
  BY <1>1, <1>2, <1>4, <1>5, <1>6, <1>7, QuietStep DEF Shape, Local

LEMMA BudgetAfterConsolidateStep == ASSUME CacheInv, NEW b \in Builders, BudgetAfterConsolidate(b) PROVE CacheInv'
<1> USE DEF BudgetAfterConsolidate, disk, local, count, Go, End
<1>1. Local(b) /\ Shape /\ b \in Processes
  BY DEF CacheInv, Processes
<1>2. Alone(b)
  BY <1>1, ProcessAssumption DEF Shape, Alone, Processes
<1>3. Published' = Published
  BY DEF Published
<1>4. Calling(b)'
  BY <1>1 DEF Shape, Local, Calling
<1>5. Seeing(b)'
  BY <1>1, <1>3 DEF Shape, Local, Calling, Seeing, Fresh, Published
<1>6. OutcomeTrue(b)'
  BY <1>1, <1>3 DEF Shape, Local, Calling, Seeing, OutcomeTrue, Fresh, Running, Published
<1>7. Staging(b)'
  BY <1>1 DEF Shape, Local, Calling, Filled, Staging, Bracketed, Faithful
<1> QED
  BY <1>1, <1>2, <1>4, <1>5, <1>6, <1>7, QuietStep DEF Shape, Local

LEMMA ConsolidateStep == ASSUME CacheInv, NEW b \in Builders, Consolidate(b) PROVE CacheInv'
<1> USE DEF Consolidate, disk, local, count, Go, End
<1>1. Local(b) /\ Shape /\ b \in Processes
  BY DEF CacheInv, Processes
<1>2. Alone(b)
  BY <1>1, ProcessAssumption DEF Shape, Alone, Processes
<1>3. Published' = Published
  BY DEF Published
<1>4. Calling(b)'
  BY <1>1 DEF Shape, Local, Calling
<1>5. Seeing(b)'
  BY <1>1, <1>3 DEF Shape, Local, Calling, Seeing, Fresh, Published
<1>6. OutcomeTrue(b)'
  BY <1>1, <1>3 DEF Shape, Local, Calling, Seeing, OutcomeTrue, Fresh, Running, Published
<1>7. Staging(b)'
  <2> DEFINE t == temp[b]
             u == temp'[b]
  <2>0. t.data # {}
    BY <1>1 DEF Local, Filled, Staging
  <2>1. Staging(b) /\ moved' = moved
    BY <1>1 DEF Local
  <2>2. Bracketed(t)
    BY <2>1 DEF Filled, Staging
  <2>3. t \in Directory /\ source \in Nat
    BY <1>1, <2>2 DEF Bracketed, Shape
  <2>4. u = [t EXCEPT !.output = t.parts]
    BY <1>1 DEF Shape
  <2>5. pc'[b] = "consolidated" /\ source' = source
    BY <1>1 DEF Shape
  <2> HIDE DEF t, u, Consolidate, disk, local, count, Go, End
  <2>6. u \in Directory
    <3>1. /\ t.data \cup {source} \in SUBSET Nat /\ t.parts + 1 \in Nat
          /\ t.parts \in Nat /\ 0 \in Nat
      BY <2>3 DEF Directory
    <3> QED
      BY <2>3, <2>4, <3>1 DEF Directory
  <2>7. u.identity = t.identity /\ u.data = t.data /\ t.data # {}
    BY <2>3, <2>4, <2>0 DEF Directory, IdentityOfNat
  <2>8. /\ u.identity.version <= source
        /\ \A v \in u.data : u.identity.version <= v /\ v <= source
    BY <2>2, <2>3, <2>7 DEF Bracketed, Directory, IdentityOfNat
  <2>9. Bracketed(temp[b])'
    BY <2>5, <2>6, <2>8 DEF Bracketed, u
  <2>10. temp'[b] = u
    BY DEF u
  <2> QED
    BY <2>1, <2>5, <2>7, <2>9, <2>10 DEF Filled, Staging, Faithful
<1> QED
  BY <1>1, <1>2, <1>4, <1>5, <1>6, <1>7, QuietStep DEF Shape, Local

\* A step of b after its last budget check that writes its directory.
LEMMA FinishingStep ==
  ASSUME CacheInv, NEW b \in Builders, pc[b] \in Filled,
         NEW step \in {"source manifest", "date manifest", "staged"}, Go(b, step),
         NEW u \in Directory, temp' = [temp EXCEPT ![b] = u],
         u.identity = temp[b].identity, u.data = temp[b].data, u.parts = 0,
         step = "staged" => u.complete,
         UNCHANGED <<source, final, superseded, litter, local, count>>
  PROVE  CacheInv'
<1> USE DEF disk, local, count, Go, Filled
<1>1. Local(b) /\ Shape /\ b \in Processes
  BY DEF CacheInv, Processes
<1>2. Alone(b)
  BY <1>1, ProcessAssumption DEF Shape, Alone, Processes
<1>3. Published' = Published
  BY DEF Published
<1>4. Calling(b)'
  BY <1>1 DEF Shape, Local, Calling
<1>5. Seeing(b)'
  BY <1>1, <1>3 DEF Shape, Local, Calling, Seeing, Fresh, Published
<1>6. OutcomeTrue(b)'
  BY <1>1, <1>3 DEF Shape, Local, Calling, Seeing, OutcomeTrue, Fresh, Running, Published
<1>7. Staging(b)'
  <2>1. temp'[b] = u /\ pc'[b] = step /\ source' = source /\ moved' = moved
    BY <1>1 DEF Shape
  <2>2. Bracketed(temp[b]) /\ temp[b].data # {} /\ (moved[b] # NoTree => Faithful(moved[b]))
    BY <1>1 DEF Local, Filled, Staging
  <2>3. Bracketed(u)
    BY <2>2 DEF Bracketed
  <2>4. Bracketed(temp[b])'
    BY <2>1, <2>3 DEF Bracketed
  <2>5. temp'[b].data # {} /\ temp'[b].parts = 0 /\ (pc'[b] = "staged" => temp'[b].complete)
    BY <2>1, <2>2
  <2>6. moved'[b] # NoTree => Faithful(moved'[b])
    BY <2>1, <2>2
  <2> QED
    BY <2>1, <2>4, <2>5, <2>6 DEF Filled, Staging, Faithful
<1> QED
  BY <1>1, <1>2, <1>4, <1>5, <1>6, <1>7, QuietStep DEF Shape, Local

\* What the steps after the last check make of a directory.
LEMMA Finished ==
  ASSUME NEW t \in Directory, NEW m \in Nat
  PROVE  /\ [t EXCEPT !.parts = 0] \in Directory
         /\ [t EXCEPT !.parts = 0].identity = t.identity
         /\ [t EXCEPT !.parts = 0].data = t.data
         /\ [t EXCEPT !.parts = 0].parts = 0
         /\ [t EXCEPT !.manifests = m] \in Directory
         /\ [t EXCEPT !.manifests = m].identity = t.identity
         /\ [t EXCEPT !.manifests = m].data = t.data
         /\ [t EXCEPT !.manifests = m].parts = t.parts
         /\ [t EXCEPT !.manifests = m, !.complete = TRUE] \in Directory
         /\ [t EXCEPT !.manifests = m, !.complete = TRUE].identity = t.identity
         /\ [t EXCEPT !.manifests = m, !.complete = TRUE].data = t.data
         /\ [t EXCEPT !.manifests = m, !.complete = TRUE].parts = t.parts
         /\ [t EXCEPT !.manifests = m, !.complete = TRUE].complete
  BY DEF Directory

LEMMA FinishingSteps ==
  ASSUME CacheInv, NEW b \in Builders, RemoveParts(b) \/ SealSource(b) \/ SealDate(b)
  PROVE  CacheInv'
<1>1. /\ b \in DOMAIN temp /\ pc[b] \in Filled
      /\ UNCHANGED <<source, final, superseded, litter, local, count>>
  BY DEF CacheInv, Shape, RemoveParts, SealSource, SealDate, Filled
<1>2. /\ temp[b] \in Directory
      /\ pc[b] \in {"source manifest", "date manifest", "staged"} => temp[b].parts = 0
  BY <1>1 DEF CacheInv, Processes, Local, Filled, Staging, Bracketed
<1>3. PICK t \in Directory : t = temp[b]
  BY <1>2
<1>4. SourceManifestBytes \in Nat /\ SourceManifestBytes + DateManifestBytes \in Nat
  BY SizesAssumption
<1>5. CASE RemoveParts(b)
  <2>1. PICK u \in Directory : u = [t EXCEPT !.parts = 0]
    BY Finished
  <2>2. u.identity = t.identity /\ u.data = t.data /\ u.parts = 0
    BY <2>1, Finished
  <2>3. temp' = [temp EXCEPT ![b] = u] /\ Go(b, "source manifest")
    BY <1>1, <1>3, <1>5, <2>1 DEF RemoveParts
  <2> QED
    BY <1>1, <1>3, <2>2, <2>3, FinishingStep
<1>6. CASE SealSource(b)
  <2>1. PICK u \in Directory : u = [t EXCEPT !.manifests = SourceManifestBytes]
    BY <1>4, Finished
  <2>2. u.identity = t.identity /\ u.data = t.data /\ u.parts = t.parts
    BY <1>4, <2>1, Finished
  <2>3. temp' = [temp EXCEPT ![b] = u] /\ Go(b, "date manifest") /\ t.parts = 0
    BY <1>1, <1>2, <1>3, <1>6, <2>1 DEF SealSource
  <2> QED
    BY <1>1, <1>3, <2>2, <2>3, FinishingStep
<1>7. CASE SealDate(b)
  <2> DEFINE m == SourceManifestBytes + DateManifestBytes
  <2>1. PICK u \in Directory : u = [t EXCEPT !.manifests = m, !.complete = TRUE]
    BY <1>4, Finished
  <2>2. u.identity = t.identity /\ u.data = t.data /\ u.parts = t.parts /\ u.complete
    BY <1>4, <2>1, Finished
  <2>3. temp' = [temp EXCEPT ![b] = u] /\ Go(b, "staged") /\ t.parts = 0
    BY <1>1, <1>2, <1>3, <1>7, <2>1 DEF SealDate
  <2> QED
    BY <1>1, <1>3, <2>2, <2>3, FinishingStep
<1> QED
  BY <1>5, <1>6, <1>7

LEMMA BuildRaisesStep == ASSUME CacheInv, NEW b \in Builders, BuildRaises(b) PROVE CacheInv'
<1> USE DEF BuildRaises, disk, local, count, Go, End
<1>1. Local(b) /\ Shape /\ b \in Processes
  BY DEF CacheInv, Processes
<1>2. Alone(b)
  BY <1>1, ProcessAssumption DEF Shape, Alone, Processes
<1>3. Published' = Published
  BY DEF Published
<1>4. Calling(b)'
  BY <1>1 DEF Shape, Local, Calling
<1>5. Seeing(b)'
  BY <1>1, <1>3 DEF Shape, Local, Calling, Seeing, Fresh, Published
<1>6. OutcomeTrue(b)'
  BY <1>1, <1>3 DEF Shape, Local, Calling, Seeing, OutcomeTrue, Fresh, Running, Published
<1>7. Staging(b)'
  BY <1>1 DEF Shape, Local, Calling, Filled, Staging, Bracketed, Faithful
<1> QED
  BY <1>1, <1>2, <1>4, <1>5, <1>6, <1>7, QuietStep DEF Shape, Local

LEMMA CleanupStep == ASSUME CacheInv, NEW b \in Builders, Cleanup(b) PROVE CacheInv'
<1> USE DEF Cleanup, Removed, disk, local, count, Go, End
<1>1. Local(b) /\ Shape /\ b \in Processes
  BY DEF CacheInv, Processes
<1>2. Alone(b)
  BY <1>1, ProcessAssumption DEF Shape, Alone, Processes
<1>3. Published' = Published
  BY DEF Published
<1>4. Calling(b)'
  BY <1>1 DEF Shape, Local, Calling
<1>5. Seeing(b)'
  BY <1>1, <1>3 DEF Shape, Local, Calling, Seeing, Fresh, Published
<1>6. OutcomeTrue(b)'
  BY <1>1, <1>3 DEF Shape, Local, Calling, Seeing, OutcomeTrue, Fresh, Running, Published
<1>7. Staging(b)'
  BY <1>1 DEF Shape, Local, Calling, Filled, Staging, Bracketed, Faithful
<1> QED
  BY <1>1, <1>2, <1>4, <1>5, <1>6, <1>7, QuietStep DEF Shape, Local

LEMMA ValidateStagedStep == ASSUME CacheInv, NEW b \in Builders, ValidateStaged(b) PROVE CacheInv'
<1> USE DEF ValidateStaged, StagedCurrent, Current, disk, local, count, Go, End
<1>1. Local(b) /\ Shape /\ b \in Processes
  BY DEF CacheInv, Processes
<1>2. Alone(b)
  BY <1>1, ProcessAssumption DEF Shape, Alone, Processes
<1>3. Published' = Published
  BY DEF Published
<1>4. Calling(b)'
  BY <1>1 DEF Shape, Local, Calling
<1>5. Seeing(b)'
  BY <1>1, <1>3 DEF Shape, Local, Calling, Seeing, Fresh, Published
<1>6. OutcomeTrue(b)'
  BY <1>1, <1>3 DEF Shape, Local, Calling, Seeing, OutcomeTrue, Fresh, Running, Published
<1>7. Staging(b)'
  <2>1. Staging(b) /\ moved' = moved /\ temp' = temp /\ source \in Nat
    BY <1>1 DEF Local, Shape
  <2>2. pc'[b] = IF StagedCurrent(b) THEN "publish" ELSE "cleanup"
    BY <1>1 DEF Shape
  <2>3. Bracketed(temp[b]) /\ temp[b].data # {} /\ temp[b].complete /\ temp[b].parts = 0
    BY <2>1 DEF Filled, Staging
  <2>4. ASSUME StagedCurrent(b) PROVE temp[b].data = {temp[b].identity.version}
    <3>1. temp[b].identity.version = source
      BY <2>4
    <3>2. \A v \in temp[b].data : v \in Nat /\ source <= v /\ v <= source
      BY <2>3, <3>1 DEF Bracketed, Directory
    <3>3. \A v \in temp[b].data : v = source
      BY <2>1, <3>2
    <3> QED
      BY <2>3, <3>1, <3>3
  <2> HIDE DEF StagedCurrent, Current
  <2>5. pc'[b] = "publish" => Faithful(temp[b])
    BY <2>2, <2>3, <2>4 DEF Faithful
  <2>6. pc'[b] \in {"publish", "cleanup"}
    BY <2>2
  <2> QED
    BY <2>1, <2>5, <2>6 DEF Filled, Staging, Faithful
<1> QED
  BY <1>1, <1>2, <1>4, <1>5, <1>6, <1>7, QuietStep DEF Shape, Local

LEMMA PredecessorExistsStep == ASSUME CacheInv, NEW b \in Builders, PredecessorExists(b) PROVE CacheInv'
<1> USE DEF PredecessorExists, disk, local, count, Go, End
<1>1. Local(b) /\ Shape /\ b \in Processes
  BY DEF CacheInv, Processes
<1>2. Alone(b)
  BY <1>1, ProcessAssumption DEF Shape, Alone, Processes
<1>3. Published' = Published
  BY DEF Published
<1>4. Calling(b)'
  BY <1>1 DEF Shape, Local, Calling
<1>5. Seeing(b)'
  BY <1>1, <1>3 DEF Shape, Local, Calling, Seeing, Fresh, Published
<1>6. OutcomeTrue(b)'
  BY <1>1, <1>3 DEF Shape, Local, Calling, Seeing, OutcomeTrue, Fresh, Running, Published
<1>7. Staging(b)'
  BY <1>1 DEF Shape, Local, Calling, Filled, Staging, Bracketed, Faithful
<1> QED
  BY <1>1, <1>2, <1>4, <1>5, <1>6, <1>7, QuietStep DEF Shape, Local

LEMMA InstallRaisesStep == ASSUME CacheInv, NEW b \in Builders, InstallRaises(b) PROVE CacheInv'
<1> USE DEF InstallRaises, Fault, disk, local, count, Go, End
<1>1. Local(b) /\ Shape /\ b \in Processes
  BY DEF CacheInv, Processes
<1>2. Alone(b)
  BY <1>1, ProcessAssumption DEF Shape, Alone, Processes
<1>3. Published' = Published
  BY DEF Published
<1>4. Calling(b)'
  BY <1>1 DEF Shape, Local, Calling
<1>5. Seeing(b)'
  BY <1>1, <1>3 DEF Shape, Local, Calling, Seeing, Fresh, Published
<1>6. OutcomeTrue(b)'
  BY <1>1, <1>3 DEF Shape, Local, Calling, Seeing, OutcomeTrue, Fresh, Running, Published
<1>7. Staging(b)'
  BY <1>1 DEF Shape, Local, Calling, Filled, Staging, Bracketed, Faithful
<1> QED
  BY <1>1, <1>2, <1>4, <1>5, <1>6, <1>7, QuietStep DEF Shape, Local

LEMMA MustRestoreStep == ASSUME CacheInv, NEW b \in Builders, MustRestore(b) PROVE CacheInv'
<1> USE DEF MustRestore, ToRestore, disk, local, count, Go, End
<1>1. Local(b) /\ Shape /\ b \in Processes
  BY DEF CacheInv, Processes
<1>2. Alone(b)
  BY <1>1, ProcessAssumption DEF Shape, Alone, Processes
<1>3. Published' = Published
  BY DEF Published
<1>4. Calling(b)'
  BY <1>1 DEF Shape, Local, Calling
<1>5. Seeing(b)'
  BY <1>1, <1>3 DEF Shape, Local, Calling, Seeing, Fresh, Published
<1>6. OutcomeTrue(b)'
  BY <1>1, <1>3 DEF Shape, Local, Calling, Seeing, OutcomeTrue, Fresh, Running, Published
<1>7. Staging(b)'
  BY <1>1 DEF Shape, Local, Calling, Filled, Staging, Bracketed, Faithful
<1> QED
  BY <1>1, <1>2, <1>4, <1>5, <1>6, <1>7, QuietStep DEF Shape, Local

LEMMA ReportManifestStep == ASSUME CacheInv, NEW b \in Builders, ReportManifest(b) PROVE CacheInv'
<1> USE DEF ReportManifest, ReadManifest, Current, disk, local, count, Go, End
<1>1. Local(b) /\ Shape /\ b \in Processes
  BY DEF CacheInv, Processes
<1>2. Alone(b)
  BY <1>1, ProcessAssumption DEF Shape, Alone, Processes
<1>3. Published' = Published
  BY DEF Published
<1>4. Calling(b)'
  BY <1>1 DEF Shape, Local, Calling
<1>5. Seeing(b)'
  BY <1>1, <1>3 DEF Shape, Local, Calling, Seeing, Fresh, Published
<1>6. OutcomeTrue(b)'
  <2>1. CASE outcome' = outcome
    <3>1. outcome[b] = Running
      BY <1>1 DEF Local, Calling
    <3> HIDE DEF ReportManifest
    <3>2. outcome'[b].kind = "none"
      BY <2>1, <3>1 DEF Running
    <3> QED
      BY <3>2 DEF OutcomeTrue
  <2>2. CASE outcome' = [outcome EXCEPT ![b] = [kind |-> "unconfirmed", tree |-> NoTree]]
    <3>1. outcome'[b] = [kind |-> "unconfirmed", tree |-> NoTree]
      BY <1>1, <2>2 DEF Shape
    <3> HIDE DEF ReportManifest
    <3>2. outcome'[b].kind = "unconfirmed"
      BY <3>1
    <3> QED
      BY <3>2 DEF OutcomeTrue
  <2> QED
    BY <2>1, <2>2
<1>7. Staging(b)'
  BY <1>1 DEF Shape, Local, Calling, Filled, Staging, Bracketed, Faithful
<1> QED
  BY <1>1, <1>2, <1>4, <1>5, <1>6, <1>7, QuietStep DEF Shape, Local

LEMMA ReportFilesStep == ASSUME CacheInv, NEW b \in Builders, ReportFiles(b) PROVE CacheInv'
<1> USE DEF ReportFiles, FilesMatch, disk, local, count, Go, End
<1>1. Local(b) /\ Shape /\ b \in Processes
  BY DEF CacheInv, Processes
<1>2. Alone(b)
  BY <1>1, ProcessAssumption DEF Shape, Alone, Processes
<1>3. Published' = Published
  BY DEF Published
<1>4. Calling(b)'
  BY <1>1 DEF Shape, Local, Calling
<1>5. Seeing(b)'
  BY <1>1, <1>3 DEF Shape, Local, Calling, Seeing, Fresh, Published
<1>6. OutcomeTrue(b)'
  <2>1. Fresh(b)
    BY <1>1 DEF Local, Seeing
  <2>2. Fresh(b)'
    BY <1>1, <1>3, <2>1 DEF Shape, Fresh
  <2>3. \/ outcome' = [outcome EXCEPT ![b] = [kind |-> "miss", tree |-> seen[b]]]
        \/ outcome' = [outcome EXCEPT ![b] = [kind |-> "unconfirmed", tree |-> NoTree]]
    OBVIOUS
  <2>4. \/ outcome'[b] = [kind |-> "miss", tree |-> seen[b]]
        \/ outcome'[b] = [kind |-> "unconfirmed", tree |-> NoTree]
    BY <1>1, <2>3 DEF Shape
  <2> HIDE DEF ReportFiles
  <2> QED
    BY <1>3, <2>1, <2>2, <2>4 DEF OutcomeTrue, Fresh
<1>7. Staging(b)'
  BY <1>1 DEF Shape, Local, Calling, Filled, Staging, Bracketed, Faithful
<1> QED
  BY <1>1, <1>2, <1>4, <1>5, <1>6, <1>7, QuietStep DEF Shape, Local

LEMMA ReadDateManifestStep == ASSUME CacheInv, NEW r \in Readers, ReadDateManifest(r) PROVE CacheInv'
<1> USE DEF ReadDateManifest, ReadManifest, Current, disk, local, count, Go, End
<1>1. Local(r) /\ Shape /\ r \in Processes
  BY DEF CacheInv, Processes
<1>2. Alone(r)
  BY <1>1, ProcessAssumption DEF Shape, Alone, Processes
<1>3. Published' = Published
  BY DEF Published
<1>4. Calling(r)'
  BY <1>1 DEF Shape, Local, Calling
<1>5. Seeing(r)'
  BY <1>1, <1>3 DEF Shape, Local, Calling, Seeing, Fresh, Published
<1>6. OutcomeTrue(r)'
  BY <1>1, <1>3 DEF Shape, Local, Calling, Seeing, OutcomeTrue, Fresh, Running, Published
<1>7. r \notin Builders
  BY ProcessAssumption
<1> QED
  BY <1>1, <1>2, <1>4, <1>5, <1>6, <1>7, QuietStep DEF Shape, Local

LEMMA ReadDateFilesStep == ASSUME CacheInv, NEW r \in Readers, ReadDateFiles(r) PROVE CacheInv'
<1> USE DEF ReadDateFiles, FilesMatch, disk, local, count, Go, End
<1>1. Local(r) /\ Shape /\ r \in Processes
  BY DEF CacheInv, Processes
<1>2. Alone(r)
  BY <1>1, ProcessAssumption DEF Shape, Alone, Processes
<1>3. Published' = Published
  BY DEF Published
<1>4. Calling(r)'
  BY <1>1 DEF Shape, Local, Calling
<1>5. Seeing(r)'
  BY <1>1, <1>3 DEF Shape, Local, Calling, Seeing, Fresh, Published
<1>6. OutcomeTrue(r)'
  BY <1>1, <1>3 DEF Shape, Local, Calling, Seeing, OutcomeTrue, Fresh, Running, Published
<1>7. r \notin Builders
  BY ProcessAssumption
<1> QED
  BY <1>1, <1>2, <1>4, <1>5, <1>6, <1>7, QuietStep DEF Shape, Local

LEMMA OpenStep == ASSUME CacheInv, NEW r \in Readers, Open(r) PROVE CacheInv'
<1> USE DEF Open, FilesMatch, disk, local, count, Go, End
<1>1. Local(r) /\ Shape /\ r \in Processes
  BY DEF CacheInv, Processes
<1>2. Alone(r)
  BY <1>1, ProcessAssumption DEF Shape, Alone, Processes
<1>3. Published' = Published
  BY DEF Published
<1>4. Calling(r)'
  BY <1>1 DEF Shape, Local, Calling
<1>5. Seeing(r)'
  BY <1>1, <1>3 DEF Shape, Local, Calling, Seeing, Fresh, Published
<1>6. OutcomeTrue(r)'
  BY <1>1, <1>3 DEF Shape, Local, Calling, Seeing, OutcomeTrue, Fresh, Running, Published
<1>7. r \notin Builders
  BY ProcessAssumption
<1> QED
  BY <1>1, <1>2, <1>4, <1>5, <1>6, <1>7, QuietStep DEF Shape, Local

\* The first step of a call: its record is new and nothing is read or reported yet.
LEMMA BeginLocal ==
  ASSUME CacheInv, UNCHANGED source, NEW p \in Processes, NEW request \in Requests,
         NEW rebuild \in BOOLEAN, NEW step \in {"exists", "manifest"},
         Begin(p, request, rebuild, step)
  PROVE  calls' \in Nat /\ Calling(p)' /\ Seeing(p)' /\ OutcomeTrue(p)' /\ pc'[p] = step
<1> DEFINE made == [id |-> calls', rebuild |-> rebuild,
                    identity |-> [version |-> source, request |-> request]]
<1>1. Shape
  BY DEF CacheInv
<1>2. /\ calls' \in Nat /\ source' = source /\ source \in Nat
      /\ pc'[p] = step /\ call'[p] = made /\ seen'[p] = NoTree /\ outcome'[p] = Running
  BY <1>1 DEF Begin, Go, Shape
<1>3. made \in CallRecord /\ made.identity.version <= source
  BY <1>2 DEF CallRecord, IdentityOfNat
<1> HIDE DEF made
<1>4. Calling(p)'
  <2>1. Running' = Running
    BY DEF Running
  <2> QED
    BY <1>2, <1>3, <2>1 DEF Calling
<1>5. Seeing(p)'
  <2>1. step # "files" /\ step # "report files" /\ step # "open"
    OBVIOUS
  <2> QED
    BY <1>2, <2>1 DEF Seeing
<1>6. OutcomeTrue(p)'
  <2>1. outcome'[p].kind = "none"
    BY <1>2 DEF Running
  <2> QED
    BY <2>1 DEF OutcomeTrue
<1> QED
  BY <1>2, <1>4, <1>5, <1>6

LEMMA BuildDateStep == ASSUME CacheInv, NEW b \in Builders, BuildDate(b) PROVE CacheInv'
<1>1. Shape /\ Local(b) /\ b \in Processes
  BY DEF CacheInv, Processes
<1>2. PICK request \in Requests, rebuild \in BOOLEAN : Begin(b, request, rebuild, "exists")
  BY DEF BuildDate
<1>3. calls' \in Nat /\ Calling(b)' /\ Seeing(b)' /\ OutcomeTrue(b)' /\ pc'[b] = "exists"
  BY <1>1, <1>2, BeginLocal DEF BuildDate
<1>4. moved'[b] = NoTree
  BY <1>1 DEF BuildDate, Shape
<1>5. Staging(b)'
  BY <1>3, <1>4 DEF Filled, Staging
<1>6. Alone(b)
  BY <1>1, <1>2, ProcessAssumption DEF BuildDate, Begin, Go, disk, Shape, Alone, Processes
<1> QED
  BY <1>1, <1>2, <1>3, <1>5, <1>6, QuietStep DEF BuildDate, Begin, Go, disk, Shape, Local

LEMMA ReadSymbolStep == ASSUME CacheInv, NEW r \in Readers, ReadSymbol(r) PROVE CacheInv'
<1>1. Shape /\ Local(r) /\ r \in Processes /\ r \notin Builders
  BY ProcessAssumption DEF CacheInv, Processes
<1>2. PICK request \in Requests : Begin(r, request, FALSE, "manifest")
  BY DEF ReadSymbol
<1>3. calls' \in Nat /\ Calling(r)' /\ Seeing(r)' /\ OutcomeTrue(r)' /\ pc'[r] = "manifest"
  BY <1>1, <1>2, BeginLocal DEF ReadSymbol
<1>4. Alone(r)
  BY <1>1, <1>2 DEF ReadSymbol, Begin, Go, disk, Shape, Alone, Processes
<1> QED
  BY <1>1, <1>2, <1>3, <1>4, QuietStep DEF ReadSymbol, Begin, Go, disk, Shape, Local

\* The steps that change what is published.  Each keeps every published directory.
LEMMA SupersedeKeeps == ASSUME NEW b \in Builders, Supersede(b) PROVE Published' = Published
  BY DEF Supersede, Kept, Published

LEMMA InstallKeeps ==
  ASSUME NEW b \in Builders, Install(b)
  PROVE  Published \subseteq Published' /\ \A t \in Published' \ Published : t = temp[b]
  BY DEF Install, Published

LEMMA RestoreKeeps ==
  ASSUME NEW b \in Builders, Restore(b)
  PROVE  /\ Published \subseteq Published'
         /\ \A t \in Published' \ Published : t = moved[b] /\ t # NoTree
  BY DEF Restore, Published

LEMMA SupersedeStep == ASSUME CacheInv, NEW b \in Builders, Supersede(b) PROVE CacheInv'
<1>1. Shape /\ Local(b) /\ b \in Processes
  BY DEF CacheInv, Processes
<1>2. Published' = Published
  BY SupersedeKeeps
<1>3. /\ UNCHANGED <<source, temp, call, seen, outcome, calls>>
      /\ moved'[b] # moved[b] => moved'[b] = final /\ final # NoTree
      /\ DOMAIN pc' = Processes /\ DOMAIN moved' = Builders
      /\ pc[b] = "supersede" /\ pc'[b] \in {"install", "cleanup"}
  BY <1>1 DEF Supersede, Go, count, Shape
<1>4. Alone(b)
  BY <1>1, <1>3, ProcessAssumption DEF Supersede, Go, Shape, Alone, Processes
<1>5. moved'[b] # NoTree => Faithful(moved'[b])
  <2>1. moved[b] # NoTree => Faithful(moved[b])
    BY <1>1 DEF Local, Filled, Staging
  <2>2. final # NoTree => Faithful(final)
    BY DEF CacheInv, PublishedIsFaithful, Published, Faithful
  <2> QED
    BY <1>3, <2>1, <2>2
<1>6. Faithful(temp[b])
  BY <1>1, <1>3 DEF Local, Filled, Staging
<1>7. Staging(b)'
  BY <1>3, <1>5, <1>6 DEF Filled, Staging, Faithful
<1>8. Calling(b)' /\ Seeing(b)' /\ OutcomeTrue(b)'
  BY <1>1, <1>2, <1>3 DEF Local, Calling, Seeing, OutcomeTrue, Fresh, Running
<1>9. Local(b)'
  BY <1>7, <1>8 DEF Local
<1> QED
  BY <1>1, <1>2, <1>3, <1>4, <1>9, OneStep DEF Shape

LEMMA InstallStep == ASSUME CacheInv, NEW b \in Builders, Install(b) PROVE CacheInv'
<1>1. Shape /\ Local(b) /\ b \in Processes
  BY DEF CacheInv, Processes
<1>2. Published \subseteq Published' /\ \A t \in Published' \ Published : t = temp[b]
  BY InstallKeeps
<1>3. /\ UNCHANGED <<source, call, seen, moved, outcome, calls>>
      /\ DOMAIN pc' = Processes /\ DOMAIN temp' = Builders
      /\ pc[b] = "install" /\ pc'[b] = "report"
  BY <1>1 DEF Install, Go, local, count, Shape
<1>4. Alone(b)
  BY <1>1, <1>3, ProcessAssumption DEF Install, Go, local, Shape, Alone, Processes
<1>5. Faithful(temp[b])
  BY <1>1, <1>3 DEF Local, Filled, Staging
<1>6. Staging(b)'
  BY <1>1, <1>3 DEF Local, Filled, Staging, Faithful
<1>7. Calling(b)' /\ Seeing(b)' /\ OutcomeTrue(b)'
  BY <1>1, <1>2, <1>3 DEF Local, Calling, Seeing, OutcomeTrue, Fresh, Running
<1>8. Local(b)'
  BY <1>6, <1>7 DEF Local
<1> QED
  BY <1>1, <1>2, <1>3, <1>4, <1>5, <1>8, OneStep DEF Shape

LEMMA RestoreStep == ASSUME CacheInv, NEW b \in Builders, Restore(b) PROVE CacheInv'
<1>1. Shape /\ Local(b) /\ b \in Processes
  BY DEF CacheInv, Processes
<1>2. /\ Published \subseteq Published'
      /\ \A t \in Published' \ Published : t = moved[b] /\ t # NoTree
  BY RestoreKeeps
<1>3. /\ UNCHANGED <<source, temp, call, seen, moved, outcome, calls>>
      /\ DOMAIN pc' = Processes
      /\ pc[b] = "restore" /\ pc'[b] = "cleanup"
  BY <1>1 DEF Restore, Go, local, Shape
<1>4. Alone(b)
  BY <1>1, <1>3, ProcessAssumption DEF Restore, Go, local, Shape, Alone, Processes
<1>5. \A t \in Published' \ Published : Faithful(t)
  BY <1>1, <1>2 DEF Local, Filled, Staging
<1>6. Staging(b)'
  BY <1>1, <1>3 DEF Local, Filled, Staging, Faithful
<1>7. Calling(b)' /\ Seeing(b)' /\ OutcomeTrue(b)'
  BY <1>1, <1>2, <1>3 DEF Local, Calling, Seeing, OutcomeTrue, Fresh, Running
<1>8. Local(b)'
  BY <1>6, <1>7 DEF Local
<1> QED
  BY <1>1, <1>2, <1>3, <1>4, <1>5, <1>8, OneStep DEF Shape

LEMMA CrashStep == ASSUME CacheInv, NEW b \in Builders, Crash(b) PROVE CacheInv'
<1>1. Shape /\ Local(b) /\ b \in Processes
  BY DEF CacheInv, Processes
<1>2. /\ UNCHANGED <<source, final, superseded, call, seen, moved, calls>>
      /\ DOMAIN pc' = Processes /\ DOMAIN temp' = Builders /\ DOMAIN outcome' = Processes
      /\ pc'[b] = "idle" /\ outcome'[b] = [kind |-> "crashed", tree |-> NoTree]
  BY <1>1 DEF Crash, End, Go, Shape
<1>3. Alone(b)
  BY <1>1, <1>2, ProcessAssumption DEF Crash, End, Go, Shape, Alone, Processes
<1>4. Calling(b)' /\ Seeing(b)'
  BY <1>2 DEF Calling, Seeing
<1>5. OutcomeTrue(b)'
  <2>1. outcome'[b].kind = "crashed"
    BY <1>2
  <2> QED
    BY <2>1 DEF OutcomeTrue
<1>6. Staging(b)'
  BY <1>1, <1>2 DEF Local, Filled, Staging, Faithful
<1>7. Local(b)'
  BY <1>4, <1>5, <1>6 DEF Local
<1> QED
  BY <1>1, <1>2, <1>3, <1>7, QuietStep DEF Shape

\* A newer source leaves every comparison with an older one true.
LEMMA RewriteStep == ASSUME CacheInv, Rewrite PROVE CacheInv'
<1>1. Shape
  BY DEF CacheInv
<1>2. /\ source' = source + 1
      /\ UNCHANGED <<disk, pc, local, count>> /\ Published' = Published
  BY DEF Rewrite, disk, Published
<1>3. Shape' /\ source \in Nat
  BY <1>1, <1>2 DEF Shape, disk, local, count
<1>4. ASSUME NEW p \in Processes PROVE Local(p)'
  <2>1. Local(p)
    BY DEF CacheInv
  <2>2. Calling(p)'
    <3>1. Running' = Running
      BY DEF Running
    <3> QED
      BY <1>2, <1>3, <2>1, <3>1 DEF Local, Calling, CallRecord, IdentityOfNat, local
  <2>3. Seeing(p)' /\ OutcomeTrue(p)'
    BY <1>2, <2>1 DEF Local, Seeing, OutcomeTrue, Fresh, local
  <2>4. ASSUME p \in Builders PROVE Staging(p)'
    <3>1. /\ Staging(p) /\ temp'[p] = temp[p] /\ moved'[p] = moved[p] /\ pc'[p] = pc[p]
      BY <1>2, <2>1, <2>4 DEF Local, local, disk
    <3>2. Bracketed(temp[p]) => Bracketed(temp[p])'
      BY <1>2, <1>3, <3>1 DEF Bracketed, Directory, IdentityOfNat
    <3> QED
      BY <3>1, <3>2 DEF Filled, Staging, Faithful
  <2> QED
    BY <2>2, <2>3, <2>4 DEF Local
<1>5. PublishedIsFaithful'
  BY <1>2 DEF CacheInv, PublishedIsFaithful
<1> QED
  BY <1>3, <1>4, <1>5 DEF CacheInv

LEMMA CacheNext == CacheInv /\ [Next]_vars => CacheInv'
<1> SUFFICES ASSUME CacheInv, [Next]_vars PROVE CacheInv'
  OBVIOUS
<1>1. ASSUME NEW b \in Builders, Build(b) PROVE CacheInv'
  BY <1>1, FinalExistsStep, CheckManifestStep, CheckFilesStep, PreflightSpaceStep,
     ScanBatchStep, BudgetAfterScanStep, ConsolidateStep, BudgetAfterConsolidateStep,
     FinishingSteps, BuildRaisesStep,
     CleanupStep, ValidateStagedStep, PredecessorExistsStep, SupersedeStep, InstallStep,
     InstallRaisesStep, MustRestoreStep, RestoreStep, ReportManifestStep, ReportFilesStep
     DEF Build
<1>2. ASSUME NEW r \in Readers, Read(r) PROVE CacheInv'
  BY <1>2, ReadDateManifestStep, ReadDateFilesStep, OpenStep DEF Read
<1>3. CASE UNCHANGED vars
  <2>1. Published' = Published /\ Running' = Running
    BY <1>3 DEF vars, disk, Published, Running
  <2>2. ASSUME NEW p \in Processes PROVE Local(p)'
    <3>1. Local(p)
      BY DEF CacheInv
    <3> QED
      BY <1>3, <2>1, <3>1 DEF vars, disk, local, Local, Calling, Seeing, OutcomeTrue, Fresh,
                              Staging, Bracketed, Faithful
  <2> QED
    BY <1>3, <2>1, <2>2 DEF vars, disk, local, count, CacheInv, Shape, PublishedIsFaithful
<1> QED
  BY <1>1, <1>2, <1>3, BuildDateStep, CrashStep, ReadSymbolStep, RewriteStep DEF Next

LEMMA CacheInvariant == Spec => []CacheInv
  BY CacheInit, CacheNext, PTL DEF Spec
-----------------------------------------------------------------------------
\* Whatever builders, readers, rewrites of the source, failures and deaths
\* interleave, a published directory is finished and holds the rows of exactly
\* the source version its manifest names (store.py validate_date before publishing).
THEOREM PublishedFaithfulAlways == Spec => []PublishedIsFaithful
<1>1. CacheInv => PublishedIsFaithful
  BY DEF CacheInv
<1> QED
  BY <1>1, CacheInvariant, PTL

\* Every hit, miss and read reported to a caller names a published directory,
\* after a validation, during the call, of a published directory no older than the
\* source was when the call began; a hit has the identity asked for (store.py:62-75,
\* 119-142).
THEOREM OutcomesAlwaysTrue == Spec => []OutcomesAreTrue
<1>1. CacheInv => OutcomesAreTrue
  BY DEF CacheInv, OutcomesAreTrue, Local, OutcomeTrue, Fresh
<1> QED
  BY <1>1, CacheInvariant, PTL

\* No step of publish_date_atomically, its rollback or a death loses a directory
\* that was once published.
THEOREM PredecessorsAlwaysKept == Spec => PredecessorsKept
<1>1. [Next]_vars => [Published \subseteq Published']_vars
  <2> SUFFICES ASSUME Next PROVE Published \subseteq Published'
    OBVIOUS
  <2>1. ASSUME NEW b \in Builders, Build(b) PROVE Published \subseteq Published'
    <3>1. CASE Supersede(b)
      BY <3>1, SupersedeKeeps
    <3>2. CASE Install(b)
      BY <3>2, InstallKeeps
    <3>3. CASE Restore(b)
      BY <3>3, RestoreKeeps
    <3>4. CASE UNCHANGED <<final, superseded>>
      BY <3>4 DEF Published
    <3>5. Supersede(b) \/ Install(b) \/ Restore(b) \/ UNCHANGED <<final, superseded>>
      BY <2>1 DEF Build, disk, FinalExists, CheckManifest, CheckFiles, PreflightSpace,
         ScanBatch, BudgetAfterScan, Consolidate, BudgetAfterConsolidate,
         RemoveParts, SealSource, SealDate, BuildRaises, Cleanup,
         ValidateStaged, PredecessorExists, InstallRaises, MustRestore, ReportManifest,
         ReportFiles
    <3> QED
      BY <3>1, <3>2, <3>3, <3>4, <3>5
  <2>2. ASSUME NEW r \in Readers, Read(r) PROVE UNCHANGED <<final, superseded>>
    BY <2>2 DEF Read, ReadDateManifest, ReadDateFiles, Open, disk
  <2>3. ASSUME NEW b \in Builders, BuildDate(b) \/ Crash(b)
        PROVE  UNCHANGED <<final, superseded>>
    BY <2>3 DEF BuildDate, Crash, disk
  <2>4. ASSUME (\E r \in Readers : ReadSymbol(r)) \/ Rewrite
        PROVE  UNCHANGED <<final, superseded>>
    BY <2>4 DEF ReadSymbol, Rewrite, disk
  <2>5. UNCHANGED <<final, superseded>> => Published \subseteq Published'
    BY DEF Published
  <2> QED
    BY <2>1, <2>2, <2>3, <2>4, <2>5 DEF Next
<1> QED
  BY <1>1, PTL DEF Spec, PredecessorsKept
-----------------------------------------------------------------------------
(***************************************************************************)
(* Where the directories of a date are: of the visible one, those set      *)
(* aside, the temporary ones and those of dead builders none is ever in    *)
(* two places, for any number of processes, failures and deaths; and one   *)
(* is visible whenever the builders rest.                                  *)
(***************************************************************************)

NoTemp   == {"idle", "exists", "manifest", "files", "preflight", "report", "report files", "open"}
WithTemp == {"scan", "scanned", "consolidate", "consolidated", "trim", "source manifest",
             "date manifest", "staged", "publish", "supersede", "install"}

Settled == Published \cup litter

\* A builder's directory, before and after it has one, and the directories that
\* its call's serial number must not be mistaken for.
Stage(b) ==
  /\ pc[b] \in NoTemp => temp[b] = NoTree
  /\ pc[b] \in WithTemp => temp[b] # NoTree
  /\ pc[b] = "scan" => temp[b].parts < Batches
  /\ temp[b] # NoTree => temp[b].id = call[b].id
  /\ pc[b] = "restore" => moved[b] # NoTree
  /\ moved[b] # NoTree => moved[b] \in Published
  /\ pc[b] \notin {"idle", "report", "report files"} => \A t \in Settled : t.id # call[b].id

Serials ==
  /\ DOMAIN call = Processes
  /\ \A p \in Processes : pc[p] # "idle" => call[p].id \in 1 .. calls /\ call[p].identity \in Identity
  /\ \A p, q \in Processes : p # q /\ pc[p] # "idle" /\ pc[q] # "idle" => call[p].id # call[q].id
  /\ \A t \in Settled : t.id <= calls

Apart == Published \cap litter = {} /\ final \notin superseded

Typing ==
  /\ source \in Versions
  /\ final \in Tree \cup {NoTree}
  /\ superseded \subseteq Tree /\ litter \subseteq Tree
  /\ temp \in [Builders -> Tree \cup {NoTree}]
  /\ pc \in [Processes -> Steps]
  /\ seen \in [Processes -> Tree \cup {NoTree}]
  /\ moved \in [Builders -> Tree \cup {NoTree}]
  /\ outcome \in [Processes -> [kind : Kinds, tree : Tree \cup {NoTree}]]
  /\ calls \in 0 .. MaxCalls

Inv == Typing /\ Apart /\ Serials /\ \A b \in Builders : Stage(b)

LEMMA InvTypes == Inv => TypeOK
<1> SUFFICES ASSUME Inv PROVE TypeOK
  OBVIOUS
<1>1. final \notin superseded \cup litter
  <2>1. NoTree \notin superseded \cup litter
    BY NoTreeAssumption DEF Inv, Typing
  <2> QED
    BY <2>1 DEF Inv, Apart, Published
<1>2. \A b \in Builders : pc[b] = "idle" => temp[b] = NoTree
  BY DEF Inv, Stage, NoTemp
<1> QED
  BY <1>1, <1>2 DEF Inv, Typing, TypeOK

LEMMA InvInit == Init => Inv
<1> SUFFICES ASSUME Init PROVE Inv
  OBVIOUS
<1>1. Published = {} /\ Settled = {}
  BY DEF Init, Published, Settled
<1>2. Typing
  BY BoundsAssumption DEF Init, Typing, Versions, Running, Steps, Kinds
<1>3. \A b \in Builders : Stage(b)
  BY DEF Init, Stage, NoTemp, WithTemp, Processes
<1> QED
  BY <1>1, <1>2, <1>3 DEF Init, Inv, Apart, Serials
-----------------------------------------------------------------------------
\* A step of p that leaves the other processes alone.
LEMMA OthersStay ==
  ASSUME Inv, NEW p \in Processes, NEW b \in Builders, b # p,
         pc'[b] = pc[b], call'[b] = call[b], temp'[b] = temp[b], moved'[b] = moved[b],
         Published \subseteq Published',
         \A t \in Settled' \ Settled :
            pc[b] \notin {"idle", "report", "report files"} => t.id # call[b].id
  PROVE  Stage(b)'
<1>1. Stage(b)
  BY DEF Inv
<1> QED
  BY <1>1 DEF Stage

\* A step of p that leaves the directories and the calls alone.
LEMMA QuietSteps ==
  ASSUME Inv, NEW p \in Processes, pc[p] # "idle",
         UNCHANGED <<source, disk, call, moved, calls>>,
         NEW step \in Steps, Go(p, step),
         seen' \in [Processes -> Tree \cup {NoTree}],
         outcome' \in [Processes -> [kind : Kinds, tree : Tree \cup {NoTree}]],
         p \in Builders => Stage(p)'
  PROVE  Inv'
<1>1. /\ pc \in [Processes -> Steps] /\ Published' = Published /\ Settled' = Settled
      /\ Builders \subseteq Processes
  BY DEF Inv, Typing, disk, Published, Settled, Processes
<1>2. Typing'
  BY DEF Inv, Typing, Go, disk
<1>3. Apart'
  BY <1>1 DEF Inv, Apart, disk
<1>4. Serials'
  BY <1>1 DEF Inv, Serials, Go
<1>5. ASSUME NEW b \in Builders PROVE Stage(b)'
  <2>1. CASE b # p
    BY <1>1, <2>1, OthersStay DEF Go, disk
  <2> QED
    BY <2>1
<1> QED
  BY <1>2, <1>3, <1>4, <1>5 DEF Inv

\* Calls end with a tree or none.
LEMMA EndTyped ==
  ASSUME Inv, NEW p \in Processes, NEW kind \in Kinds, NEW tree \in Tree \cup {NoTree},
         End(p, kind, tree)
  PROVE  outcome' \in [Processes -> [kind : Kinds, tree : Tree \cup {NoTree}]]
  BY DEF Inv, Typing, End

LEMMA ReadTyped ==
  ASSUME Inv, NEW p \in Processes, ReadManifest(p)
  PROVE  seen' \in [Processes -> Tree \cup {NoTree}]
  BY DEF Inv, Typing, ReadManifest

\* A step of builder b that changes its temporary directory alone.
LEMMA TempSteps ==
  ASSUME Inv, NEW b \in Builders, pc[b] # "idle",
         UNCHANGED <<source, final, superseded, litter, call, seen, moved, calls>>,
         NEW step \in Steps, Go(b, step),
         NEW tree \in Tree \cup {NoTree}, temp' = [temp EXCEPT ![b] = tree],
         outcome' \in [Processes -> [kind : Kinds, tree : Tree \cup {NoTree}]],
         Stage(b)'
  PROVE  Inv'
<1>1. /\ pc \in [Processes -> Steps] /\ Published' = Published /\ Settled' = Settled
      /\ Builders \subseteq Processes /\ temp \in [Builders -> Tree \cup {NoTree}]
  BY DEF Inv, Typing, Published, Settled, Processes
<1>2. Typing'
  BY <1>1 DEF Inv, Typing, Go
<1>3. Apart'
  BY <1>1 DEF Inv, Apart
<1>4. Serials'
  BY <1>1 DEF Inv, Serials, Go
<1>5. ASSUME NEW c \in Builders PROVE Stage(c)'
  <2>1. CASE c # b
    BY <1>1, <2>1, OthersStay DEF Go
  <2> QED
    BY <2>1
<1> QED
  BY <1>2, <1>3, <1>4, <1>5 DEF Inv
-----------------------------------------------------------------------------
(* The steps of a build and of a reader that move no directory.            *)

LEMMA BuilderFacts ==
  ASSUME Inv, NEW b \in Builders
  PROVE  /\ Stage(b) /\ b \in Processes /\ pc[b] \in Steps
         /\ DOMAIN pc = Processes /\ DOMAIN outcome = Processes /\ DOMAIN temp = Builders
         /\ temp[b] \in Tree \cup {NoTree} /\ moved[b] \in Tree \cup {NoTree}
         /\ seen[b] \in Tree \cup {NoTree} /\ final \in Tree \cup {NoTree}
         /\ seen \in [Processes -> Tree \cup {NoTree}]
         /\ outcome \in [Processes -> [kind : Kinds, tree : Tree \cup {NoTree}]]
  BY DEF Inv, Typing, Processes

\* The builder's next stage, when only its step changes.
LEMMA NextStage ==
  ASSUME Inv, NEW b \in Builders, pc[b] # "idle", NEW step \in Steps, Go(b, step),
         UNCHANGED <<disk, call, moved>>,
         step \in NoTemp => temp[b] = NoTree, step \in WithTemp => temp[b] # NoTree,
         step = "scan" => temp[b].parts < Batches,
         step = "restore" => moved[b] # NoTree,
         pc[b] \in {"report", "report files"} => step \in {"idle", "report files"}
  PROVE  Stage(b)'
<1>1. pc'[b] = step /\ Published' = Published /\ Settled' = Settled
  BY BuilderFacts DEF Go, disk, Published, Settled
<1> QED
  BY <1>1, BuilderFacts DEF Stage, disk

LEMMA FinalExistsPlaces == ASSUME Inv, NEW b \in Builders, FinalExists(b) PROVE Inv'
<1> DEFINE step == IF final = NoTree THEN "preflight" ELSE "manifest"
<1>1. /\ pc[b] = "exists" /\ step \in Steps /\ Go(b, step) /\ UNCHANGED <<source, disk, local, calls>>
  BY DEF FinalExists, count, Steps
<1>2. Stage(b)'
  BY <1>1, BuilderFacts, NextStage DEF Stage, NoTemp, WithTemp, local
<1> QED
  BY <1>1, <1>2, BuilderFacts, QuietSteps DEF local

\* A check that fails sends the build on, or ends it.
LEMMA RefusePlaces ==
  ASSUME Inv, NEW b \in Builders, pc[b] \in {"manifest", "files"}, ReplaceOrRefuse(b),
         UNCHANGED <<source, disk, call, seen, moved, count>>
  PROVE  Inv'
<1>1. PICK step \in {"preflight", "idle"} : Go(b, step)
  BY DEF ReplaceOrRefuse, End
<1>2. step \in Steps /\ UNCHANGED calls
  BY DEF Steps, count
<1>3. outcome' \in [Processes -> [kind : Kinds, tree : Tree \cup {NoTree}]]
  BY BuilderFacts, EndTyped DEF ReplaceOrRefuse, Kinds
<1>4. Stage(b)'
  BY <1>1, <1>2, BuilderFacts, NextStage DEF Stage, NoTemp, WithTemp
<1> QED
  BY <1>1, <1>2, <1>3, <1>4, BuilderFacts, QuietSteps

LEMMA CheckManifestPlaces == ASSUME Inv, NEW b \in Builders, CheckManifest(b) PROVE Inv'
<1>1. pc[b] = "manifest" /\ UNCHANGED <<source, disk, call, moved, count>>
  BY DEF CheckManifest
<1>2. CASE ReadManifest(b) /\ Go(b, "files") /\ UNCHANGED outcome
  <2>1. "files" \in Steps /\ UNCHANGED calls
    BY <1>1 DEF Steps, count
  <2>2. Stage(b)'
    BY <1>1, <1>2, <2>1, BuilderFacts, NextStage DEF Stage, NoTemp, WithTemp
  <2> QED
    BY <1>1, <1>2, <2>1, <2>2, BuilderFacts, ReadTyped, QuietSteps
<1>3. CASE ReplaceOrRefuse(b) /\ UNCHANGED seen
  BY <1>1, <1>3, RefusePlaces
<1> QED
  BY <1>2, <1>3 DEF CheckManifest

LEMMA CheckFilesPlaces == ASSUME Inv, NEW b \in Builders, CheckFiles(b) PROVE Inv'
<1>1. pc[b] = "files" /\ UNCHANGED <<source, disk, call, seen, moved, count>>
  BY DEF CheckFiles
<1>2. CASE End(b, "hit", seen[b])
  <2>1. "idle" \in Steps /\ UNCHANGED calls /\ Go(b, "idle") /\ "hit" \in Kinds
    BY <1>1, <1>2 DEF Steps, Kinds, count, End
  <2>2. Stage(b)'
    BY <1>1, <2>1, BuilderFacts, NextStage DEF Stage, NoTemp, WithTemp
  <2> QED
    BY <1>1, <1>2, <2>1, <2>2, BuilderFacts, EndTyped, QuietSteps
<1>3. CASE ReplaceOrRefuse(b)
  BY <1>1, <1>3, RefusePlaces
<1> QED
  BY <1>2, <1>3 DEF CheckFiles

\* The quiet steps of a build that has its directory, or whose is installed.
LEMMA QuietBuild ==
  ASSUME Inv, NEW b \in Builders, pc[b] # "idle", NEW step \in Steps, Go(b, step),
         UNCHANGED <<source, disk, local, calls>>,
         step \in NoTemp => temp[b] = NoTree, step \in WithTemp => temp[b] # NoTree,
         step = "scan" => temp[b].parts < Batches,
         step = "restore" => moved[b] # NoTree,
         pc[b] \in {"report", "report files"} => step \in {"idle", "report files"}
  PROVE  Inv'
<1>1. Stage(b)'
  BY NextStage DEF local
<1> QED
  BY <1>1, BuilderFacts, QuietSteps DEF local

LEMMA QuietBuildPlaces ==
  ASSUME Inv, NEW b \in Builders,
         \/ BudgetAfterScan(b) \/ BudgetAfterConsolidate(b) \/ BuildRaises(b) \/ ValidateStaged(b)
         \/ PredecessorExists(b) \/ MustRestore(b) \/ InstallRaises(b)
  PROVE  Inv'
<1>1. CASE BudgetAfterScan(b)
  <2>1. pc[b] = "scanned" /\ temp[b] \in Tree
    BY <1>1, BuilderFacts DEF BudgetAfterScan, Stage, WithTemp
  <2>2. PICK step \in {"scan", "consolidate"} :
           Go(b, step) /\ (step = "scan" => temp[b].parts < Batches)
    BY <1>1 DEF BudgetAfterScan
  <2>3. step \in Steps /\ UNCHANGED <<source, disk, local, calls>> /\ temp[b] # NoTree
    BY <1>1, <2>1, NoTreeAssumption DEF BudgetAfterScan, Steps, count
  <2> QED
    BY <2>1, <2>2, <2>3, QuietBuild DEF NoTemp
<1>2. CASE BuildRaises(b)
  BY <1>2, QuietBuild DEF BuildRaises, Steps, NoTemp, WithTemp, count
<1>3. CASE ValidateStaged(b)
  <2>1. pc[b] = "staged" /\ temp[b] # NoTree /\ UNCHANGED <<source, disk, local, calls>>
    BY <1>3, BuilderFacts DEF ValidateStaged, Stage, WithTemp, count
  <2>2. PICK step \in {"publish", "cleanup"} : Go(b, step)
    BY <1>3 DEF ValidateStaged
  <2> QED
    BY <2>1, <2>2, QuietBuild DEF Steps, NoTemp
<1>4. CASE PredecessorExists(b)
  <2>1. pc[b] = "publish" /\ temp[b] # NoTree /\ UNCHANGED <<source, disk, local, calls>>
    BY <1>4, BuilderFacts DEF PredecessorExists, Stage, WithTemp, count
  <2>2. PICK step \in {"install", "supersede"} : Go(b, step)
    BY <1>4 DEF PredecessorExists
  <2> QED
    BY <2>1, <2>2, QuietBuild DEF Steps, NoTemp
<1>5. CASE MustRestore(b)
  <2>1. pc[b] = "restore?" /\ UNCHANGED <<source, disk, local, calls>>
    BY <1>5 DEF MustRestore, count
  <2>2. PICK step \in {"restore", "cleanup"} : Go(b, step) /\ (step = "restore" => ToRestore(b))
    BY <1>5 DEF MustRestore
  <2>3. step = "restore" => moved[b] # NoTree
    BY <2>2, NoTreeAssumption DEF ToRestore, Inv, Typing
  <2> QED
    BY <2>1, <2>2, <2>3, QuietBuild DEF Steps, NoTemp, WithTemp
<1>6. CASE InstallRaises(b)
  BY <1>6, QuietBuild DEF InstallRaises, Steps, NoTemp, WithTemp
<1>7. CASE BudgetAfterConsolidate(b)
  <2>1. pc[b] = "consolidated" /\ temp[b] # NoTree /\ UNCHANGED <<source, disk, local, calls>>
    BY <1>7, BuilderFacts DEF BudgetAfterConsolidate, Stage, WithTemp, count
  <2>2. Go(b, "trim")
    BY <1>7 DEF BudgetAfterConsolidate
  <2> QED
    BY <2>1, <2>2, QuietBuild DEF Steps, NoTemp
<1> QED
  BY <1>1, <1>2, <1>3, <1>4, <1>5, <1>6, <1>7

LEMMA ReportPlaces ==
  ASSUME Inv, NEW b \in Builders, ReportManifest(b) \/ ReportFiles(b)
  PROVE  Inv'
<1>1. /\ pc[b] \in {"report", "report files"} /\ UNCHANGED <<source, disk, call, moved, calls>>
      /\ temp[b] = NoTree
  BY BuilderFacts DEF ReportManifest, ReportFiles, count, Stage, NoTemp
<1>2. PICK step \in {"idle", "report files"} : Go(b, step)
  BY DEF ReportManifest, ReportFiles, End
<1>3. step \in Steps
  BY DEF Steps
<1>4. /\ seen' \in [Processes -> Tree \cup {NoTree}]
      /\ outcome' \in [Processes -> [kind : Kinds, tree : Tree \cup {NoTree}]]
  BY BuilderFacts, ReadTyped, EndTyped DEF ReportManifest, ReportFiles, Kinds
<1>5. Stage(b)'
  BY <1>1, <1>2, <1>3, NextStage DEF NoTemp, WithTemp
<1> QED
  BY <1>1, <1>2, <1>3, <1>4, <1>5, BuilderFacts, QuietSteps

LEMMA ReadPlaces == ASSUME Inv, NEW r \in Readers, Read(r) PROVE Inv'
<1>1. /\ r \in Processes /\ r \notin Builders
      /\ seen \in [Processes -> Tree \cup {NoTree}] /\ final \in Tree \cup {NoTree}
      /\ outcome \in [Processes -> [kind : Kinds, tree : Tree \cup {NoTree}]]
  BY ProcessAssumption DEF Processes, Inv, Typing
<1>2. pc[r] # "idle" /\ UNCHANGED <<source, disk, call, moved, calls>>
  BY DEF Read, ReadDateManifest, ReadDateFiles, Open, count
<1>3. PICK step \in {"idle", "files", "open"} : Go(r, step)
  BY DEF Read, ReadDateManifest, ReadDateFiles, Open, End
<1>4. seen' \in [Processes -> Tree \cup {NoTree}]
  BY <1>1, ReadTyped DEF Read, ReadDateManifest, ReadDateFiles, Open
<1>5. outcome' \in [Processes -> [kind : Kinds, tree : Tree \cup {NoTree}]]
  BY <1>1, EndTyped DEF Read, ReadDateManifest, ReadDateFiles, Open, Kinds
<1> QED
  BY <1>1, <1>2, <1>3, <1>4, <1>5, QuietSteps DEF Steps
-----------------------------------------------------------------------------
(* The steps that write the temporary directory.                           *)

TreeFields(t) == /\ t.id \in 1 .. MaxCalls /\ t.identity \in Identity /\ t.data \subseteq Versions
                 /\ t.parts \in 0 .. Batches /\ t.output \in 0 .. Batches /\ t.complete \in BOOLEAN
                 /\ t.manifests \in 0 .. SourceManifestBytes + DateManifestBytes

LEMMA FieldsOfTree == \A t \in Tree : TreeFields(t)
  BY DEF Tree, TreeFields

\* What the scan, the consolidation and the manifests make of the directory.
LEMMA Written ==
  ASSUME NEW t \in Tree
  PROVE  /\ [t EXCEPT !.output = t.parts] \in Tree
         /\ [t EXCEPT !.output = t.parts].id = t.id
         /\ [t EXCEPT !.parts = 0] \in Tree
         /\ [t EXCEPT !.parts = 0].id = t.id
         /\ [t EXCEPT !.manifests = SourceManifestBytes] \in Tree
         /\ [t EXCEPT !.manifests = SourceManifestBytes].id = t.id
         /\ LET m == SourceManifestBytes + DateManifestBytes
            IN  /\ [t EXCEPT !.manifests = m, !.complete = TRUE] \in Tree
                /\ [t EXCEPT !.manifests = m, !.complete = TRUE].id = t.id
         /\ \A v \in Versions : t.parts < Batches =>
              LET new == [t EXCEPT !.data = @ \cup {v}, !.parts = @ + 1]
              IN  new \in Tree /\ new.id = t.id
<1>1. TreeFields(t)
  BY FieldsOfTree
<1>2. /\ 0 \in 0 .. Batches /\ (t.parts < Batches => t.parts + 1 \in 0 .. Batches)
      /\ SourceManifestBytes \in 0 .. SourceManifestBytes + DateManifestBytes
      /\ SourceManifestBytes + DateManifestBytes \in 0 .. SourceManifestBytes + DateManifestBytes
  BY <1>1, SizesAssumption DEF TreeFields
<1> QED
  BY <1>1, <1>2 DEF Tree, TreeFields

\* The builder's next stage when its directory changes, or is made or removed.
LEMMA NextStageTemp ==
  ASSUME Inv, NEW b \in Builders, NEW step, Go(b, step), NEW tree, temp' = [temp EXCEPT ![b] = tree],
         UNCHANGED <<final, superseded, litter, call, moved>>,
         pc[b] \notin {"idle", "report", "report files"}, step \notin {"scan", "restore"},
         tree # NoTree => tree.id = call[b].id,
         step \in NoTemp => tree = NoTree, step \in WithTemp => tree # NoTree
  PROVE  Stage(b)'
<1>1. pc'[b] = step /\ temp'[b] = tree /\ Published' = Published /\ Settled' = Settled
  BY BuilderFacts DEF Go, Published, Settled
<1> QED
  BY <1>1, BuilderFacts DEF Stage

LEMMA PreflightSpacePlaces == ASSUME Inv, NEW b \in Builders, PreflightSpace(b) PROVE Inv'
<1>1. /\ pc[b] = "preflight" /\ temp[b] = NoTree /\ UNCHANGED calls
      /\ UNCHANGED <<source, final, superseded, litter, call, seen, moved>>
  BY BuilderFacts DEF PreflightSpace, Stage, NoTemp, count
<1>2. CASE temp' = [temp EXCEPT ![b] = NewTree(b)] /\ Go(b, "scan") /\ UNCHANGED outcome
  <2>1. call[b].id \in 1 .. calls /\ call[b].identity \in Identity /\ calls \in 0 .. MaxCalls
    BY <1>1, BuilderFacts DEF Inv, Serials, Typing
  <2>2. call[b].id \in 1 .. MaxCalls
    BY <2>1, BoundsAssumption
  <2>3. NewTree(b) \in Tree /\ NewTree(b).parts = 0 /\ NewTree(b).id = call[b].id
    BY <2>1, <2>2, SizesAssumption DEF NewTree, Tree
  <2>4. NewTree(b) # NoTree /\ NewTree(b).parts < Batches
    BY <2>3, NoTreeAssumption, SizesAssumption
  <2>5. /\ pc'[b] = "scan" /\ temp'[b] = NewTree(b) /\ Published' = Published
        /\ Settled' = Settled
    BY <1>1, <1>2, BuilderFacts DEF Go, Published, Settled
  <2>6. Stage(b)'
    BY <1>1, <2>3, <2>4, <2>5, BuilderFacts DEF Stage, NoTemp
  <2> QED
    BY <1>1, <1>2, <2>3, <2>6, BuilderFacts, TempSteps DEF Steps
<1>3. CASE End(b, "failed", NoTree) /\ UNCHANGED temp
  <2>1. Go(b, "idle") /\ "idle" \in Steps /\ "failed" \in Kinds /\ UNCHANGED disk
    BY <1>1, <1>3 DEF End, Steps, Kinds, disk
  <2>2. Stage(b)'
    BY <1>1, <2>1, NextStage DEF NoTemp, WithTemp
  <2> QED
    BY <1>1, <1>3, <2>1, <2>2, BuilderFacts, EndTyped, QuietSteps
<1> QED
  BY <1>2, <1>3 DEF PreflightSpace

LEMMA WritePlaces ==
  ASSUME Inv, NEW b \in Builders,
         ScanBatch(b) \/ Consolidate(b) \/ RemoveParts(b) \/ SealSource(b) \/ SealDate(b)
  PROVE  Inv'
<1>1. /\ temp[b] \in Tree /\ temp[b].id = call[b].id /\ source \in Versions
      /\ pc[b] = "scan" => temp[b].parts < Batches
      /\ pc[b] \in {"scan", "consolidate", "trim", "source manifest", "date manifest"}
  BY BuilderFacts DEF ScanBatch, Consolidate, RemoveParts, SealSource, SealDate, Stage, WithTemp,
     Inv, Typing
<1>2. UNCHANGED <<source, final, superseded, litter, call, seen, moved, outcome, calls>>
  BY DEF ScanBatch, Consolidate, RemoveParts, SealSource, SealDate, local, count
<1>3. PICK step \in {"scanned", "consolidated", "source manifest", "date manifest", "staged"},
           tree \in Tree :
         /\ Go(b, step) /\ temp' = [temp EXCEPT ![b] = tree] /\ tree.id = call[b].id
  <2>1. CASE ScanBatch(b)
    <3> DEFINE new == [temp[b] EXCEPT !.data = @ \cup {source}, !.parts = @ + 1]
    <3>1. new \in Tree /\ new.id = call[b].id
      BY <1>1, <2>1, Written DEF ScanBatch
    <3>2. temp' = [temp EXCEPT ![b] = new]
      BY <2>1, BuilderFacts DEF ScanBatch
    <3> HIDE DEF new
    <3> QED
      BY <2>1, <3>1, <3>2 DEF ScanBatch
  <2>2. CASE Consolidate(b)
    <3> DEFINE new == [temp[b] EXCEPT !.output = temp[b].parts]
    <3>1. new \in Tree /\ new.id = call[b].id
      BY <1>1, Written
    <3>2. temp' = [temp EXCEPT ![b] = new]
      BY <2>2, BuilderFacts DEF Consolidate
    <3> HIDE DEF new
    <3> QED
      BY <2>2, <3>1, <3>2 DEF Consolidate
  <2>3. CASE RemoveParts(b)
    <3> DEFINE new == [temp[b] EXCEPT !.parts = 0]
    <3>1. new \in Tree /\ new.id = call[b].id
      BY <1>1, Written
    <3>2. temp' = [temp EXCEPT ![b] = new]
      BY <2>3, BuilderFacts DEF RemoveParts
    <3> HIDE DEF new
    <3> QED
      BY <2>3, <3>1, <3>2 DEF RemoveParts
  <2>4. CASE SealSource(b)
    <3> DEFINE new == [temp[b] EXCEPT !.manifests = SourceManifestBytes]
    <3>1. new \in Tree /\ new.id = call[b].id
      BY <1>1, Written
    <3>2. temp' = [temp EXCEPT ![b] = new]
      BY <2>4, BuilderFacts DEF SealSource
    <3> HIDE DEF new
    <3> QED
      BY <2>4, <3>1, <3>2 DEF SealSource
  <2>5. CASE SealDate(b)
    <3> DEFINE new == [temp[b] EXCEPT !.manifests = SourceManifestBytes + DateManifestBytes,
                              !.complete = TRUE]
    <3>1. new \in Tree /\ new.id = call[b].id
      BY <1>1, Written
    <3>2. temp' = [temp EXCEPT ![b] = new]
      BY <2>5, BuilderFacts DEF SealDate
    <3> HIDE DEF new
    <3> QED
      BY <2>5, <3>1, <3>2 DEF SealDate
  <2> QED
    BY <2>1, <2>2, <2>3, <2>4, <2>5
<1>4. tree # NoTree /\ step \in Steps
  BY NoTreeAssumption DEF Steps
<1>5. Stage(b)'
  BY <1>1, <1>2, <1>3, <1>4, NextStageTemp DEF NoTemp
<1> QED
  BY <1>1, <1>2, <1>3, <1>4, <1>5, BuilderFacts, TempSteps

LEMMA CleanupPlaces == ASSUME Inv, NEW b \in Builders, Cleanup(b) PROVE Inv'
<1>1. /\ pc[b] = "cleanup" /\ temp' = [temp EXCEPT ![b] = NoTree]
      /\ Go(b, "idle") /\ "idle" \in Steps /\ UNCHANGED calls /\ "failed" \in Kinds
      /\ UNCHANGED <<source, final, superseded, litter, call, seen, moved>>
  BY DEF Cleanup, Removed, End, Steps, Kinds, count
<1>2. Stage(b)'
  <2>1. /\ pc'[b] = "idle" /\ temp'[b] = NoTree /\ moved'[b] = moved[b]
        /\ Published' = Published /\ Settled' = Settled
    BY <1>1, BuilderFacts DEF Go, Published, Settled
  <2> QED
    BY <1>1, <2>1, BuilderFacts DEF Stage, WithTemp
<1>3. outcome' \in [Processes -> [kind : Kinds, tree : Tree \cup {NoTree}]]
  BY <1>1, BuilderFacts, EndTyped DEF Cleanup
<1> QED
  BY <1>1, <1>2, <1>3, TempSteps
-----------------------------------------------------------------------------
(* The renames: the predecessor aside, the new directory in, or back.      *)

\* A rename between final and superseded loses and doubles no directory.
LEMMA RenameSteps ==
  ASSUME Inv, NEW b \in Builders, pc[b] \in {"supersede", "restore"},
         UNCHANGED <<source, temp, litter, call, seen, outcome, calls>>,
         NEW step \in {"install", "cleanup"}, Go(b, step), step = "install" => pc[b] = "supersede",
         final' \in Tree \cup {NoTree}, superseded' \subseteq Tree, final' \notin superseded',
         Published' = Published,
         NEW tree \in Published \cup {moved[b]}, moved' = [moved EXCEPT ![b] = tree]
  PROVE  Inv'
<1>1. /\ pc \in [Processes -> Steps] /\ Settled' = Settled /\ Builders \subseteq Processes
      /\ moved \in [Builders -> Tree \cup {NoTree}] /\ Published \subseteq Tree
  BY DEF Inv, Typing, Published, Settled, Processes
<1>2. Typing'
  <2>1. step \in Steps /\ tree \in Tree \cup {NoTree}
    BY <1>1 DEF Steps
  <2>2. pc' \in [Processes -> Steps] /\ moved' \in [Builders -> Tree \cup {NoTree}]
    BY <1>1, <2>1 DEF Go
  <2> QED
    BY <2>2 DEF Inv, Typing
<1>3. Apart'
  BY DEF Inv, Apart
<1>4. Serials'
  BY <1>1 DEF Inv, Serials, Go
<1>5. ASSUME NEW c \in Builders PROVE Stage(c)'
  <2>1. CASE c # b
    BY <1>1, <2>1, OthersStay DEF Go
  <2>2. CASE c = b
    <3>1. pc'[b] = step /\ moved'[b] = tree /\ (moved'[b] # NoTree => moved'[b] \in Published')
      BY <1>1, BuilderFacts DEF Go, Stage
    <3>2. (step \in WithTemp => pc[b] \in WithTemp) /\ step \notin NoTemp
      BY DEF WithTemp, NoTemp
    <3> QED
      BY <1>1, <2>2, <3>1, <3>2, BuilderFacts DEF Stage
  <2> QED
    BY <2>1, <2>2
<1> QED
  BY <1>2, <1>3, <1>4, <1>5 DEF Inv

LEMMA SupersedePlaces == ASSUME Inv, NEW b \in Builders, Supersede(b) PROVE Inv'
<1>1. /\ pc[b] = "supersede" /\ UNCHANGED <<source, temp, litter, call, seen, outcome, calls>>
      /\ superseded \subseteq Tree /\ final \in Tree \cup {NoTree}
      /\ moved \in [Builders -> Tree \cup {NoTree}]
  BY DEF Supersede, count, Inv, Typing
<1>2. CASE final # NoTree
  <2>1. /\ final \in Published /\ superseded' = superseded \cup {final} /\ final' = NoTree
        /\ moved' = [moved EXCEPT ![b] = final] /\ Go(b, "install")
    BY <1>2 DEF Supersede, Kept, Published
  <2>2. superseded' \subseteq Tree /\ final' \notin superseded' /\ Published' = Published
    BY <1>1, <1>2, <2>1, NoTreeAssumption DEF Published
  <2> QED
    BY <1>1, <2>1, <2>2, RenameSteps
<1>3. CASE final = NoTree
  <2>1. Go(b, "cleanup") /\ UNCHANGED <<final, superseded, moved>>
    BY <1>3 DEF Supersede
  <2>2. moved' = [moved EXCEPT ![b] = moved[b]] /\ Published' = Published /\ final' \notin superseded'
    BY <1>1, <2>1 DEF Published, Inv, Apart
  <2> QED
    BY <1>1, <2>1, <2>2, RenameSteps
<1> QED
  BY <1>2, <1>3

LEMMA RestorePlaces == ASSUME Inv, NEW b \in Builders, Restore(b) PROVE Inv'
<1>1. /\ pc[b] = "restore" /\ UNCHANGED <<source, temp, litter, call, seen, moved, outcome, calls>>
      /\ superseded \subseteq Tree /\ final \in Tree \cup {NoTree} /\ Go(b, "cleanup")
      /\ moved \in [Builders -> Tree \cup {NoTree}]
  BY DEF Restore, local, Inv, Typing
<1>2. moved' = [moved EXCEPT ![b] = moved[b]]
  BY <1>1
<1>3. CASE final = NoTree /\ final' = moved[b] /\ superseded' = superseded \ {moved[b]}
  <2>1. moved[b] \in superseded
    BY <1>1, <1>3, BuilderFacts DEF Stage, Published
  <2>2. /\ Published' = Published /\ superseded' \subseteq Tree /\ final' \notin superseded'
        /\ final' \in Tree \cup {NoTree}
    BY <1>1, <1>3, <2>1, NoTreeAssumption DEF Published
  <2> QED
    BY <1>1, <1>2, <2>2, RenameSteps
<1>4. CASE UNCHANGED <<final, superseded>>
  <2>1. Published' = Published /\ final' \notin superseded'
    BY <1>4 DEF Published, Inv, Apart
  <2> QED
    BY <1>1, <1>2, <1>4, <2>1, RenameSteps
<1> QED
  BY <1>3, <1>4 DEF Restore

\* What is published or left behind grows by a builder's own directory.
LEMMA SettleSteps ==
  ASSUME Inv, NEW b \in Builders, temp[b] # NoTree,
         Published \subseteq Published', Settled' = Settled \cup {temp[b]},
         UNCHANGED <<source, call, seen, moved, calls>>,
         temp' = [temp EXCEPT ![b] = NoTree],
         NEW step \in {"idle", "report"}, Go(b, step),
         outcome' \in [Processes -> [kind : Kinds, tree : Tree \cup {NoTree}]],
         final' \in Tree \cup {NoTree}, superseded' \subseteq Tree, litter' \subseteq Tree,
         Apart'
  PROVE  Inv'
<1>1. /\ pc \in [Processes -> Steps] /\ temp \in [Builders -> Tree \cup {NoTree}]
      /\ Builders \subseteq Processes /\ pc[b] # "idle"
      /\ temp[b].id = call[b].id /\ temp[b].id \in 1 .. calls
  BY BuilderFacts DEF Inv, Typing, Serials, Stage, Processes, NoTemp
<1>2. Typing'
  <2>1. step \in Steps /\ temp' \in [Builders -> Tree \cup {NoTree}]
    BY <1>1 DEF Steps
  <2> QED
    BY <1>1, <2>1 DEF Inv, Typing, Go
<1>3. Serials'
  <2>1. \A t \in Settled' : t.id <= calls
    BY <1>1 DEF Inv, Serials, Typing
  <2>2. \A p \in Processes : pc'[p] # "idle" => pc[p] # "idle"
    BY <1>1 DEF Go
  <2> QED
    BY <1>1, <2>1, <2>2 DEF Inv, Serials
<1>4. ASSUME NEW c \in Builders PROVE Stage(c)'
  <2>1. CASE c # b
    <3>1. pc[c] # "idle" => call[c].id # temp[b].id
      BY <1>1, <2>1 DEF Inv, Serials
    <3> QED
      BY <1>1, <2>1, <3>1, OthersStay DEF Go
  <2>2. CASE c = b
    <3>1. pc'[b] = step /\ temp'[b] = NoTree
      BY <1>1 DEF Go
    <3> QED
      BY <2>2, <3>1, BuilderFacts DEF Stage, WithTemp
  <2> QED
    BY <2>1, <2>2
<1> QED
  BY <1>2, <1>3, <1>4 DEF Inv

LEMMA InstallPlaces == ASSUME Inv, NEW b \in Builders, Install(b) PROVE Inv'
<1>1. /\ pc[b] = "install" /\ final = NoTree /\ final' = temp[b] /\ Go(b, "report")
      /\ temp' = [temp EXCEPT ![b] = NoTree]
      /\ UNCHANGED <<source, superseded, litter, call, seen, moved, outcome, calls>>
  BY DEF Install, local, count
<1>2. /\ temp[b] # NoTree /\ temp[b].id = call[b].id /\ temp[b] \notin Settled
      /\ \A t \in Settled : t.id # call[b].id
  BY <1>1, BuilderFacts DEF Stage, WithTemp
<1>3. Published' = Published \cup {temp[b]} /\ Settled' = Settled \cup {temp[b]}
  <2>1. \A t \in superseded : t # NoTree
    BY NoTreeAssumption DEF Inv, Typing
  <2> QED
    BY <1>1, <1>2, <2>1 DEF Published, Settled
<1>4. Apart'
  <2>1. temp[b] \notin litter /\ temp[b] \notin superseded
    BY <1>1, <1>2, NoTreeAssumption DEF Settled, Published, Inv, Typing
  <2> QED
    BY <1>1, <1>3, <2>1 DEF Inv, Apart
<1> QED
  BY <1>1, <1>2, <1>3, <1>4, BuilderFacts, SettleSteps DEF Inv, Typing

LEMMA CrashPlaces == ASSUME Inv, NEW b \in Builders, Crash(b) PROVE Inv'
<1>1. /\ pc[b] # "idle" /\ Go(b, "idle") /\ temp' = [temp EXCEPT ![b] = NoTree]
      /\ litter' = litter \cup ({temp[b]} \ {NoTree})
      /\ UNCHANGED <<source, final, superseded, call, seen, moved, calls>>
  BY DEF Crash, End
<1>2. outcome' \in [Processes -> [kind : Kinds, tree : Tree \cup {NoTree}]]
  BY BuilderFacts, EndTyped DEF Crash, Kinds
<1>3. Published' = Published
  BY <1>1 DEF Published
<1>4. CASE temp[b] # NoTree
  <2>1. temp[b] \notin Settled
    BY <1>4, BuilderFacts DEF Stage, NoTemp
  <2>2. Settled' = Settled \cup {temp[b]} /\ litter' \subseteq Tree
    BY <1>1, <1>3, <1>4, BuilderFacts DEF Settled, Inv, Typing
  <2>3. Apart'
    BY <1>1, <1>3, <2>1 DEF Inv, Apart, Settled
  <2> QED
    BY <1>1, <1>2, <1>3, <1>4, <2>2, <2>3, SettleSteps DEF Inv, Typing
<1>5. CASE temp[b] = NoTree
  <2>1. UNCHANGED disk
    <3>1. temp' = temp
      BY <1>1, <1>5, BuilderFacts DEF Inv, Typing
    <3> QED
      BY <1>1, <1>5, <3>1 DEF disk
  <2>2. Stage(b)' /\ "idle" \in Steps
    BY <1>1, <1>5, <2>1, NextStage DEF Steps, NoTemp, WithTemp
  <2> QED
    BY <1>1, <1>2, <2>1, <2>2, BuilderFacts, QuietSteps
<1> QED
  BY <1>4, <1>5
-----------------------------------------------------------------------------
(* Calls begin, and the source changes.                                    *)

LEMMA BeginPlaces ==
  ASSUME Inv, NEW p \in Processes, NEW request \in Requests, NEW rebuild \in BOOLEAN,
         NEW step \in {"exists", "manifest"}, Begin(p, request, rebuild, step),
         UNCHANGED <<source, disk>>,
         \A b \in Builders : moved'[b] = IF b = p THEN NoTree ELSE moved[b],
         moved' \in [Builders -> Tree \cup {NoTree}]
  PROVE  Inv'
<1>1. /\ pc \in [Processes -> Steps] /\ Published' = Published /\ Settled' = Settled
      /\ Builders \subseteq Processes /\ DOMAIN call = Processes /\ calls \in Nat
      /\ seen \in [Processes -> Tree \cup {NoTree}]
      /\ outcome \in [Processes -> [kind : Kinds, tree : Tree \cup {NoTree}]]
  BY BoundsAssumption DEF Inv, Typing, Serials, disk, Published, Settled, Processes
<1>2. PICK new : /\ new.id = calls + 1 /\ new.identity \in Identity
                 /\ call' = [call EXCEPT ![p] = new]
  BY DEF Begin, Inv, Typing, Identity
<1>3. /\ pc[p] = "idle" /\ calls < MaxCalls /\ calls' = calls + 1 /\ Go(p, step)
      /\ seen' = [seen EXCEPT ![p] = NoTree] /\ outcome' = [outcome EXCEPT ![p] = Running]
  BY DEF Begin
<1>4. Typing'
  <2>1. step \in Steps /\ Running \in [kind : Kinds, tree : Tree \cup {NoTree}]
    BY DEF Steps, Running, Kinds
  <2>2. /\ pc' \in [Processes -> Steps] /\ seen' \in [Processes -> Tree \cup {NoTree}]
        /\ outcome' \in [Processes -> [kind : Kinds, tree : Tree \cup {NoTree}]]
        /\ calls' \in 0 .. MaxCalls
    BY <1>1, <1>3, <2>1, BoundsAssumption DEF Go
  <2> QED
    BY <2>2 DEF Inv, Typing, disk
<1>5. Apart'
  BY <1>1 DEF Inv, Apart, disk
<1>6. \A q \in Processes : /\ call'[q] = IF q = p THEN new ELSE call[q]
                           /\ pc'[q] = IF q = p THEN step ELSE pc[q]
  BY <1>1, <1>2, <1>3 DEF Go
<1>7. Serials'
  <2>1. DOMAIN call' = Processes
    BY <1>1, <1>2
  <2>2. \A q \in Processes : pc[q] # "idle" => call[q].id \in 1 .. calls
    BY DEF Inv, Serials
  <2>3. \A q \in Processes :
           pc'[q] # "idle" => call'[q].id \in 1 .. calls' /\ call'[q].identity \in Identity
    BY <1>1, <1>2, <1>3, <1>6, <2>2 DEF Inv, Serials
  <2>4. ASSUME NEW q \in Processes, NEW r \in Processes, q # r, pc'[q] # "idle", pc'[r] # "idle"
        PROVE  call'[q].id # call'[r].id
    <3>1. CASE q = p
      BY <1>1, <1>2, <1>6, <2>2, <2>4, <3>1
    <3>2. CASE r = p
      BY <1>1, <1>2, <1>6, <2>2, <2>4, <3>2
    <3>3. CASE q # p /\ r # p
      BY <1>6, <2>4, <3>3 DEF Inv, Serials
    <3> QED
      BY <3>1, <3>2, <3>3
  <2>5. \A t \in Settled : t.id \in Nat
    BY FieldsOfTree DEF Inv, Typing, Settled, Published, TreeFields
  <2>6. \A t \in Settled' : t.id <= calls'
    BY <1>1, <1>3, <2>5 DEF Inv, Serials
  <2> QED
    BY <2>1, <2>3, <2>4, <2>6 DEF Serials
<1>8. ASSUME NEW b \in Builders PROVE Stage(b)'
  <2>1. CASE b # p
    BY <1>1, <1>6, <2>1, OthersStay DEF disk
  <2>2. CASE b = p
    <3>1. /\ pc'[b] = step /\ temp'[b] = NoTree /\ moved'[b] = NoTree
          /\ call'[b].id = calls + 1
      BY <1>1, <1>2, <1>3, <1>6, <2>2, BuilderFacts DEF Stage, NoTemp, disk
    <3>2. \A t \in Settled' : t.id # call'[b].id
      <4>1. \A t \in Settled : t.id \in Nat /\ t.id <= calls
        BY FieldsOfTree DEF Inv, Typing, Serials, Settled, Published, TreeFields
      <4> QED
        BY <1>1, <3>1, <4>1
    <3> QED
      BY <3>1, <3>2 DEF Stage, WithTemp
  <2> QED
    BY <2>1, <2>2
<1> QED
  BY <1>4, <1>5, <1>7, <1>8 DEF Inv

LEMMA BuildDatePlaces == ASSUME Inv, NEW b \in Builders, BuildDate(b) PROVE Inv'
<1>1. PICK request \in Requests, rebuild \in BOOLEAN : Begin(b, request, rebuild, "exists")
  BY DEF BuildDate
<1>2. moved \in [Builders -> Tree \cup {NoTree}] /\ moved' = [moved EXCEPT ![b] = NoTree]
  BY DEF BuildDate, Inv, Typing
<1>3. /\ \A c \in Builders : moved'[c] = IF c = b THEN NoTree ELSE moved[c]
      /\ moved' \in [Builders -> Tree \cup {NoTree}]
  BY <1>2
<1> QED
  BY <1>1, <1>3, BuilderFacts, BeginPlaces DEF BuildDate

LEMMA ReadSymbolPlaces == ASSUME Inv, NEW r \in Readers, ReadSymbol(r) PROVE Inv'
<1>1. PICK request \in Requests : Begin(r, request, FALSE, "manifest")
  BY DEF ReadSymbol
<1>2. /\ \A b \in Builders : moved'[b] = IF b = r THEN NoTree ELSE moved[b]
      /\ moved' \in [Builders -> Tree \cup {NoTree}] /\ r \in Processes
  BY ProcessAssumption DEF ReadSymbol, Inv, Typing, Processes
<1> QED
  BY <1>1, <1>2, BeginPlaces DEF ReadSymbol

LEMMA RewritePlaces == ASSUME Inv, Rewrite PROVE Inv'
<1>1. source' \in Versions /\ UNCHANGED <<disk, pc, call, seen, moved, outcome, calls>>
  BY BoundsAssumption DEF Rewrite, Versions, local, count, Inv, Typing
<1>2. Published' = Published /\ Settled' = Settled
  BY <1>1 DEF disk, Published, Settled
<1>3. Typing' /\ Apart'
  BY <1>1, <1>2 DEF disk, Inv, Typing, Apart
<1>4. Serials'
  BY <1>1, <1>2 DEF Inv, Serials
<1>5. ASSUME NEW b \in Builders PROVE Stage(b)'
  BY <1>1, <1>2, BuilderFacts DEF disk, Stage
<1> QED
  BY <1>3, <1>4, <1>5 DEF Inv

LEMMA InvKept == Inv /\ [Next]_vars => Inv'
<1> SUFFICES ASSUME Inv, [Next]_vars PROVE Inv'
  OBVIOUS
<1>1. ASSUME NEW b \in Builders, Build(b) PROVE Inv'
  BY <1>1, FinalExistsPlaces, CheckManifestPlaces, CheckFilesPlaces, PreflightSpacePlaces,
     WritePlaces, QuietBuildPlaces, CleanupPlaces, SupersedePlaces, InstallPlaces,
     RestorePlaces, ReportPlaces DEF Build
<1>2. ASSUME UNCHANGED vars PROVE Inv'
  <2>1. /\ UNCHANGED <<source, final, superseded, temp, litter, pc, call, seen, moved, outcome, calls>>
        /\ Published' = Published /\ Settled' = Settled
    BY <1>2 DEF vars, disk, local, count, Published, Settled
  <2>2. Typing' /\ Apart' /\ Serials'
    BY <2>1 DEF Inv, Typing, Apart, Serials
  <2>3. ASSUME NEW b \in Builders PROVE Stage(b)'
    BY <2>1, BuilderFacts DEF Stage
  <2> QED
    BY <2>2, <2>3 DEF Inv
<1> QED
  BY <1>1, <1>2, BuildDatePlaces, CrashPlaces, ReadSymbolPlaces, ReadPlaces, RewritePlaces
  DEF Next

\* Whatever interleaves, fails or dies, a date's directory is in one place: a
\* rename never leaves it both visible and aside, nor a death both published
\* and behind, and only a running build has a temporary one (publication.py).
THEOREM PlacesTypes == Spec => []TypeOK
<1>1. Spec => []Inv
  BY InvInit, InvKept, PTL DEF Spec
<1> QED
  BY <1>1, InvTypes, PTL
-----------------------------------------------------------------------------
(* The date is visible at rest.  Whenever it is not, a builder that took it  *)
(* away is about to install its own, or to put the old one back after the    *)
(* one rename that may fail has failed.                                      *)

PutsBack(b) ==
  /\ moved[b] \in superseded
  /\ pc[b] = "install" \/ (pc[b] \in {"restore?", "restore"} /\ faults >= 1)

SomebodyPutsBack ==
  /\ faults \in Nat /\ crashes \in Nat /\ NoTree \notin superseded
  /\ DOMAIN pc = Processes /\ DOMAIN moved = Builders
  /\ (Published # {} /\ crashes = 0 /\ faults <= 1 /\ final = NoTree)
       => \E b \in Builders : PutsBack(b)

\* A step that takes nothing from the superseded directories, does not hide the
\* date and leaves the builders that put it back where they are.
LEMMA PuttingBackStep ==
  ASSUME SomebodyPutsBack, faults' \in Nat, crashes' \in Nat, faults <= faults', crashes <= crashes',
         final # NoTree => final' # NoTree, final' = NoTree => superseded' = superseded,
         DOMAIN pc' = Processes, DOMAIN moved' = Builders, NoTree \notin superseded',
         final = NoTree /\ final' = NoTree /\ crashes' = 0 /\ faults' <= 1
           => \A b \in Builders : PutsBack(b) => PutsBack(b)'
  PROVE  SomebodyPutsBack'
<1> SUFFICES ASSUME Published' # {}, crashes' = 0, faults' <= 1, final' = NoTree
             PROVE  \E b \in Builders : PutsBack(b)'
  BY DEF SomebodyPutsBack
<1>1. final = NoTree /\ superseded' = superseded
  OBVIOUS
<1>2. Published # {}
  BY <1>1 DEF Published
<1>3. crashes = 0 /\ faults <= 1
  BY DEF SomebodyPutsBack
<1>4. PICK b \in Builders : PutsBack(b)
  BY <1>1, <1>2, <1>3 DEF SomebodyPutsBack
<1> QED
  BY <1>1, <1>4

\* A step of a process that is not at a rename leaves those facts alone.
LEMMA RenamesKept ==
  ASSUME SomebodyPutsBack, UNCHANGED <<final, superseded, faults, crashes>>,
         DOMAIN pc' = Processes, DOMAIN moved' = Builders,
         \A b \in Builders : pc[b] \in {"install", "restore?", "restore"}
                               => pc'[b] = pc[b] /\ moved'[b] = moved[b]
  PROVE  SomebodyPutsBack'
<1>1. \A b \in Builders : PutsBack(b) => PutsBack(b)'
  BY DEF PutsBack
<1>2. /\ faults \in Nat /\ crashes \in Nat /\ faults <= faults /\ crashes <= crashes
      /\ NoTree \notin superseded
  BY DEF SomebodyPutsBack
<1> QED
  BY <1>1, <1>2, PuttingBackStep

LEMMA PutsBackNext == Inv /\ SomebodyPutsBack /\ [Next]_vars => SomebodyPutsBack'
<1> SUFFICES ASSUME Inv, SomebodyPutsBack, [Next]_vars PROVE SomebodyPutsBack'
  OBVIOUS
<1>0. /\ faults \in Nat /\ crashes \in Nat /\ faults <= faults /\ crashes <= crashes
      /\ DOMAIN pc = Processes /\ DOMAIN moved = Builders /\ Builders \subseteq Processes
      /\ NoTree \notin superseded
  BY DEF SomebodyPutsBack, Processes
<1>1. ASSUME NEW b \in Builders, Supersede(b) PROVE SomebodyPutsBack'
  <2>1. /\ faults' = faults /\ crashes' = crashes /\ pc[b] = "supersede"
        /\ DOMAIN pc' = Processes /\ DOMAIN moved' = Builders
    BY <1>0, <1>1 DEF Supersede, Go, count
  <2>2. CASE final # NoTree
    <3>1. PutsBack(b)'
      BY <1>0, <1>1, <2>2 DEF Supersede, Go, Kept, PutsBack
    <3>2. NoTree \notin superseded'
      BY <1>0, <1>1, <2>2 DEF Supersede, Kept
    <3> QED
      BY <1>0, <2>1, <3>1, <3>2 DEF SomebodyPutsBack
  <2>3. CASE final = NoTree
    BY <1>0, <1>1, <2>1, <2>3, RenamesKept DEF Supersede, Go
  <2> QED
    BY <2>2, <2>3
<1>2. ASSUME NEW b \in Builders, Install(b) PROVE SomebodyPutsBack'
  <2>1. /\ faults' = faults /\ crashes' = crashes
        /\ DOMAIN pc' = Processes /\ DOMAIN moved' = Builders
        /\ final = NoTree /\ final' = temp[b] /\ superseded' = superseded
    BY <1>0, <1>2 DEF Install, Go, count, local
  <2>2. temp[b] # NoTree
    BY <1>2, BuilderFacts DEF Install, Stage, WithTemp
  <2> QED
    BY <1>0, <2>1, <2>2, PuttingBackStep
<1>3. ASSUME NEW b \in Builders, InstallRaises(b) PROVE SomebodyPutsBack'
  <2>1. /\ crashes' = crashes /\ faults' \in Nat /\ faults <= faults' /\ moved' = moved
        /\ final' = final /\ superseded' = superseded
        /\ final = NoTree => faults' >= 1
        /\ pc' = [pc EXCEPT ![b] = "restore?"]
    BY <1>0, <1>3 DEF InstallRaises, Fault, Go, disk, local
  <2>2. ASSUME final = NoTree, NEW c \in Builders, PutsBack(c) PROVE PutsBack(c)'
    BY <1>0, <2>1, <2>2 DEF PutsBack
  <2> QED
    BY <1>0, <2>1, <2>2, PuttingBackStep
<1>4. ASSUME NEW b \in Builders, MustRestore(b) PROVE SomebodyPutsBack'
  <2>1. /\ UNCHANGED <<final, superseded, faults, crashes, moved>> /\ pc[b] = "restore?"
        /\ pc' = [pc EXCEPT ![b] = IF ToRestore(b) THEN "restore" ELSE "cleanup"]
    BY <1>4 DEF MustRestore, Go, disk, local, count
  <2>2. ASSUME final = NoTree, NEW c \in Builders, PutsBack(c) PROVE PutsBack(c)'
    BY <1>0, <2>1, <2>2 DEF PutsBack, ToRestore
  <2> QED
    BY <1>0, <2>1, <2>2, PuttingBackStep
<1>5. ASSUME NEW b \in Builders, Restore(b) PROVE SomebodyPutsBack'
  <2>1. /\ UNCHANGED <<crashes, moved>> /\ pc[b] = "restore" /\ pc' = [pc EXCEPT ![b] = "cleanup"]
        /\ faults' \in Nat /\ faults <= faults'
    BY <1>0, <1>5 DEF Restore, Fault, Go, local
  <2>2. CASE final' = moved[b] /\ superseded' = superseded \ {moved[b]} /\ final = NoTree
    <3>1. moved[b] # NoTree
      BY <2>1, BuilderFacts DEF Stage
    <3> QED
      BY <1>0, <2>1, <2>2, <3>1, PuttingBackStep
  <2>3. CASE UNCHANGED <<final, superseded>> /\ (final # NoTree \/ faults' = faults + 1)
    <3>1. ASSUME final = NoTree, faults' <= 1, NEW c \in Builders, PutsBack(c) PROVE PutsBack(c)'
      BY <1>0, <2>1, <2>3, <3>1 DEF PutsBack
    <3> QED
      BY <1>0, <2>1, <2>3, <3>1, PuttingBackStep
  <2> QED
    BY <1>5, <2>2, <2>3 DEF Restore, Fault
<1>6. ASSUME NEW b \in Builders, Crash(b) PROVE SomebodyPutsBack'
  <2>1. /\ crashes' = crashes + 1 /\ UNCHANGED <<final, superseded, moved, faults>>
        /\ DOMAIN pc' = Processes
    BY <1>0, <1>6 DEF Crash, End, Go
  <2> QED
    BY <1>0, <2>1 DEF SomebodyPutsBack
<1>7. ASSUME NEW b \in Builders, BuildDate(b) PROVE SomebodyPutsBack'
  <2>1. pc[b] = "idle" /\ pc' = [pc EXCEPT ![b] = "exists"] /\ moved' = [moved EXCEPT ![b] = NoTree]
    BY <1>7 DEF BuildDate, Begin, Go
  <2> QED
    BY <1>0, <1>7, <2>1, RenamesKept DEF BuildDate, disk
<1>8. ASSUME NEW p \in Processes, UNCHANGED <<final, superseded, faults, crashes, moved>>,
             DOMAIN pc' = Processes, \A q \in Processes \ {p} : pc'[q] = pc[q],
             p \in Builders => pc[p] \notin {"install", "restore?", "restore"}
      PROVE  SomebodyPutsBack'
  BY <1>0, <1>8, RenamesKept
<1>9. ASSUME NEW b \in Builders, Build(b),
             ~Supersede(b), ~Install(b), ~InstallRaises(b), ~MustRestore(b), ~Restore(b)
      PROVE  SomebodyPutsBack'
  <2>1. /\ UNCHANGED <<final, superseded, faults, crashes, moved>>
        /\ DOMAIN pc' = Processes /\ \A q \in Processes \ {b} : pc'[q] = pc[q]
        /\ pc[b] \notin {"install", "restore?", "restore"}
    BY <1>0, <1>9 DEF Build, FinalExists, CheckManifest, CheckFiles, PreflightSpace, ScanBatch,
       BudgetAfterScan, Consolidate, BudgetAfterConsolidate,
         RemoveParts, SealSource, SealDate, BuildRaises, Cleanup, ValidateStaged,
       PredecessorExists, ReportManifest, ReportFiles, ReplaceOrRefuse, Go, End, disk, local, count
  <2> QED
    BY <1>0, <1>8, <2>1
<1>10. ASSUME NEW r \in Readers, ReadSymbol(r) \/ Read(r) PROVE SomebodyPutsBack'
  <2>1. /\ UNCHANGED <<final, superseded, faults, crashes, moved>>
        /\ DOMAIN pc' = Processes /\ \A q \in Processes \ {r} : pc'[q] = pc[q]
    BY <1>0, <1>10 DEF ReadSymbol, Read, ReadDateManifest, ReadDateFiles, Open, Begin, Go, End,
       disk, count
  <2> QED
    BY <1>8, <2>1, ProcessAssumption DEF Processes
<1>11. ASSUME Rewrite \/ UNCHANGED vars PROVE SomebodyPutsBack'
  BY <1>0, <1>11, RenamesKept DEF Rewrite, vars, disk, local, count
<1> QED
  BY <1>1, <1>2, <1>3, <1>4, <1>5, <1>6, <1>7, <1>9, <1>10, <1>11 DEF Next, Build

\* Unless a builder died or two renames failed, no race of builders and no failure
\* of one leaves a published date invisible (publication.py:112-120).
THEOREM VisibleAtRestAlways == Spec => []VisibleAtRest
<1>1. Init => SomebodyPutsBack
  BY DEF Init, SomebodyPutsBack, Published
<1>2. SomebodyPutsBack => VisibleAtRest
  BY DEF SomebodyPutsBack, VisibleAtRest, PutsBack
<1> QED
  BY <1>1, <1>2, InvInit, InvKept, PutsBackNext, PTL DEF Spec
-----------------------------------------------------------------------------
(***************************************************************************)
(* Bytes.  BytesIn folds over a set in an order it chooses; it is the one  *)
(* function that adds every directory's bytes, whatever the order.         *)
(***************************************************************************)

Sized == Tree \cup {NoTree}

LEMMA BytesType == \A t \in Sized : Bytes(t) \in Nat
<1>1. \A t \in Tree : t.parts \in Nat /\ t.output \in Nat /\ t.manifests \in Nat
  BY SizesAssumption DEF Tree
<1> QED
  BY <1>1 DEF Bytes, Sized

Weighed    == [t \in Sized |-> Bytes(t)]
Adds(g, S) == AddsUp(g, Weighed, S, Nat)

\* f is the fold of BytesIn over the subsets of S.
FoldOf(f, S) == f = [s \in SUBSET S |-> IF s = {} THEN 0
                                        ELSE Bytes(FirstOf(s)) + f[s \ {FirstOf(s)}]]

LEMMA BytesInFolds == \A S : BytesIn(S) = (CHOOSE f : FoldOf(f, S))[S]
  BY Zenon DEF BytesIn, MapThenSumSet, MapThenFoldSet, FoldOf, FirstOf

\* A function that adds the bytes of the subsets of S gives them all.
LEMMA BytesOfSubsets ==
  ASSUME NEW S \in SUBSET Sized, IsFiniteSet(S)
  PROVE  \E g : Adds(g, S) /\ \A s \in SUBSET S : BytesIn(s) = g[s]
<1>1. \A x \in S : Weighed[x] \in Nat
  BY BytesType DEF Weighed
<1>2. SumsIn(Nat)
  BY DEF SumsIn
<1>3. PICK g : AddsUp(g, Weighed, S, Nat)
  BY <1>1, <1>2, SumExists
<1>4. ASSUME NEW s \in SUBSET S PROVE BytesIn(s) = g[s]
  <2> DEFINE f == CHOOSE h : FoldOf(h, s)
  <2>1. \A h : FoldOf(h, s) <=> SumFold(h, Weighed, s)
    <3>1. \A u \in SUBSET s : u # {} => Weighed[FirstOf(u)] = Bytes(FirstOf(u))
      BY DEF FirstOf, Weighed
    <3>2. \A h : [u \in SUBSET s |-> IF u = {} THEN 0 ELSE Bytes(FirstOf(u)) + h[u \ {FirstOf(u)}]]
               = [u \in SUBSET s |-> IF u = {} THEN 0 ELSE Weighed[FirstOf(u)] + h[u \ {FirstOf(u)}]]
      BY <3>1
    <3> QED
      BY <3>2 DEF FoldOf, SumFold
  <2>2. (\E h : SumFold(h, Weighed, s)) /\ \A h : SumFold(h, Weighed, s) => h[s] = g[s]
    BY <1>3, SumFoldIs
  <2>3. FoldOf(f, s)
    BY <2>1, <2>2
  <2>4. BytesIn(s) = f[s]
    BY BytesInFolds
  <2> HIDE DEF f
  <2> QED
    BY <2>1, <2>2, <2>3, <2>4
<1> QED
  BY <1>3, <1>4 DEF Adds

\* One directory more adds its bytes.
LEMMA BytesAdded ==
  ASSUME NEW S \in SUBSET Sized, IsFiniteSet(S), NEW t \in Sized
  PROVE  /\ BytesIn(S) \in Nat
         /\ BytesIn(S \cup {t}) = IF t \in S THEN BytesIn(S) ELSE BytesIn(S) + Bytes(t)
<1> DEFINE U == S \cup {t}
<1>1. U \in SUBSET Sized /\ IsFiniteSet(U) /\ S \in SUBSET U /\ U \in SUBSET U
  BY FS_AddElement
<1>2. PICK g : Adds(g, U) /\ \A s \in SUBSET U : BytesIn(s) = g[s]
  BY <1>1, BytesOfSubsets
<1>3. BytesIn(S) = g[S] /\ BytesIn(U) = g[U] /\ g[S] \in Nat
  BY <1>1, <1>2 DEF Adds, AddsUp
<1>4. CASE t \in S
  <2>1. U = S
    BY <1>4
  <2> QED
    BY <1>3, <1>4, <2>1
<1>5. CASE t \notin S
  <2>1. U \ {t} = S /\ t \in U
    BY <1>5
  <2>2. g[U] = Bytes(t) + g[S]
    BY <1>1, <1>2, <2>1 DEF Adds, AddsUp, Weighed
  <2> HIDE DEF U
  <2>3. Bytes(t) \in Nat
    BY BytesType
  <2> QED
    BY <1>3, <1>5, <2>2, <2>3 DEF U
<1> QED
  BY <1>4, <1>5

\* Fewer directories hold no more bytes.
LEMMA BytesOfFewer ==
  ASSUME NEW S \in SUBSET Sized, IsFiniteSet(S), NEW R \in SUBSET S
  PROVE  BytesIn(R) <= BytesIn(S)
<1> DEFINE Bad == {D \in SUBSET S : BytesIn(S \ D) > BytesIn(S)}
<1>1. ASSUME NEW D \in SUBSET S
      PROVE  S \ D \in SUBSET Sized /\ IsFiniteSet(S \ D) /\ BytesIn(S \ D) \in Nat
  <2>1. S \ D \in SUBSET S /\ S \ D \in SUBSET Sized
    OBVIOUS
  <2>2. IsFiniteSet(S \ D)
    BY <2>1, FS_Subset
  <2> QED
    BY <2>1, <2>2, BytesAdded, NoTreeAssumption DEF Sized
<1>2. BytesIn(S) \in Nat
  BY BytesAdded DEF Sized
<1>3. SUFFICES Bad = {}
  <2>1. S \ R \in SUBSET S /\ S \ (S \ R) = R
    OBVIOUS
  <2>2. S \ R \notin Bad
    BY <1>3
  <2>3. ~(BytesIn(R) > BytesIn(S))
    BY <2>1, <2>2
  <2>4. BytesIn(R) \in Nat
    BY <1>1, <2>1
  <2> QED
    BY <1>2, <2>3, <2>4
<1>4. SUFFICES ASSUME Bad # {} PROVE FALSE
  OBVIOUS
<1>5. PICK D \in Bad : \A C \in Bad : C \subseteq D => C = D
  <2>1. Bad \subseteq SUBSET S
    OBVIOUS
  <2> HIDE DEF Bad
  <2> QED
    BY <1>4, <2>1, MinimalOne
<1>6. D \in SUBSET S /\ BytesIn(S \ D) > BytesIn(S)
  OBVIOUS
<1>7. D # {}
  <2>1. S \ {} = S
    OBVIOUS
  <2> QED
    BY <1>2, <1>6, <2>1
<1>8. PICK x \in D : TRUE
  BY <1>7
<1> DEFINE C == D \ {x}
<1>9. C \in SUBSET S /\ C \subseteq D /\ C # D /\ S \ C = (S \ D) \cup {x} /\ x \notin S \ D
      /\ x \in Sized
  BY <1>6, <1>8
<1>10. BytesIn(S \ C) = BytesIn(S \ D) + Bytes(x) /\ Bytes(x) \in Nat
  BY <1>1, <1>6, <1>9, BytesAdded, BytesType
<1>11. C \in Bad
  BY <1>1, <1>2, <1>6, <1>9, <1>10
<1> QED
  BY <1>5, <1>9, <1>11
-----------------------------------------------------------------------------
(***************************************************************************)
(* The budget.  A builder past its last check still owes the bytes of the  *)
(* manifests it has not written; what is written counts, what is owed is   *)
(* reserved, and a check starts over from the cap.                         *)
(***************************************************************************)

Unchecked == {"scanned", "consolidated", "cleanup"}
Owing     == {"trim", "source manifest", "date manifest"}
TempsOf(B) == {temp[b] : b \in B}
Counted == Published \cup TempsOf({b \in Builders : pc[b] \notin Unchecked})

ManifestBytes == SourceManifestBytes + DateManifestBytes
Remaining(step) == IF step \notin Owing THEN 0
                   ELSE IF step = "date manifest" THEN DateManifestBytes ELSE ManifestBytes
Owed == {o \in Builders \X (1 .. ManifestBytes) : o[2] <= Remaining(pc[o[1]])}
Cap  == MaxCacheBytes + Cardinality(Builders) * ManifestBytes
Fits == BytesIn(Counted) + Cardinality(Owed) <= Cap

\* The inductive part: only finitely many directories are kept, and the date's
\* manifest is the second one.
Halfway == \A b \in Builders : pc[b] = "date manifest" => temp[b].manifests = SourceManifestBytes
Budget  == IsFiniteSet(superseded) /\ IsFiniteSet(litter) /\ Halfway /\ Fits

LEMMA RemainingNat ==
  /\ ManifestBytes \in Nat
  /\ \A step : Remaining(step) \in 0 .. ManifestBytes
<1>1. ManifestBytes \in Nat /\ DateManifestBytes \in 0 .. ManifestBytes
  BY SizesAssumption DEF ManifestBytes
<1>2. 0 \in 0 .. ManifestBytes /\ ManifestBytes \in 0 .. ManifestBytes
  BY <1>1
<1> QED
  BY <1>1, <1>2, Zenon DEF Remaining

LEMMA OwedFinite ==
  /\ IsFiniteSet(Owed) /\ Cardinality(Owed) \in Nat
  /\ Cardinality(Owed) <= Cardinality(Builders) * ManifestBytes
  /\ Cardinality(Builders) * ManifestBytes \in Nat /\ Cap \in Nat
<1> DEFINE I == 1 .. ManifestBytes
<1>1. IsFiniteSet(I) /\ Cardinality(I) = ManifestBytes
  <2>1. Cardinality(I) = IF 1 > ManifestBytes THEN 0 ELSE ManifestBytes - 1 + 1
    BY RemainingNat, FS_Interval
  <2>2. IsFiniteSet(I)
    BY RemainingNat, FS_Interval
  <2> HIDE DEF I
  <2> QED
    BY <2>1, <2>2, RemainingNat
<1>2. IsFiniteSet(Builders) /\ Cardinality(Builders) \in Nat
  BY ProcessAssumption, FS_CardinalityType
<1> HIDE DEF I
<1>3. IsFiniteSet(Builders \X I) /\ Cardinality(Builders \X I) = Cardinality(Builders) * ManifestBytes
  BY <1>1, <1>2, FS_Product
<1>4. Cardinality(Builders \X I) \in Nat
  BY <1>3, FS_CardinalityType
<1>5. Owed \in SUBSET (Builders \X I)
  BY DEF Owed, I
<1>6. IsFiniteSet(Owed) /\ Cardinality(Owed) <= Cardinality(Builders \X I)
  BY <1>3, <1>5, FS_Subset
<1>7. Cardinality(Owed) \in Nat
  BY <1>6, FS_CardinalityType
<1> QED
  BY <1>3, <1>4, <1>6, <1>7, SizesAssumption DEF Cap

\* A builder that goes from owing n bytes to owing m fewer.
LEMMA LessOwed ==
  ASSUME Inv, NEW p \in Processes, NEW step, Go(p, step), NEW m \in Nat,
         p \in Builders => Remaining(step) + m <= Remaining(pc[p]), p \notin Builders => m = 0
  PROVE  Cardinality(Owed') + m <= Cardinality(Owed)
<1>1. PICK old : old = Owed
  OBVIOUS
<1>2. PICK new : new = Owed'
  OBVIOUS
<1>3. \A q \in Processes : pc'[q] = IF q = p THEN step ELSE pc[q]
  BY DEF Go, Inv, Typing
<1>4. new \in SUBSET old
  <2> SUFFICES ASSUME NEW o \in new PROVE o \in old
    OBVIOUS
  <2>1. /\ o \in Builders \X (1 .. ManifestBytes) /\ o[1] \in Builders /\ o[2] \in Nat
        /\ o[2] <= Remaining(pc'[o[1]])
    BY <1>2, RemainingNat DEF Owed
  <2>2. Remaining(pc'[o[1]]) <= Remaining(pc[o[1]])
    <3>1. CASE o[1] = p
      BY <1>3, <2>1, <3>1, RemainingNat
    <3>2. CASE o[1] # p
      BY <1>3, <2>1, <3>2, RemainingNat DEF Processes
    <3> QED
      BY <3>1, <3>2
  <2>3. o[2] <= Remaining(pc[o[1]])
    BY <2>1, <2>2, RemainingNat
  <2> QED
    BY <1>1, <2>1, <2>3 DEF Owed
<1>5. IsFiniteSet(old) /\ Cardinality(old) \in Nat
  BY <1>1, OwedFinite
<1>6. IsFiniteSet(new) /\ Cardinality(new) \in Nat /\ Cardinality(new) <= Cardinality(old)
  BY <1>4, <1>5, FS_Subset, FS_CardinalityType
<1>7. CASE p \notin Builders
  BY <1>1, <1>2, <1>5, <1>6, <1>7
<1>8. CASE p \in Builders
  <2> DEFINE n == Remaining(step)
             I == n + 1 .. n + m
             D == {p} \X I
  <2>1. n \in Nat /\ Remaining(pc[p]) \in 0 .. ManifestBytes /\ n + m <= Remaining(pc[p])
    BY <1>8, RemainingNat
  <2> HIDE DEF n
  <2>2. IsFiniteSet(I) /\ Cardinality(I) = m
    <3>1. Cardinality(I) = IF n + 1 > n + m THEN 0 ELSE n + m - (n + 1) + 1
      BY <2>1, FS_Interval
    <3>2. IsFiniteSet(I)
      BY <2>1, FS_Interval
    <3> HIDE DEF I
    <3> QED
      BY <2>1, <3>1, <3>2
  <2>3. \A i \in I : i \in 1 .. ManifestBytes /\ i > n /\ i <= Remaining(pc[p])
    <3>1. PICK k \in 0 .. ManifestBytes : k = Remaining(pc[p])
      BY <2>1
    <3> QED
      BY <2>1, <3>1, RemainingNat
  <2>4. D \in SUBSET old
    BY <1>1, <1>8, <2>3 DEF Owed
  <2>5. D \cap new = {}
    <3> SUFFICES ASSUME NEW o \in D, o \in new PROVE FALSE
      OBVIOUS
    <3>1. o[1] = p /\ o[2] \in I
      OBVIOUS
    <3>2. o[2] <= Remaining(pc'[p])
      BY <1>2, <3>1 DEF Owed
    <3>3. pc'[p] = step
      BY <1>3
    <3>4. o[2] > n /\ o[2] \in Nat /\ o[2] <= n
      BY <2>3, <3>1, <3>2, <3>3 DEF n
    <3> QED
      BY <2>1, <3>4
  <2> HIDE DEF I
  <2>6. IsFiniteSet({p}) /\ Cardinality({p}) = 1
    BY FS_Singleton
  <2>7. IsFiniteSet(D) /\ Cardinality(D) = 1 * m
    BY <2>2, <2>6, FS_Product
  <2> HIDE DEF D
  <2>8. D \cup new \in SUBSET old /\ D \cap new = {}
    BY <1>4, <2>4, <2>5
  <2>9. Cardinality(D \cup new) = Cardinality(D) + Cardinality(new) - Cardinality({})
    BY <1>6, <2>7, <2>8, FS_Union
  <2>10. Cardinality(D \cup new) <= Cardinality(old)
    BY <1>5, <2>8, FS_Subset
  <2>11. Cardinality({}) = 0
    BY FS_EmptySet
  <2> QED
    BY <1>1, <1>2, <1>5, <1>6, <2>7, <2>9, <2>10, <2>11
<1> QED
  BY <1>7, <1>8

LEMMA TempsFinite ==
  ASSUME Inv, NEW B \in SUBSET Builders
  PROVE  IsFiniteSet(TempsOf(B)) /\ TempsOf(B) \in SUBSET Sized
<1>1. IsFiniteSet(B)
  BY ProcessAssumption, FS_Subset
<1> DEFINE f == [b \in B |-> temp[b]]
<1>2. f \in Surjection(B, TempsOf(B))
  BY DEF Surjection, TempsOf
<1>3. IsFiniteSet(TempsOf(B))
  <2> HIDE DEF f
  <2> QED
    BY <1>1, <1>2, FS_Surjection
<1>4. TempsOf(B) \in SUBSET Sized
  BY DEF Inv, Typing, TempsOf, Sized
<1> QED
  BY <1>3, <1>4

LEMMA CountedFinite ==
  ASSUME Inv, Budget
  PROVE  /\ IsFiniteSet(Published) /\ Published \in SUBSET Sized
         /\ IsFiniteSet(Counted) /\ Counted \in SUBSET Sized
         /\ WithinBudget => BytesIn(Counted \cup TempsOf(Builders)) <= MaxCacheBytes
<1>1. IsFiniteSet(Published) /\ Published \in SUBSET Sized
  <2>1. IsFiniteSet(superseded \cup {final})
    BY FS_AddElement DEF Budget
  <2>2. Published \in SUBSET (superseded \cup {final})
    BY DEF Published
  <2>3. Published \in SUBSET Sized
    BY DEF Inv, Typing, Published, Sized
  <2> QED
    BY <2>1, <2>2, <2>3, FS_Subset
<1>2. IsFiniteSet(Counted) /\ Counted \in SUBSET Sized
  BY <1>1, TempsFinite, FS_Union DEF Counted
<1>3. ASSUME WithinBudget PROVE BytesIn(Counted \cup TempsOf(Builders)) <= MaxCacheBytes
  <2> DEFINE D == (Published \cup litter) \cup TempsOf(Builders)
             U == Counted \cup TempsOf(Builders)
  <2>1. litter \in SUBSET Sized
    BY DEF Inv, Typing, Sized
  <2>2. IsFiniteSet(TempsOf(Builders)) /\ TempsOf(Builders) \in SUBSET Sized
    BY TempsFinite
  <2>3. IsFiniteSet(D) /\ D \in SUBSET Sized
    BY <1>1, <2>1, <2>2, FS_Union DEF Budget
  <2>4. BytesIn(D) <= MaxCacheBytes
    BY <1>3 DEF WithinBudget, DirectoryBytes, TempsOf
  <2>5. U \in SUBSET D
    BY DEF Counted, TempsOf
  <2> HIDE DEF D, U
  <2>6. BytesIn(U) <= BytesIn(D)
    BY <2>3, <2>5, BytesOfFewer
  <2>7. IsFiniteSet(U) /\ U \in SUBSET Sized
    BY <2>3, <2>5, FS_Subset
  <2>8. BytesIn(U) \in Nat /\ BytesIn(D) \in Nat /\ MaxCacheBytes \in Nat
    BY <2>3, <2>7, BytesAdded, SizesAssumption DEF Sized
  <2> QED
    BY <2>4, <2>6, <2>8 DEF U
<1> QED
  BY <1>1, <1>2, <1>3

LEMMA NoTreeEmpty == NoTree \in Sized /\ Bytes(NoTree) = 0
  BY DEF Sized, Bytes

LEMMA FitsIsEnough == ASSUME Inv, Budget PROVE CheckedBytesFit
<1>1. Counted \in SUBSET Sized /\ IsFiniteSet(Counted)
  BY CountedFinite
<1>2. BytesIn(Counted) \in Nat
  BY <1>1, BytesAdded DEF Sized
<1>3. BytesIn(Counted) <= Cap
  BY <1>2, OwedFinite DEF Budget, Fits
<1> QED
  BY <1>3 DEF CheckedBytesFit, Cap, Counted, TempsOf, Unchecked, ManifestBytes

\* Fewer directories, or an empty one more, hold no more bytes.
LEMMA NoMoreBytes ==
  ASSUME NEW S \in SUBSET Sized, IsFiniteSet(S),
         NEW x \in Sized, Bytes(x) = 0, NEW R \in SUBSET (S \cup {x})
  PROVE  BytesIn(R) <= BytesIn(S) /\ BytesIn(R) \in Nat /\ BytesIn(S) \in Nat
<1> DEFINE U == S \cup {x}
<1>1. U \in SUBSET Sized /\ IsFiniteSet(U)
  BY FS_AddElement
<1>2. BytesIn(U) = BytesIn(S) /\ BytesIn(S) \in Nat
  BY BytesAdded
<1> HIDE DEF U
<1>3. R \in SUBSET U /\ R \in SUBSET Sized /\ IsFiniteSet(R)
  BY <1>1, FS_Subset DEF U
<1>4. BytesIn(R) <= BytesIn(U)
  BY <1>1, <1>3, BytesOfFewer
<1>5. BytesIn(R) \in Nat
  BY <1>3, BytesAdded DEF Sized
<1> QED
  BY <1>2, <1>4, <1>5

\* Nor does a directory written anew, but for the m bytes it may grow by.
LEMMA RewrittenBytes ==
  ASSUME NEW S \in SUBSET Sized, IsFiniteSet(S), NEW old \in S, NEW new \in Sized, NEW m \in Nat,
         Bytes(new) <= Bytes(old) + m, NEW R \in SUBSET ((S \ {old}) \cup {new})
  PROVE  BytesIn(R) <= BytesIn(S) + m /\ BytesIn(R) \in Nat /\ BytesIn(S) \in Nat
<1>1. PICK T : T = S \ {old}
  OBVIOUS
<1>2. T \in SUBSET Sized /\ IsFiniteSet(T) /\ old \in Sized /\ old \notin T /\ T \cup {old} = S
  BY <1>1, FS_Subset
<1>3. BytesIn(T) \in Nat /\ BytesIn(S) = BytesIn(T) + Bytes(old)
  BY <1>2, BytesAdded
<1>4. PICK U : U = T \cup {new}
  OBVIOUS
<1>5. BytesIn(U) \in {BytesIn(T), BytesIn(T) + Bytes(new)}
  BY <1>2, <1>4, BytesAdded
<1>6. U \in SUBSET Sized /\ IsFiniteSet(U)
  BY <1>2, <1>4, FS_AddElement
<1>7. R \in SUBSET (U \cup {NoTree})
  BY <1>1, <1>4
<1>8. BytesIn(R) <= BytesIn(U) /\ BytesIn(R) \in Nat
  BY <1>6, <1>7, NoTreeEmpty, NoMoreBytes
<1>9. Bytes(old) \in Nat /\ Bytes(new) \in Nat
  BY <1>2, BytesType
<1> QED
  BY <1>3, <1>5, <1>8, <1>9

\* A step of p after which nothing new is counted but an empty directory x, and
\* nothing more is owed.
LEMMA NothingNew ==
  ASSUME Inv, Budget, NEW p \in Processes, NEW step, step \notin Owing, Go(p, step),
         \A b \in Builders : b # p => temp'[b] = temp[b],
         NEW x \in Sized, Bytes(x) = 0, Published' \subseteq Counted,
         p \in Builders /\ step \notin Unchecked => temp'[p] \in Counted \cup {x}
  PROVE  Fits'
<1>1. Counted' \subseteq Counted \cup {x}
  <2>1. ASSUME NEW b \in Builders, pc'[b] \notin Unchecked PROVE temp'[b] \in Counted \cup {x}
    <3>1. CASE b = p
      <4>1. pc'[p] = step
        BY DEF Go, Inv, Typing
      <4> QED
        BY <2>1, <3>1, <4>1
    <3>2. CASE b # p
      <4>1. pc[b] \notin Unchecked
        BY <2>1, <3>2 DEF Go, Inv, Typing, Processes
      <4> QED
        BY <3>2, <4>1 DEF Counted, TempsOf
    <3> QED
      BY <3>1, <3>2
  <2> QED
    BY <2>1 DEF Counted, TempsOf
<1>2. Cardinality(Owed') <= Cardinality(Owed) /\ Cardinality(Owed') \in Nat
  <2>1. Remaining(step) = 0
    BY DEF Remaining
  <2>2. Remaining(step) + 0 <= Remaining(pc[p])
    BY <2>1, RemainingNat
  <2>3. Cardinality(Owed') + 0 <= Cardinality(Owed)
    BY <2>2, LessOwed
  <2>4. (Cardinality(Owed) \in Nat)'
    BY OwedFinite, PTL
  <2> QED
    BY <2>3, <2>4
<1>3. PICK S : S = Counted
  OBVIOUS
<1>4. PICK R : R = Counted'
  OBVIOUS
<1>5. S \in SUBSET Sized /\ IsFiniteSet(S)
  BY <1>3, CountedFinite
<1>6. R \in SUBSET (S \cup {x})
  BY <1>1, <1>3, <1>4
<1>7. BytesIn(R) <= BytesIn(S) /\ BytesIn(R) \in Nat /\ BytesIn(S) \in Nat
  BY <1>5, <1>6, NoMoreBytes
<1>8. BytesIn(S) + Cardinality(Owed) <= Cap /\ Cap \in Nat /\ Cardinality(Owed) \in Nat
  BY <1>3, OwedFinite DEF Budget, Fits
<1>9. BytesIn(R) + Cardinality(Owed') <= Cap
  BY <1>2, <1>7, <1>8
<1> QED
  BY <1>4, <1>9 DEF Fits, Cap

\* The steps after which a directory is no longer counted, or still is.
LEMMA QuietFits ==
  ASSUME Inv, Budget, NEW b \in Builders, NEW step, step \notin Owing, Go(b, step),
         pc[b] \notin Unchecked \/ step \in Unchecked, Published' = Published,
         \A c \in Builders : c # b => temp'[c] = temp[c],
         temp'[b] \in {temp[b], NoTree} \/ step \in Unchecked
  PROVE  Fits'
<1>1. step \notin Unchecked => temp'[b] \in Counted \cup {NoTree}
  BY DEF Counted, TempsOf
<1>2. b \in Processes /\ Published' \subseteq Counted
  BY DEF Processes, Counted
<1> QED
  BY <1>1, <1>2, NoTreeEmpty, NothingNew

\* A check that passes: all the directories are within the cap, so they fit
\* whatever the builders still owe.
LEMMA CheckFits ==
  ASSUME Inv, Budget, UNCHANGED disk, WithinBudget
  PROVE  Fits'
<1>1. Counted' \subseteq Counted \cup TempsOf(Builders)
  BY DEF disk, Counted, TempsOf, Published
<1>2. PICK S : S = Counted \cup TempsOf(Builders)
  OBVIOUS
<1>3. PICK R : R = Counted'
  OBVIOUS
<1>4. S \in SUBSET Sized /\ IsFiniteSet(S) /\ BytesIn(S) <= MaxCacheBytes
  BY <1>2, CountedFinite, TempsFinite, FS_Union
<1>5. BytesIn(R) <= BytesIn(S) /\ BytesIn(R) \in Nat /\ BytesIn(S) \in Nat
  BY <1>1, <1>2, <1>3, <1>4, NoTreeEmpty, NoMoreBytes
<1>6. /\ (Cardinality(Owed) \in Nat)'
      /\ (Cardinality(Owed) <= Cardinality(Builders) * ManifestBytes)'
  BY OwedFinite, PTL
<1>7. BytesIn(R) + Cardinality(Owed') <= Cap
  BY <1>4, <1>5, <1>6, OwedFinite, SizesAssumption DEF Cap
<1> QED
  BY <1>3, <1>7 DEF Fits, Cap

\* The writes after the last check: a directory grows by no more than its
\* builder owes less.
LEMMA WriteFits ==
  ASSUME Inv, Budget, NEW b \in Builders, pc[b] \in Owing, NEW step, Go(b, step),
         UNCHANGED <<final, superseded, litter>>,
         NEW new \in Tree, temp' = [temp EXCEPT ![b] = new],
         NEW m \in Nat, Bytes(new) <= Bytes(temp[b]) + m, Remaining(step) + m <= Remaining(pc[b])
  PROVE  Fits'
<1>1. temp[b] \in Tree /\ temp[b] # NoTree /\ Published' = Published
  BY BuilderFacts DEF Published, Stage, WithTemp, Owing
<1>2. PICK old \in Tree : old = temp[b]
  BY <1>1
<1>3. PICK S : S = Counted
  OBVIOUS
<1>4. PICK R : R = Counted'
  OBVIOUS
<1>5. S \in SUBSET Sized /\ IsFiniteSet(S)
  BY <1>3, CountedFinite
<1>6. old \in S /\ old \in Sized /\ new \in Sized
  BY <1>2, <1>3 DEF Counted, TempsOf, Unchecked, Owing, Sized
<1>7. R \in SUBSET ((S \ {old}) \cup {new})
  <2>1. old \notin Published
    BY <1>1, <1>2, BuilderFacts DEF Stage, Settled, Owing
  <2>2. Published' \subseteq S \ {old}
    BY <1>1, <1>3, <2>1 DEF Counted
  <2>3. ASSUME NEW c \in Builders, pc'[c] \notin Unchecked
        PROVE  temp'[c] \in (S \ {old}) \cup {new}
    <3>1. CASE c = b
      BY <3>1, BuilderFacts
    <3>2. CASE c # b
      <4>1. pc[c] \notin Unchecked /\ temp'[c] = temp[c]
        BY <2>3, <3>2, BuilderFacts DEF Go
      <4>2. temp[c] \in S
        BY <1>3, <4>1 DEF Counted, TempsOf
      <4>3. ASSUME temp[c] = old PROVE FALSE
        <5>1. pc[c] # "idle" /\ pc[b] # "idle"
          BY <1>1, <1>2, <4>3, BuilderFacts DEF Stage, NoTemp, Owing
        <5>2. call[c].id = call[b].id
          BY <1>1, <1>2, <4>3, BuilderFacts DEF Stage
        <5> QED
          BY <3>2, <5>1, <5>2, BuilderFacts DEF Inv, Serials
      <4> QED
        BY <4>1, <4>2, <4>3
    <3> QED
      BY <3>1, <3>2
  <2> QED
    BY <1>4, <2>2, <2>3 DEF Counted, TempsOf
<1>8. BytesIn(R) <= BytesIn(S) + m /\ BytesIn(R) \in Nat /\ BytesIn(S) \in Nat
  BY <1>2, <1>5, <1>6, <1>7, RewrittenBytes
<1>9. Cardinality(Owed') + m <= Cardinality(Owed)
  BY BuilderFacts, LessOwed
<1>10. (Cardinality(Owed) \in Nat)'
  BY OwedFinite, PTL
<1>11. BytesIn(S) + Cardinality(Owed) <= Cap /\ Cap \in Nat /\ Cardinality(Owed) \in Nat
  BY <1>3, OwedFinite DEF Budget, Fits
<1>12. BytesIn(R) + Cardinality(Owed') <= Cap
  BY <1>8, <1>9, <1>10, <1>11
<1> QED
  BY <1>4, <1>12 DEF Fits, Cap

LEMMA FinishingFits ==
  ASSUME Inv, Budget, NEW b \in Builders, RemoveParts(b) \/ SealSource(b) \/ SealDate(b)
  PROVE  Fits'
<1>1. pc[b] \in Owing /\ UNCHANGED <<final, superseded, litter>>
  BY DEF RemoveParts, SealSource, SealDate, Owing
<1>2. temp[b] \in Tree
  BY <1>1, BuilderFacts DEF Stage, WithTemp, Owing
<1>3. PICK old \in Tree : old = temp[b]
  BY <1>2
<1>4. /\ old.parts \in Nat /\ old.output \in Nat /\ old.manifests \in Nat
      /\ SourceManifestBytes \in Nat /\ DateManifestBytes \in Nat
  BY SizesAssumption DEF Tree
<1>5. ASSUME NEW new \in Tree, NEW m \in Nat,
             new.parts \in Nat, new.parts <= old.parts, new.output = old.output,
             new.manifests \in Nat, new.manifests <= old.manifests + m
      PROVE  Bytes(new) <= Bytes(old) + m
  BY <1>4, <1>5, NoTreeAssumption DEF Bytes
<1>6. CASE RemoveParts(b)
  <2>1. PICK new \in Tree : new = [old EXCEPT !.parts = 0]
    BY Written
  <2>2. new.parts = 0 /\ new.output = old.output /\ new.manifests = old.manifests
    BY <2>1 DEF Tree
  <2>3. temp' = [temp EXCEPT ![b] = new] /\ Go(b, "source manifest") /\ pc[b] = "trim"
    BY <1>3, <1>6, <2>1, BuilderFacts DEF RemoveParts
  <2>4. Bytes(new) <= Bytes(temp[b]) + 0
    BY <1>3, <1>4, <1>5, <2>2
  <2>5. Remaining("source manifest") + 0 <= Remaining("trim")
    <3>1. Remaining("source manifest") = ManifestBytes /\ Remaining("trim") = ManifestBytes
      BY DEF Remaining, Owing
    <3>2. ManifestBytes + 0 <= ManifestBytes
      BY RemainingNat
    <3> QED
      BY <3>1, <3>2, Zenon
  <2> QED
    BY <1>1, <2>3, <2>4, <2>5, WriteFits
<1>7. CASE SealSource(b)
  <2>1. PICK new \in Tree : new = [old EXCEPT !.manifests = SourceManifestBytes]
    BY Written
  <2>2. new.parts = old.parts /\ new.output = old.output /\ new.manifests = SourceManifestBytes
    BY <2>1 DEF Tree
  <2>3. temp' = [temp EXCEPT ![b] = new] /\ Go(b, "date manifest") /\ pc[b] = "source manifest"
    BY <1>3, <1>7, <2>1, BuilderFacts DEF SealSource
  <2>4. Bytes(new) <= Bytes(temp[b]) + SourceManifestBytes
    BY <1>3, <1>4, <1>5, <2>2
  <2>5. Remaining("date manifest") + SourceManifestBytes <= Remaining("source manifest")
    BY <1>4 DEF Remaining, Owing, ManifestBytes
  <2> QED
    BY <1>1, <1>4, <2>3, <2>4, <2>5, WriteFits
<1>8. CASE SealDate(b)
  <2>1. PICK new \in Tree :
          new = [old EXCEPT !.manifests = SourceManifestBytes + DateManifestBytes, !.complete = TRUE]
    BY Written
  <2>2. /\ new.parts = old.parts /\ new.output = old.output
        /\ new.manifests = SourceManifestBytes + DateManifestBytes
    BY <2>1 DEF Tree
  <2>3. temp' = [temp EXCEPT ![b] = new] /\ Go(b, "staged") /\ pc[b] = "date manifest"
    BY <1>3, <1>8, <2>1, BuilderFacts DEF SealDate
  <2>4. old.manifests = SourceManifestBytes
    BY <1>3, <2>3 DEF Budget, Halfway
  <2>5. Bytes(new) <= Bytes(temp[b]) + DateManifestBytes
    BY <1>3, <1>4, <1>5, <2>2, <2>4
  <2>6. Remaining("staged") + DateManifestBytes <= Remaining("date manifest")
    BY <1>4 DEF Remaining, Owing
  <2> QED
    BY <1>1, <1>4, <2>3, <2>5, <2>6, WriteFits
<1> QED
  BY <1>6, <1>7, <1>8

LEMMA BuildFits ==
  ASSUME Inv, Budget, NEW b \in Builders, Build(b)
  PROVE  Fits'
<1>1. ASSUME UNCHANGED disk, NEW step, step \notin Owing, Go(b, step),
             pc[b] \notin Unchecked \/ step \in Unchecked
      PROVE  Fits'
  BY <1>1, QuietFits DEF disk, Published
<1>2. CASE \/ FinalExists(b) \/ CheckManifest(b) \/ CheckFiles(b) \/ ValidateStaged(b)
           \/ PredecessorExists(b) \/ InstallRaises(b) \/ MustRestore(b)
           \/ ReportManifest(b) \/ ReportFiles(b)
  <2>1. UNCHANGED disk /\ pc[b] \notin Unchecked /\ \E step : step \notin Owing /\ Go(b, step)
    BY <1>2 DEF FinalExists, CheckManifest, CheckFiles, ReplaceOrRefuse, ValidateStaged,
       PredecessorExists, InstallRaises, MustRestore, ReportManifest, ReportFiles, End, Unchecked,
       Owing
  <2> QED
    BY <1>1, <2>1
<1>3. CASE BuildRaises(b)
  BY <1>1, <1>3 DEF BuildRaises, Unchecked, Owing
<1>4. CASE ScanBatch(b) \/ Consolidate(b)
  <2>1. PICK step \in Unchecked : step \notin Owing /\ Go(b, step)
    BY <1>4 DEF ScanBatch, Consolidate, Unchecked, Owing
  <2>2. Published' = Published /\ \A c \in Builders : c # b => temp'[c] = temp[c]
    BY <1>4, BuilderFacts DEF ScanBatch, Consolidate, Published
  <2> QED
    BY <2>1, <2>2, QuietFits
<1>5. CASE Cleanup(b)
  <2>1. /\ Go(b, "idle") /\ Published' = Published /\ temp'[b] = NoTree
        /\ \A c \in Builders : c # b => temp'[c] = temp[c]
    BY <1>5, BuilderFacts DEF Cleanup, End, Removed, Published
  <2>2. b \in Processes /\ Published' \subseteq Counted /\ "idle" \notin Owing
    BY <2>1 DEF Processes, Counted, Owing
  <2> QED
    BY <2>1, <2>2, NoTreeEmpty, NothingNew
<1>6. CASE Supersede(b)
  <2>1. Published' = Published /\ pc[b] \notin Unchecked /\ UNCHANGED temp
    BY <1>6, SupersedeKeeps DEF Supersede, Unchecked
  <2>2. \E step : step \notin Owing /\ Go(b, step)
    BY <1>6 DEF Supersede, Owing
  <2> QED
    BY <2>1, <2>2, QuietFits
<1>7. CASE Restore(b)
  <2>1. /\ Published' \subseteq Published /\ UNCHANGED temp /\ Go(b, "cleanup")
    BY <1>7, BuilderFacts DEF Restore, Published, Stage
  <2>2. b \in Processes /\ Published' \subseteq Counted /\ "cleanup" \in Unchecked \ Owing
    BY <2>1 DEF Processes, Counted, Unchecked, Owing
  <2> QED
    BY <2>1, <2>2, NoTreeEmpty, NothingNew
<1>8. CASE Install(b)
  <2>1. /\ Go(b, "report") /\ pc[b] \notin Unchecked /\ temp'[b] = NoTree
        /\ \A c \in Builders : c # b => temp'[c] = temp[c]
        /\ Published' \subseteq Published \cup {temp[b]}
    BY <1>8, BuilderFacts DEF Install, Unchecked, Published
  <2>2. b \in Processes /\ Published' \subseteq Counted /\ "report" \notin Owing
    BY <2>1 DEF Processes, Counted, TempsOf, Owing
  <2> QED
    BY <2>1, <2>2, NoTreeEmpty, NothingNew
<1>9. CASE PreflightSpace(b)
  <2>1. /\ Published' = Published /\ pc[b] \notin Unchecked
        /\ pc[b] = "preflight" /\ UNCHANGED calls
    BY <1>9 DEF PreflightSpace, Unchecked, Published, count
  <2>2. CASE temp' = [temp EXCEPT ![b] = NewTree(b)] /\ Go(b, "scan")
    <3>1. call[b].id \in 1 .. calls /\ call[b].identity \in Identity /\ calls \in 0 .. MaxCalls
      BY <2>1, BuilderFacts DEF Inv, Serials, Typing
    <3>2. call[b].id \in 1 .. MaxCalls
      BY <3>1, BoundsAssumption
    <3>3. NewTree(b) \in Tree /\ NewTree(b).parts = 0 /\ NewTree(b).output = 0
          /\ NewTree(b).manifests = 0
      BY <3>1, <3>2, SizesAssumption DEF NewTree, Tree
    <3>4. NewTree(b) \in Sized /\ Bytes(NewTree(b)) = 0
      BY <3>3 DEF Sized, Bytes
    <3>5. temp'[b] = NewTree(b) /\ \A c \in Builders : c # b => temp'[c] = temp[c]
      BY <2>2, BuilderFacts
    <3>6. b \in Processes /\ Published' \subseteq Counted /\ "scan" \notin Owing
      BY <2>1 DEF Processes, Counted, Owing
    <3>7. PICK x \in Sized : x = NewTree(b)
      BY <3>4
    <3>8. Bytes(x) = 0 /\ temp'[b] \in Counted \cup {x}
      BY <3>4, <3>5, <3>7
    <3> QED
      BY <2>2, <3>5, <3>6, <3>8, NothingNew
  <2>3. CASE UNCHANGED temp /\ Go(b, "idle")
    BY <2>1, <2>3, QuietFits DEF Owing
  <2> QED
    BY <1>9, <2>2, <2>3 DEF PreflightSpace, End
<1>10. CASE BudgetAfterScan(b) \/ BudgetAfterConsolidate(b)
  BY <1>10, CheckFits DEF BudgetAfterScan, BudgetAfterConsolidate
<1>11. CASE RemoveParts(b) \/ SealSource(b) \/ SealDate(b)
  BY <1>11, FinishingFits
<1> QED
  BY <1>2, <1>3, <1>4, <1>5, <1>6, <1>7, <1>8, <1>9, <1>10, <1>11 DEF Build

LEMMA FinitelyMany ==
  ASSUME Inv, Budget, [Next]_vars
  PROVE  IsFiniteSet(superseded') /\ IsFiniteSet(litter')
<1>1. \/ UNCHANGED <<superseded, litter>>
      \/ UNCHANGED litter /\ superseded' \in SUBSET (superseded \cup {final})
      \/ UNCHANGED superseded /\ \E b \in Builders : litter' \in SUBSET (litter \cup {temp[b]})
  <2>1. CASE UNCHANGED vars
    BY <2>1 DEF vars, disk
  <2>2. ASSUME NEW b \in Builders, Build(b)
        PROVE  UNCHANGED litter /\ superseded' \in SUBSET (superseded \cup {final})
    BY <2>2 DEF Build, FinalExists, CheckManifest, CheckFiles, PreflightSpace, ScanBatch,
       BudgetAfterScan, Consolidate, BudgetAfterConsolidate, RemoveParts, SealSource, SealDate,
       BuildRaises, Cleanup, ValidateStaged, PredecessorExists, Supersede, Kept, Install, InstallRaises, MustRestore, Restore,
       ReportManifest, ReportFiles, disk
  <2>3. ASSUME NEW b \in Builders, Crash(b)
        PROVE  UNCHANGED superseded /\ litter' \in SUBSET (litter \cup {temp[b]})
    BY <2>3 DEF Crash
  <2>4. CASE Rewrite \/ (\E b \in Builders : BuildDate(b))
             \/ \E r \in Readers : ReadSymbol(r) \/ Read(r)
    BY <2>4 DEF Rewrite, BuildDate, ReadSymbol, Read, ReadDateManifest, ReadDateFiles, Open, disk
  <2> QED
    BY <2>1, <2>2, <2>3, <2>4 DEF Next
<1>2. IsFiniteSet(superseded \cup {final}) /\ \A t : IsFiniteSet(litter \cup {t})
  BY FS_AddElement DEF Budget
<1> QED
  BY <1>1, <1>2, FS_Subset DEF Budget

\* Only SealSource brings a builder before the date's manifest.
LEMMA HalfwayKept ==
  ASSUME Inv, Budget, [Next]_vars
  PROVE  Halfway'
<1>1. ASSUME NEW b \in Builders, NEW p \in Processes, NEW step, Go(p, step),
             temp'[b] = temp[b] \/ b = p, step # "date manifest" \/ b # p, pc'[b] = "date manifest"
      PROVE  temp'[b].manifests = SourceManifestBytes
  <2>1. b # p /\ pc[b] = "date manifest"
    BY <1>1, BuilderFacts DEF Go
  <2> QED
    BY <1>1, <2>1 DEF Budget, Halfway
<1>2. ASSUME NEW c \in Builders, BuildDate(c) \/ Build(c) \/ Crash(c), ~SealSource(c)
      PROVE  Halfway'
  <2>1. \A b \in Builders : b # c => temp'[b] = temp[b]
    BY <1>2, BuilderFacts DEF BuildDate, Build, Crash, FinalExists, CheckManifest, CheckFiles,
       PreflightSpace, ScanBatch, BudgetAfterScan, Consolidate, BudgetAfterConsolidate, RemoveParts,
       SealDate, BuildRaises, Cleanup, ValidateStaged, PredecessorExists, Supersede, Install,
       InstallRaises, MustRestore, Restore, ReportManifest, ReportFiles, disk
  <2>2. \E step : step # "date manifest" /\ Go(c, step)
    BY <1>2 DEF BuildDate, Begin, Build, Crash, FinalExists, CheckManifest, CheckFiles,
       ReplaceOrRefuse, PreflightSpace, ScanBatch, BudgetAfterScan, Consolidate,
       BudgetAfterConsolidate, RemoveParts, SealDate, BuildRaises, Cleanup, ValidateStaged,
       PredecessorExists, Supersede, Install, InstallRaises, MustRestore, Restore, ReportManifest,
       ReportFiles, End
  <2> QED
    BY <1>1, <2>1, <2>2, BuilderFacts DEF Halfway
<1>3. ASSUME NEW c \in Builders, SealSource(c) PROVE Halfway'
  <2>1. temp[c] \in Tree
    BY <1>3, BuilderFacts DEF SealSource, Stage, WithTemp
  <2>2. temp'[c].manifests = SourceManifestBytes
    BY <1>3, <2>1, BuilderFacts DEF SealSource, Tree
  <2>3. \A b \in Builders : b # c => temp'[b] = temp[b] /\ pc'[b] = pc[b]
    BY <1>3, BuilderFacts DEF SealSource, Go
  <2> QED
    BY <2>2, <2>3 DEF Budget, Halfway
<1>4. ASSUME NEW r \in Readers, ReadSymbol(r) \/ Read(r) PROVE Halfway'
  <2>1. r \in Processes /\ r \notin Builders
    BY ProcessAssumption DEF Processes
  <2>2. UNCHANGED disk /\ \E step : Go(r, step)
    BY <1>4 DEF ReadSymbol, Begin, Read, ReadDateManifest, ReadDateFiles, Open, End
  <2> QED
    BY <1>1, <2>1, <2>2 DEF Halfway, disk
<1>5. CASE Rewrite \/ UNCHANGED vars
  BY <1>5 DEF Rewrite, vars, disk, Budget, Halfway
<1> QED
  BY <1>2, <1>3, <1>4, <1>5 DEF Next

LEMMA BudgetKept == Inv /\ Budget /\ [Next]_vars => Budget'
<1> SUFFICES ASSUME Inv, Budget, [Next]_vars PROVE Fits'
  BY FinitelyMany, HalfwayKept DEF Budget
<1>1. ASSUME NEW p \in Processes, NEW step, step \notin Owing, Go(p, step), UNCHANGED disk,
             p \in Builders => pc[p] \notin Unchecked
      PROVE  Fits'
  <2>1. Published' \subseteq Counted /\ UNCHANGED temp
    BY <1>1 DEF disk, Published, Counted
  <2>2. p \in Builders => temp'[p] \in Counted
    BY <1>1, <2>1 DEF Counted, TempsOf
  <2> QED
    BY <1>1, <2>1, <2>2, NoTreeEmpty, NothingNew
<1>2. ASSUME NEW b \in Builders, BuildDate(b) PROVE Fits'
  BY <1>1, <1>2 DEF BuildDate, Begin, Unchecked, Owing, Processes
<1>3. ASSUME NEW b \in Builders, Crash(b) PROVE Fits'
  <2>1. /\ Go(b, "idle") /\ Published' = Published /\ temp'[b] = NoTree
        /\ \A c \in Builders : c # b => temp'[c] = temp[c]
    BY <1>3, BuilderFacts DEF Crash, End, Published
  <2>2. b \in Processes /\ Published' \subseteq Counted /\ "idle" \notin Owing
    BY <2>1 DEF Processes, Counted, Owing
  <2> QED
    BY <2>1, <2>2, NoTreeEmpty, NothingNew
<1>4. ASSUME NEW r \in Readers, ReadSymbol(r) \/ Read(r) PROVE Fits'
  <2>1. r \in Processes /\ r \notin Builders
    BY ProcessAssumption DEF Processes
  <2>2. UNCHANGED disk /\ \E step : step \notin Owing /\ Go(r, step)
    BY <1>4 DEF ReadSymbol, Begin, Read, ReadDateManifest, ReadDateFiles, Open, End, Owing
  <2> QED
    BY <1>1, <2>1, <2>2
<1>5. CASE Rewrite \/ UNCHANGED vars
  <2>1. UNCHANGED <<disk, pc>>
    BY <1>5 DEF Rewrite, vars
  <2> QED
    BY <2>1 DEF Budget, Fits, Counted, TempsOf, Owed, disk, Published
<1> QED
  BY <1>2, <1>3, <1>4, <1>5, BuildFits DEF Next

\* Whatever other builds write between a write and the check after it, and
\* however they fail or die, the directories past their last check hold no more
\* than the cap and, for each builder, the manifests one build writes without a
\* check after it (publication.py:58-72, builder.py:79, 103, 128, store.py:108).
THEOREM CheckedBytesAlwaysFit == Spec => []CheckedBytesFit
<1>1. Init => Budget
  <2> SUFFICES ASSUME Init PROVE Budget
    OBVIOUS
  <2>1. IsFiniteSet(superseded) /\ IsFiniteSet(litter)
    BY FS_EmptySet DEF Init
  <2>2. Published = {} /\ \A b \in Builders : temp[b] = NoTree /\ pc[b] = "idle"
    BY DEF Init, Published, Processes
  <2>3. PICK S : S = Counted
    OBVIOUS
  <2>4. S \in SUBSET ({} \cup {NoTree})
    BY <2>2, <2>3 DEF Counted, TempsOf
  <2>5. BytesIn({}) = 0
    <3>1. PICK g : Adds(g, {}) /\ \A s \in SUBSET {} : BytesIn(s) = g[s]
      BY FS_EmptySet, BytesOfSubsets
    <3> QED
      BY <3>1 DEF Adds, AddsUp
  <2>6. BytesIn(S) <= 0 /\ BytesIn(S) \in Nat
    BY <2>4, <2>5, NoTreeEmpty, FS_EmptySet, NoMoreBytes
  <2>7. BytesIn(Counted) + Cardinality(Owed) <= Cap
    <3>1. Cardinality(Owed) \in Nat /\ Cardinality(Owed) <= Cap
      BY OwedFinite, SizesAssumption DEF Cap
    <3> QED
      BY <2>3, <2>6, <3>1, OwedFinite
  <2> QED
    BY <2>1, <2>2, <2>7 DEF Budget, Halfway, Fits
<1>2. Spec => [](Inv /\ Budget)
  BY <1>1, InvInit, InvKept, BudgetKept, PTL DEF Spec
<1> QED
  BY <1>2, FitsIsEnough, PTL
=============================================================================
