----------------------------- MODULE CacheProps -----------------------------
(* What the compact cache of a date promises its builders and readers.     *)
EXTENDS CacheStore

Steps == {"idle", "exists", "manifest", "files", "preflight", "scan", "scanned",
          "consolidate", "consolidated", "trim", "source manifest", "date manifest",
          "cleanup", "staged", "publish", "supersede", "install", "restore?", "restore", "report", "report files", "open"}
Kinds == {"none", "hit", "miss", "read", "failed", "refused", "unconfirmed", "crashed"}

\* Every variable holds a value of its type; only a running build has a
\* temporary directory, and no directory is in two places (publication.py).
TypeOK ==
  /\ source \in Versions
  /\ final \in Tree \cup {NoTree}
  /\ superseded \subseteq Tree /\ litter \subseteq Tree
  /\ temp \in [Builders -> Tree \cup {NoTree}]
  /\ pc \in [Processes -> Steps]
  /\ seen \in [Processes -> Tree \cup {NoTree}]
  /\ moved \in [Builders -> Tree \cup {NoTree}]
  /\ outcome \in [Processes -> [kind : Kinds, tree : Tree \cup {NoTree}]]
  /\ calls \in 0 .. MaxCalls
  /\ \A b \in Builders : pc[b] = "idle" => temp[b] = NoTree
  /\ final \notin superseded \cup litter

\* The directories a published date is read from are finished, and their rows
\* come from the one version of the raw source that their manifest names, even
\* though the source may change at any moment of the scan (store.py:104-114).
PublishedIsFaithful ==
  \A t \in Published : t.complete /\ t.parts = 0 /\ t.data = {t.identity.version}

\* However builds interleave, fail or die, a date once published is never lost:
\* it is the visible one or is set aside (publication.py:112-120).
PredecessorsKept == [][Published \subseteq Published']_vars

\* When no build runs, none has died and at most one rename has failed, a date
\* that was ever published is visible: a build that loses a race or fails to
\* install its own directory puts the other one back.
VisibleAtRest ==
  (Published # {} /\ crashes = 0 /\ faults <= 1 /\ \A b \in Builders : pc[b] = "idle")
    => final # NoTree

\* A call relies on a date validated during it, however its steps interleave with
\* renames, rewrites and deaths: the directory it validated is published and no
\* older than the raw source when the call began, a hit is of the very identity
\* asked for, and what a hit, a miss or a read reports is a published directory.
\* It asks no more of a miss, which may be the date of another build's request,
\* and no more of a read, whose table may come from another directory than the
\* one validated, even an older one (store.py:62-75, 119-142).
OutcomesAreTrue ==
  \A p \in Processes :
    LET o == outcome[p] IN
    /\ o.kind = "hit" => o.tree.identity = call[p].identity
    /\ o.kind \in {"hit", "miss", "read"} =>
         /\ o.tree \in Published
         /\ seen[p] \in Published
         /\ seen[p].identity.version >= call[p].identity.version

\* Publication can take the cache over its cap, but only by manifests, which are
\* written after a build's last budget check and never checked by it: however
\* many builds follow each other and whatever they write between a write and its
\* check, the directories past their last check hold together no more than the
\* cap and what one build of each builder still writes after its check
\* (publication.py:58-72, builder.py:79, 103, 128, store.py:108).
CheckedBytesFit ==
  BytesIn(Published \cup {temp[b] : b \in {x \in Builders :
    pc[x] \notin {"scanned", "consolidated", "cleanup"}}})
      <= MaxCacheBytes + Cardinality(Builders) * (SourceManifestBytes + DateManifestBytes)

\* README_en.md:123-126: publication is atomic and a failed build removes only
\* its temporary partition, so a visible date is visible from then on.
StaysVisible == [][final # NoTree => final' # NoTree]_vars
=============================================================================
