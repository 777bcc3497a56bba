--------------------------- MODULE DatasetCatalog ---------------------------
(***************************************************************************)
(* One page of one hosted dataset, as the commands that ask for it see it  *)
(* (datasets/catalog.py, cache.py, resolution_cache.py, _cache_io.py,      *)
(* _cache_storage.py, and the Hugging Face provider): every command        *)
(* resolves the dataset, then previews the page or runs over it.  The      *)
(* caches are files that commands of several processes share; the lock of  *)
(* an entry is known to one process only, and readers take none.           *)
(*                                                                         *)
(* The rows of version n are the content n; equal content has an equal     *)
(* checksum.  Config, split, offset and limit are the same for everybody,  *)
(* so a CacheKey is a revision and a ResolutionKey a requested revision.   *)
(***************************************************************************)
EXTENDS PythonNone, Naturals

CONSTANTS
  Commands,
  Processes,
  ProcessOf,    \* where each command runs; a thread of its own in it
  Windows,      \* whether a file cannot be opened while it is being replaced
  MaxVersion,   \* bound on the versions that are published upstream
  MaxFaults     \* bound on the failed writes and killed processes

ASSUME CatalogAssumption ==
  /\ ProcessOf \in [Commands -> Processes]
  /\ Windows \in BOOLEAN
  /\ MaxVersion \in Nat \ {0} /\ MaxFaults \in Nat
  /\ None \notin 1..MaxVersion /\ None \notin Commands

Versions == 1..MaxVersion
Pins == Versions \cup {None}
Requests == [kind : {"preview", "run"}, offline : BOOLEAN, pin : Pins]

VARIABLES
  latest,      \* what the provider's default branch is at
  resolution,  \* resolutions/: for each requested revision, the resolved one
  payload,     \* payload.bin of each page entry
  manifest,    \* manifest.json of each page entry: the checksum it records
  lock,        \* who holds the lock of an entry in each process
  pc,
  request,     \* what each command was asked for
  revision,    \* what its dataset was resolved to
  seen,        \* the checksum in the manifest it read
  page,        \* the rows it has
  published,   \* the contents that were once published under each revision
  disturbed,   \* the entries a writer was interrupted at, or two processes wrote at once
  faults

vars == <<latest, resolution, payload, manifest, lock, pc, request, revision, seen, page,
          published, disturbed, faults>>

upstream == <<latest, request>>
entries == <<payload, manifest, lock, published, disturbed, faults>>

Ended == {"served", "miss", "corrupt", "unavailable", "failed", "killed"}
Busy == {"asked", "resolved", "found", "verifying", "missed", "fetched", "locked", "halfway"}

Init ==
  /\ latest = 1
  /\ resolution = [r \in Pins |-> None]
  /\ payload = [v \in Versions |-> None]
  /\ manifest = [v \in Versions |-> None]
  /\ lock = [o \in Processes |-> [v \in Versions |-> None]]
  /\ pc = [c \in Commands |-> "new"]
  /\ request \in [Commands -> Requests]
  /\ revision = [c \in Commands |-> None]
  /\ seen = [c \in Commands |-> None]
  /\ page = [c \in Commands |-> None]
  /\ published = [v \in Versions |-> {}]
  /\ disturbed = {}
  /\ faults = 0

Goto(c, phase) == pc' = [pc EXCEPT ![c] = phase]
Offline(c) == request[c].offline
Halfway(v) == {c \in Commands : pc[c] = "halfway" /\ revision[c] = v}

(***************************************************************************)
(* Upstream: somebody pushes to the dataset.                               *)
(***************************************************************************)
Push ==
  /\ latest < MaxVersion
  /\ latest' = latest + 1
  /\ UNCHANGED <<resolution, payload, manifest, lock, pc, request, revision, seen, page,
                 published, disturbed, faults>>

\* dataset_info(revision): the requested commit, or the one of the default branch.
Commit(pin) == IF pin = None THEN latest ELSE pin

\* /rows has no parameter for a revision: it answers with the rows of today.
RowsServed == latest

(***************************************************************************)
(* DatasetCatalog.resolve and ResolutionCache.                             *)
(***************************************************************************)
\* Mutant: ResolutionKey without the requested revision, as it once was.
SlotOfDataset(c) == None

Slot(c) == request[c].pin

AskRevision(c) ==
  /\ pc[c] = "new" /\ ~Offline(c)
  /\ request[c].pin \in 1..latest \cup {None}
  /\ revision' = [revision EXCEPT ![c] = Commit(request[c].pin)]
  /\ Goto(c, "asked")
  /\ UNCHANGED <<upstream, resolution, entries, seen, page>>

RememberRevision(c) ==
  /\ pc[c] = "asked"
  /\ resolution' = [resolution EXCEPT ![Slot(c)] = revision[c]]
  /\ Goto(c, "resolved")
  /\ UNCHANGED <<upstream, entries, revision, seen, page>>

ResolveOffline(c) ==
  /\ pc[c] = "new" /\ Offline(c)
  /\ revision' = [revision EXCEPT ![c] = resolution[Slot(c)]]
  /\ Goto(c, IF resolution[Slot(c)] = None THEN "miss" ELSE "resolved")
  /\ UNCHANGED <<upstream, resolution, entries, seen, page>>

(***************************************************************************)
(* DatasetCache.read, and what preview and iter_records make of it.        *)
(***************************************************************************)
UsesCache(c) == request[c].kind = "preview" \/ Offline(c)

FindEntry(c) ==
  /\ pc[c] = "resolved" /\ UsesCache(c)
  /\ Goto(c, IF manifest[revision[c]] # None /\ payload[revision[c]] # None THEN "found"
             ELSE IF Offline(c) THEN "miss" ELSE "missed")
  /\ UNCHANGED <<upstream, resolution, entries, revision, seen, page>>

ReadManifest(c) ==
  /\ pc[c] = "found"
  /\ seen' = [seen EXCEPT ![c] = manifest[revision[c]]]
  /\ Goto(c, "verifying")
  /\ UNCHANGED <<upstream, resolution, entries, revision, page>>

Accepts(c) == payload[revision[c]] = seen[c]

ReadPayload(c) ==
  /\ pc[c] = "verifying"
  /\ Goto(c, IF Accepts(c) THEN "served" ELSE "corrupt")
  /\ page' = IF Accepts(c) THEN [page EXCEPT ![c] = payload[revision[c]]] ELSE page
  /\ UNCHANGED <<upstream, resolution, entries, revision, seen>>

\* A file that a writer is swapping in, and that stayed closed to
\* read_entry_bytes on each of its attempts.
ReadRefused(c) ==
  /\ Windows
  /\ pc[c] \in {"found", "verifying"}
  /\ \E w \in Commands \ {c} : pc[w] \in {"locked", "halfway"} /\ revision[w] = revision[c]
  /\ Goto(c, "corrupt")
  /\ UNCHANGED <<upstream, resolution, entries, revision, seen, page>>

FetchPage(c) ==
  /\ pc[c] = "missed" \/ (pc[c] = "resolved" /\ ~UsesCache(c))
  /\ page' = [page EXCEPT ![c] = RowsServed]
  /\ Goto(c, IF request[c].kind = "run" THEN "served" ELSE "fetched")
  /\ UNCHANGED <<upstream, resolution, entries, revision, seen>>

AsksProvider(c) ==
  ~Offline(c) /\ (pc[c] \in {"new", "missed"} \/ (pc[c] = "resolved" /\ ~UsesCache(c)))

Unavailable(c) ==
  /\ AsksProvider(c)
  /\ Goto(c, "unavailable")
  /\ UNCHANGED <<upstream, resolution, entries, revision, seen, page>>

(***************************************************************************)
(* DatasetCache.write: both files are staged, then each takes its place.   *)
(***************************************************************************)
Mine(c) == lock[ProcessOf[c]][revision[c]]

SetLock(c, holder) == lock' = [lock EXCEPT ![ProcessOf[c]][revision[c]] = holder]
Released(c) == SetLock(c, IF Mine(c) = c THEN None ELSE Mine(c))

\* Mutant: writers of one process do not wait for each other.
LockIsIgnored(c) == TRUE

LockIsFree(c) == Mine(c) = None

LockEntry(c) ==
  /\ pc[c] = "fetched"
  /\ LockIsFree(c)
  /\ SetLock(c, c)
  /\ Goto(c, "locked")
  /\ UNCHANGED <<upstream, resolution, payload, manifest, published, disturbed, faults,
                 revision, seen, page>>

\* A writer of another process, which this lock does not stop.
Rival(c, w) == ProcessOf[w] # ProcessOf[c]

PublishPayload(c) ==
  /\ pc[c] = "locked"
  /\ payload' = [payload EXCEPT ![revision[c]] = page[c]]
  /\ disturbed' = IF \E w \in Halfway(revision[c]) : Rival(c, w)
                  THEN disturbed \union {revision[c]} ELSE disturbed
  /\ Goto(c, "halfway")
  /\ UNCHANGED <<upstream, resolution, manifest, lock, published, faults, revision, seen, page>>

PublishManifest(c) ==
  /\ pc[c] = "halfway"
  /\ manifest' = [manifest EXCEPT ![revision[c]] = page[c]]
  /\ published' = [published EXCEPT ![revision[c]] = @ \union {page[c]}]
  /\ Released(c)
  /\ Goto(c, "served")
  /\ UNCHANGED <<upstream, resolution, payload, disturbed, faults, revision, seen, page>>

Interrupted(cs) ==
  disturbed' = disturbed \union {revision[c] : c \in {d \in cs : pc[d] = "halfway"}}

\* Mutant: its cleanup removes the destination, not the staged file.
WriteFailsUnlinking(c) ==
  /\ pc[c] \in {"locked", "halfway"}
  /\ faults < MaxFaults /\ faults' = faults + 1
  /\ payload' = [payload EXCEPT ![revision[c]] = None]
  /\ Interrupted({c})
  /\ Released(c)
  /\ Goto(c, "failed")
  /\ UNCHANGED <<upstream, resolution, manifest, published, revision, seen, page>>

\* The disk is full, or a reader keeps the destination open; likewise for the
\* single file of a resolution.
WriteFails(c) ==
  /\ pc[c] \in {"asked", "locked", "halfway"}
  /\ faults < MaxFaults /\ faults' = faults + 1
  /\ Interrupted({c})
  /\ Released(c)
  /\ Goto(c, "failed")
  /\ UNCHANGED <<upstream, resolution, payload, manifest, published, revision, seen, page>>

KillProcess(o) ==
  LET dying == {c \in Commands : ProcessOf[c] = o /\ pc[c] \notin Ended}
  IN  /\ dying # {}
      /\ faults < MaxFaults /\ faults' = faults + 1
      /\ Interrupted(dying)
      /\ pc' = [c \in Commands |-> IF ProcessOf[c] = o /\ pc[c] \notin Ended
                                   THEN "killed" ELSE pc[c]]
      /\ lock' = [lock EXCEPT ![o] = [v \in Versions |-> None]]
      /\ UNCHANGED <<upstream, resolution, payload, manifest, published, revision, seen, page>>

Proceed(c) ==
  \/ AskRevision(c) \/ RememberRevision(c) \/ ResolveOffline(c)
  \/ FindEntry(c) \/ ReadManifest(c) \/ ReadPayload(c) \/ FetchPage(c)
  \/ LockEntry(c) \/ PublishPayload(c) \/ PublishManifest(c)

AllEnded == (\A c \in Commands : pc[c] \in Ended) /\ UNCHANGED vars

Next ==
  \/ AllEnded
  \/ Push
  \/ \E c \in Commands : Proceed(c) \/ ReadRefused(c) \/ Unavailable(c) \/ WriteFails(c)
  \/ \E o \in Processes : KillProcess(o)

Spec == Init /\ [][Next]_vars
-----------------------------------------------------------------------------
(* Properties *)

TypeOK ==
  /\ latest \in Versions
  /\ resolution \in [Pins -> Pins]
  /\ payload \in [Versions -> Pins]
  /\ manifest \in [Versions -> Pins]
  /\ lock \in [Processes -> [Versions -> Commands \cup {None}]]
  /\ pc \in [Commands -> {"new"} \cup Busy \cup Ended]
  /\ request \in [Commands -> Requests]
  /\ revision \in [Commands -> Pins]
  /\ seen \in [Commands -> Pins]
  /\ page \in [Commands -> Pins]
  /\ published \in [Versions -> SUBSET Versions]
  /\ disturbed \subseteq Versions
  /\ faults \in 0..MaxFaults

\* ADR-0011: a request for one revision is resolved to that revision, offline
\* too, whatever was resolved in between for another one or for the latest.
PinIsKept ==
  \A c \in Commands : request[c].pin # None /\ revision[c] # None =>
    revision[c] = request[c].pin

\* Without a network, a command is served only rows that a command with one
\* published under the same revision, completely.
OfflineServesPublished ==
  \A c \in Commands : pc[c] = "served" /\ Offline(c) =>
    page[c] \in published[revision[c]]

\* ADR-0004: "the entry directory always reflects either the fully-prior entry
\* or the fully-new one" when nobody is writing, unless a write was interrupted
\* or two processes wrote at once.
EntriesAreWhole ==
  \A v \in Versions : Halfway(v) = {} /\ v \notin disturbed => payload[v] = manifest[v]

\* "Never silently treated as if the entry were simply missing": an entry that
\* was published stays found, so a command with a network asks the provider for
\* a page only if it was not published before it looked.
NoSilentRefetch ==
  [][\A c \in Commands : pc[c] = "resolved" /\ pc'[c] \in {"missed", "miss"} =>
       published[revision[c]] = {}]_vars

\* A failed or killed writer blocks nobody: the lock of an entry is held by a
\* command of that process that is still writing that entry, and by nobody else.
LocksAreOfWriters ==
  \A o \in Processes, v \in Versions : lock[o][v] # None =>
    \E c \in Commands :
      /\ lock[o][v] = c /\ ProcessOf[c] = o
      /\ pc[c] \in {"locked", "halfway"} /\ revision[c] = v

(***************************************************************************)
(* What the documents say and this model refutes (README, section 6).      *)
(***************************************************************************)
\* catalog.py:394-396: two pins "really do resolve to two different, unchanging
\* revisions -- they're not just labels".
PageIsOfItsRevision ==
  \A c \in Commands : pc[c] = "served" => page[c] = revision[c]

\* ADR-0004: after a race every reader "observes one complete, checksum-valid entry".
RivalWritersSettle ==
  faults = 0 => \A v \in Versions : Halfway(v) = {} => payload[v] = manifest[v]
=============================================================================
