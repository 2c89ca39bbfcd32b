------------------------------ MODULE CatalogSnapshots ------------------------------
(***************************************************************************)
(* The snapshot cache of lib/server/modules/store/catalog.ts, for one      *)
(* source: buildSourceSnapshot answers from the cache, or walks over the   *)
(* files of the source (revalidateSourceSnapshot) and keeps what it read   *)
(* with a signature of the files. A walk awaits between its reads, and a   *)
(* sync replaces the files meanwhile.                                      *)
(*                                                                         *)
(* A file is one of the lists, whose absence is no error, or the compose   *)
(* file of an app; its version stands for its time, size and content.      *)
(***************************************************************************)
EXTENDS Naturals, FiniteSets

CONSTANTS
    List, Compose,   \* the files of the source
    Missing, Nothing,
    Versions,        \* bound: versions of the catalog upstream
    MaxSyncs         \* bound: syncs of the official source, and of another, by BOOLEAN

File == List \cup Compose

CatalogSnapshotsAssumption ==
    /\ List \cap Compose = {} /\ Compose # {} /\ Versions \in Nat \ {0}
    /\ Missing \notin 1..Versions /\ MaxSyncs \in [BOOLEAN -> Nat]

\* Walks of requests are shared; that of a sync, or of a forced bootstrap, is not.
Walk == {"shared", "forced"}

VARIABLES
    disk,        \* version of each file
    upstream,    \* version a sync will bring
    sync,        \* refreshStoreCatalogSource: what it is at
    entry,       \* catalogCache.get(source.id)
    current,     \* Date.now() < entry.revalidateAfter
    walk,        \* what each walk is at, and what it has read so far
    syncs,
    official,    \* the source is a git checkout, else a remote archive
    outrun,      \* history: a walk was under way when the last sync built its snapshot
    settled      \* history: nothing has been written since that sync

snapshotVars == <<disk, upstream, sync, entry, current, walk, syncs, official, outrun, settled>>
history == <<official, outrun, settled>>

Version == 1..Versions
Reading == [File -> Version \cup {Missing}]
Entry   == [signature : Reading, snapshot : Reading]
None0   == [f \in File |-> Missing]
Still   == [at |-> "idle", cached |-> Nothing, paths |-> {}, todo |-> {},
            signature |-> None0, snapshot |-> None0]

SnapshotTypeOK ==
    /\ disk \in Reading /\ upstream \in Version
    /\ sync \in {"idle", "writing", "building"}
    /\ entry \in Entry \cup {Nothing} /\ current \in BOOLEAN
    /\ walk \in [Walk -> [at : {"idle", "collecting", "stating", "comparing", "reading"},
                          cached : Entry \cup {Nothing}, paths : SUBSET Compose,
                          todo : SUBSET File, signature : Reading, snapshot : Reading]]
    /\ syncs \in 0..MaxSyncs[official]
    /\ official \in BOOLEAN /\ outrun \in BOOLEAN /\ settled \in BOOLEAN

SnapshotInit ==
    /\ disk = [f \in File |-> 1] /\ upstream = 1 /\ sync = "idle"
    /\ entry = Nothing /\ current = FALSE
    /\ walk = [w \in Walk |-> Still] /\ syncs = 0
    /\ official \in BOOLEAN /\ outrun = FALSE /\ settled = FALSE

Walking(w) == walk[w].at # "idle"

-------------------------------------------------------------------------------
(* buildSourceSnapshot *)

Start(w, cached) ==
    /\ ~Walking(w)
    /\ walk' = [walk EXCEPT ![w] = [Still EXCEPT !.at = "collecting", !.cached = cached]]

\* A request that the cache does not answer, and no walk under way.
Look ==
    /\ ~(entry # Nothing /\ current)
    /\ Start("shared", entry)
    /\ UNCHANGED <<disk, upstream, sync, entry, current, syncs, history>>

(* revalidateSourceSnapshot *)

\* resolveAppsDirectory and collectComposePaths: an apps directory that is gone ends the walk.
Collect(w) ==
    LET paths == {f \in Compose : disk[f] # Missing}
    IN /\ walk[w].at = "collecting"
       /\ walk' = [walk EXCEPT ![w] =
                     IF paths = {} THEN Still
                     ELSE [@ EXCEPT !.at = "stating", !.paths = paths, !.todo = paths \cup List]]
       /\ UNCHANGED <<disk, upstream, sync, entry, current, syncs, history>>

\* buildSignature: the files are looked at in parallel.
Stat(w, f) ==
    /\ walk[w].at = "stating" /\ f \in walk[w].todo
    /\ walk' = [walk EXCEPT ![w].signature[f] = disk[f], ![w].todo = @ \ {f},
                            ![w].at = IF walk[w].todo = {f} THEN "comparing" ELSE @]
    /\ UNCHANGED <<disk, upstream, sync, entry, current, syncs, history>>

KeepEntry(w, e) ==
    /\ entry' = e /\ current' = TRUE
    /\ walk' = [walk EXCEPT ![w] = Still]

\* The files are those of the snapshot the walk began with, or they are read: first the
\* lists.
Compare(w) ==
    /\ walk[w].at = "comparing"
    /\ IF walk[w].cached # Nothing /\ walk[w].cached.signature = walk[w].signature
       THEN KeepEntry(w, walk[w].cached)
       ELSE /\ walk' = [walk EXCEPT ![w].at = "reading", ![w].todo = List]
            /\ UNCHANGED <<entry, current>>
    /\ UNCHANGED <<disk, upstream, sync, syncs, history>>

ReadList(w, f) ==
    /\ walk[w].at = "reading" /\ f \in walk[w].todo
    /\ walk' = [walk EXCEPT ![w].snapshot[f] = disk[f], ![w].todo = @ \ {f}]
    /\ UNCHANGED <<disk, upstream, sync, entry, current, syncs, history>>

Parsed(w) ==
    [f \in File |-> IF f \in List THEN walk[w].snapshot[f]
                    ELSE IF f \in walk[w].paths THEN disk[f] ELSE Missing]

\* Mutant: the signature is taken when the files have been read.
BadParse(w) ==
    /\ walk[w].at = "reading" /\ walk[w].todo = {}
    /\ KeepEntry(w, [signature |-> [f \in File |-> IF f \in walk[w].paths \cup List THEN disk[f] ELSE Missing],
                snapshot |-> Parsed(w)])
    /\ UNCHANGED <<disk, upstream, sync, syncs, history>>

\* The compose files are parsed in one turn, one that cannot be read is skipped, and the
\* snapshot kept.
Parse(w) ==
    /\ walk[w].at = "reading" /\ walk[w].todo = {}
    /\ KeepEntry(w, [signature |-> walk[w].signature, snapshot |-> Parsed(w)])
    /\ UNCHANGED <<disk, upstream, sync, syncs, history>>

Step(w) ==
    \/ Collect(w) \/ Compare(w) \/ Parse(w)
    \/ \E f \in File : Stat(w, f) \/ ReadList(w, f)

-------------------------------------------------------------------------------
(* refreshStoreCatalogSource *)

\* git fetch and reset, which replaces what has changed; or the archive is there, and the
\* directory emptied.
Begin ==
    /\ sync = "idle" /\ syncs < MaxSyncs[official]
    /\ syncs' = syncs + 1 /\ sync' = "writing"
    /\ disk' = IF official THEN disk ELSE None0
    /\ settled' = FALSE
    /\ UNCHANGED <<upstream, entry, current, walk, official, outrun>>

Write(f) ==
    /\ sync = "writing" /\ disk[f] # upstream
    /\ disk' = [disk EXCEPT ![f] = upstream]
    /\ UNCHANGED <<upstream, sync, entry, current, walk, syncs, history>>

\* The snapshot is dropped and built anew; no request answers to it yet.
Rebuild ==
    /\ sync = "writing" /\ \A f \in File : disk[f] = upstream
    /\ sync' = "building"
    /\ entry' = Nothing /\ current' = FALSE
    /\ Start("forced", Nothing)
    /\ outrun' = Walking("shared")
    /\ UNCHANGED <<disk, upstream, syncs, official, settled>>

\* git or unzip fails: what the directory holds by then stays.
SyncFails ==
    /\ sync = "writing" /\ sync' = "idle"
    /\ UNCHANGED <<disk, upstream, entry, current, walk, syncs, history>>

SyncEnds ==
    /\ sync = "building" /\ ~Walking("forced")
    /\ sync' = "idle" /\ settled' = TRUE
    /\ UNCHANGED <<disk, upstream, entry, current, walk, syncs, official, outrun>>

PublishCatalog ==
    /\ upstream < Versions /\ sync = "idle"
    /\ upstream' = upstream + 1
    /\ UNCHANGED <<disk, sync, entry, current, walk, syncs, history>>

\* CATALOG_REVALIDATE_INTERVAL_MS, and the end of the entry.
Age ==
    /\ current /\ current' = FALSE
    /\ UNCHANGED <<disk, upstream, sync, entry, walk, syncs, history>>

EntryExpires ==
    /\ entry # Nothing /\ entry' = Nothing /\ current' = FALSE
    /\ UNCHANGED <<disk, upstream, sync, walk, syncs, history>>

SnapshotNext ==
    \/ Look \/ (\E w \in Walk : Step(w))
    \/ Begin \/ (\E f \in File : Write(f))
    \/ Rebuild \/ SyncFails \/ SyncEnds \/ PublishCatalog \/ Age \/ EntryExpires

SnapshotSpec == SnapshotInit /\ [][SnapshotNext]_snapshotVars

-------------------------------------------------------------------------------

\* A snapshot of the official source whose files have changed is found out by its
\* signature the next time somebody looks, however the walk that kept it met a sync. (An
\* archive may bring the same files back, after a walk has missed them.) And what a sync
\* has brought is what is served after it, unless an older walk was still under way
\* (revalidateSourceSnapshot, refreshStoreCatalogSource).
SnapshotsFollowFiles ==
    entry # Nothing =>
       /\ official /\ entry.signature = disk => entry.snapshot = disk
       /\ settled /\ ~outrun => entry.snapshot = disk
======================================================================================
