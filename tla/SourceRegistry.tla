----------------------------- MODULE SourceRegistry -----------------------------
(***************************************************************************)
(* The file of store sources, lib/server/modules/store/catalog-config.ts,  *)
(* and the requests of store/catalog.ts that change it: adding, syncing,   *)
(* enabling, disabling and removing a source, and the listing that marks   *)
(* the sources it cannot read.                                             *)
(*                                                                         *)
(* Each request is a Task; a change of the registry is a job in the queue  *)
(* of runExclusive: load the file, apply the mutator, write the file.      *)
(* The official source, which load and persist put back, is left out.      *)
(***************************************************************************)
EXTENDS Integers, Sequences

CONSTANTS
    Source,      \* ids of sources, a fresh one for each addition
    Url,
    Existing,    \* [subset of Source -> Url]: the sources there are at first
    Task,
    Absent, None,
    MaxFaults    \* bound: unreadable files, failing writes and restarts

ASSUME RegistryAssumption ==
    /\ DOMAIN Existing \subseteq Source /\ Existing \in [DOMAIN Existing -> Url]
    /\ \A s, t \in DOMAIN Existing : Existing[s] = Existing[t] => s = t
    /\ None \notin Source
    /\ Absent \notin [url : Url, status : {"syncing", "ready", "error"}, enabled : BOOLEAN,
                      path : {"top", "nested"}]
    /\ MaxFaults \in Nat

VARIABLES
    file,        \* what the registry file holds
    readable,    \* it parses, and every entry has the expected shape
    queue,       \* registryQueue: the first has the turn
    pc, target,
    job,         \* the mutator the task brings to the queue
    base,        \* the list its job has loaded
    seen,        \* the source as the task read it before, or the one to add; for a sync that
                 \* has extracted its archive, with the path it found
    dir,         \* where in the directory of each source a catalog lies
    promised,    \* the changes answered so far, applied to one another in turn
    faults

requests == <<queue, pc, target, job, base, seen>>
vars == <<file, readable, requests, dir, promised, faults>>

Registry == INSTANCE CatalogRegistry WITH entries <- file

\* sourcePath: the catalog lies in the directory of the source, or in one below it
\* (bound: archives that nest their catalog all do so under one name).
Path  == {"top", "nested"}
Entry == [url : Url, status : {"syncing", "ready", "error"}, enabled : BOOLEAN, path : Path]
Jobs  == {"add", "syncing", "ready", "error", "alarm", "enable", "disable", "remove"}

TypeOK ==
    /\ file \in [Source -> Entry \cup {Absent}]
    /\ readable \in BOOLEAN
    /\ queue \in Seq(Task)
    /\ pc \in [Task -> {"idle", "reading", "looking", "queued", "loaded", "downloading",
                        "extracting", "indexing", "cleaning", "over"}]
    /\ target \in [Task -> Source \cup {None}]
    /\ job \in [Task -> Jobs \cup {"none"}]
    /\ base \in [Task -> [Source -> Entry \cup {Absent}]]
    /\ seen \in [Task -> Entry \cup {Absent}]
    /\ dir \in [Source -> SUBSET Path]
    /\ promised \in [Source -> Entry \cup {Absent}]
    /\ faults \in 0..MaxFaults

NoList == [s \in Source |-> Absent]

NewEntry(u, st, p) == [url |-> u, status |-> st, enabled |-> TRUE, path |-> p]

Init ==
    /\ \E at \in [DOMAIN Existing -> Path] :
          /\ file = [s \in Source |-> IF s \in DOMAIN Existing
                                      THEN NewEntry(Existing[s], "ready", at[s]) ELSE Absent]
          /\ dir = [s \in Source |-> IF s \in DOMAIN Existing THEN {at[s]} ELSE {}]
    /\ readable = TRUE
    /\ queue = <<>>
    /\ pc = [t \in Task |-> "idle"]
    /\ target = [t \in Task |-> None]
    /\ job = [t \in Task |-> "none"]
    /\ base = [t \in Task |-> NoList]
    /\ seen = [t \in Task |-> Absent]
    /\ promised = file
    /\ faults = 0

-------------------------------------------------------------------------------
(* The mutators *)

\* Mutant: the URLs were compared before the queue was entered.
RefusedUnchecked(t, r) == job[t] # "add" /\ r[target[t]] = Absent

\* The mutator throws: the URL is taken, or the source is not found.
Refused(t, r) ==
    IF job[t] = "add"
    THEN \E s \in Source : r[s] # Absent /\ r[s].url = seen[t].url
    ELSE r[target[t]] = Absent

NewStatus(t) == IF job[t] = "alarm" THEN "error" ELSE job[t]

\* A sync that is done also writes the path it found.
NewPath(t, e) == IF job[t] = "ready" THEN seen[t].path ELSE e.path

WithStatus(e, st, p) == [url |-> e.url, status |-> st, enabled |-> e.enabled, path |-> p]
WithEnabled(e, b) == [url |-> e.url, status |-> e.status, enabled |-> b, path |-> e.path]

\* Mutant: the update spreads the source read before the download.
ChangedFromSeen(t, e) ==
    CASE job[t] = "add"     -> seen[t]
      [] job[t] = "remove"  -> Absent
      [] job[t] = "enable"  -> WithEnabled(e, TRUE)
      [] job[t] = "disable" -> WithEnabled(e, FALSE)
      [] OTHER              -> WithStatus(seen[t], NewStatus(t), seen[t].path)

\* What the mutator makes of its source.
Changed(t, e) ==
    CASE job[t] = "add"     -> seen[t]
      [] job[t] = "remove"  -> Absent
      [] job[t] = "enable"  -> WithEnabled(e, TRUE)
      [] job[t] = "disable" -> WithEnabled(e, FALSE)
      [] OTHER              -> WithStatus(e, NewStatus(t), NewPath(t, e))

Mutated(t, r) == [r EXCEPT ![target[t]] = Changed(t, r[target[t]])]

(* mutateStoreCatalogSources: runExclusive, loadRegistry, persistRegistry *)

Enqueue(t, j) ==
    /\ queue' = Append(queue, t)
    /\ pc' = [pc EXCEPT ![t] = "queued"]
    /\ job' = [job EXCEPT ![t] = j]

HasTurn(t) == queue # <<>> /\ t = Head(queue)

\* Mutant: without the queue, every job runs as it comes.
AnyTurn(t) == queue # <<>>

Leave(t) ==
    /\ queue' = Tail(queue)
    /\ base' = [base EXCEPT ![t] = NoList]

\* Mutant: a rejected job leaves the queue waiting on it.
RejectedStuck(t) ==
    /\ UNCHANGED <<queue, base>>
    /\ pc' = [pc EXCEPT ![t] = "over"]

Rejected(t) ==
    /\ Leave(t)
    /\ pc' = [pc EXCEPT ![t] = "over"]

Resolved(t) ==
    /\ Leave(t)
    /\ pc' = [pc EXCEPT ![t] = CASE job[t] = "add"     -> "reading"
                                 [] job[t] = "syncing" -> "downloading"
                                 [] job[t] = "remove"  -> "cleaning"
                                 [] OTHER              -> "over"]

Load(t) ==
    /\ HasTurn(t) /\ pc[t] = "queued"
    /\ readable
    /\ base' = [base EXCEPT ![t] = file]
    /\ pc' = [pc EXCEPT ![t] = "loaded"]
    /\ UNCHANGED <<file, readable, queue, target, job, seen, dir, promised, faults>>

\* Mutant: an unreadable registry counts as an empty one.
LoadEmpty(t) ==
    /\ HasTurn(t) /\ pc[t] = "queued"
    /\ ~readable
    /\ base' = [base EXCEPT ![t] = NoList]
    /\ pc' = [pc EXCEPT ![t] = "loaded"]
    /\ UNCHANGED <<file, readable, queue, target, job, seen, dir, promised, faults>>

\* An unreadable registry is copied aside and the change refused.
LoadFails(t) ==
    /\ HasTurn(t) /\ pc[t] = "queued"
    /\ ~readable
    /\ Rejected(t)
    /\ UNCHANGED <<file, readable, target, job, seen, dir, promised, faults>>

Refuse(t) ==
    /\ HasTurn(t) /\ pc[t] = "loaded"
    /\ Refused(t, base[t])
    /\ Rejected(t)
    /\ UNCHANGED <<file, readable, target, job, seen, dir, promised, faults>>

\* The rename of the temporary file.
Persist(t) ==
    /\ HasTurn(t) /\ pc[t] = "loaded"
    /\ ~Refused(t, base[t])
    /\ file' = Mutated(t, base[t])
    /\ promised' = IF Refused(t, promised) THEN promised ELSE Mutated(t, promised)
    /\ readable' = TRUE
    /\ Resolved(t)
    /\ UNCHANGED <<target, job, seen, dir, faults>>

\* mkdir, writeFile or rename throws; the temporary file is removed.
PersistFails(t) ==
    /\ HasTurn(t) /\ pc[t] = "loaded"
    /\ ~Refused(t, base[t])
    /\ faults < MaxFaults /\ faults' = faults + 1
    /\ Rejected(t)
    /\ UNCHANGED <<file, readable, target, job, seen, dir, promised>>

JobStep(t) == Load(t) \/ LoadFails(t) \/ Refuse(t) \/ Persist(t) \/ PersistFails(t)

-------------------------------------------------------------------------------
(* The requests *)

Ask(t, s) ==
    /\ pc[t] = "idle"
    /\ target' = [target EXCEPT ![t] = s]
    /\ UNCHANGED <<file, readable, base, dir, promised, faults>>

\* addStoreCatalogSource: the id is a new UUID.
AskAdd(t, s) ==
    /\ Ask(t, s)
    /\ file[s] = Absent /\ \A x \in Task : target[x] # s
    /\ \E u \in Url : seen' = [seen EXCEPT ![t] = NewEntry(u, "syncing", "top")]
    /\ Enqueue(t, "add")

\* updateStoreCatalogSource and removeStoreCatalogSource.
AskChange(t, s) ==
    /\ Ask(t, s)
    /\ file[s] # Absent
    /\ \E j \in {"enable", "disable", "remove"} : Enqueue(t, j)
    /\ UNCHANGED seen

\* refreshStoreCatalogSource, also the end of an addition.
AskRefresh(t, s) ==
    /\ Ask(t, s)
    /\ file[s] # Absent
    /\ pc' = [pc EXCEPT ![t] = "reading"]
    /\ UNCHANGED <<queue, job, seen>>

Read(t) ==
    /\ pc[t] = "reading"
    /\ readable /\ file[target[t]] # Absent
    /\ seen' = [seen EXCEPT ![t] = file[target[t]]]
    /\ Enqueue(t, "syncing")
    /\ UNCHANGED <<file, readable, target, base, dir, promised, faults>>

ReadFails(t) ==
    /\ pc[t] = "reading"
    /\ ~readable \/ file[target[t]] = Absent
    /\ pc' = [pc EXCEPT ![t] = "over"]
    /\ UNCHANGED <<file, readable, queue, target, job, base, seen, dir, promised, faults>>

\* downloadRemoteCatalogArchive has the archive and empties the directory.
Clear(t) ==
    /\ pc[t] = "downloading"
    /\ pc' = [pc EXCEPT ![t] = "extracting"]
    /\ dir' = [dir EXCEPT ![target[t]] = {}]
    /\ UNCHANGED <<file, readable, queue, target, job, base, seen, promised, faults>>

\* The archive is extracted, beside what another sync may have left there, and
\* ensureCatalogRoot finds the catalog: in the directory itself, else below it.
Extract(t) ==
    /\ pc[t] = "extracting"
    /\ \E p \in Path :
          LET there == dir[target[t]] \cup {p} IN
          /\ dir' = [dir EXCEPT ![target[t]] = there]
          /\ seen' = [seen EXCEPT ![t].path = IF "top" \in there THEN "top" ELSE p]
    /\ pc' = [pc EXCEPT ![t] = "indexing"]
    /\ UNCHANGED <<file, readable, queue, target, job, base, promised, faults>>

\* The first snapshot of what was found.
Index(t) ==
    /\ pc[t] = "indexing"
    /\ seen[t].path \in dir[target[t]]
    /\ Enqueue(t, "ready")
    /\ UNCHANGED <<file, readable, target, base, seen, dir, promised, faults>>

\* The fetch, the extraction or the first snapshot fails.
DownloadFails(t) ==
    /\ pc[t] \in {"downloading", "extracting", "indexing"}
    /\ Enqueue(t, "error")
    /\ UNCHANGED <<file, readable, target, base, seen, dir, promised, faults>>

\* The directory of a removed source is deleted.
CleanUp(t) ==
    /\ pc[t] = "cleaning"
    /\ pc' = [pc EXCEPT ![t] = "over"]
    /\ dir' = [dir EXCEPT ![target[t]] = {}]
    /\ UNCHANGED <<file, readable, queue, target, job, base, seen, promised, faults>>

\* loadEnabledSourceSnapshots comes to s: disabled and failed sources are skipped.
AskList(t, s) ==
    /\ Ask(t, s)
    /\ readable /\ file[s] # Absent
    /\ file[s].enabled /\ file[s].status # "error"
    /\ pc' = [pc EXCEPT ![t] = "looking"]
    /\ seen' = [seen EXCEPT ![t] = file[s]]
    /\ UNCHANGED <<queue, job>>

\* Another listing is reading s already: its result is awaited, and with it whatever
\* path that listing looks at.
LookJoins(t) ==
    /\ pc[t] = "looking"
    /\ \E x \in Task :
          /\ pc[x] = "looking" /\ target[x] = target[t]
          /\ seen' = [seen EXCEPT ![t].path = seen[x].path]
    /\ UNCHANGED <<file, readable, queue, pc, target, job, base, dir, promised, faults>>

\* A snapshot from the cache, or from what the directory holds.
LookFinds(t) ==
    /\ pc[t] = "looking"
    /\ pc' = [pc EXCEPT ![t] = "over"]
    /\ UNCHANGED <<file, readable, queue, target, job, base, seen, dir, promised, faults>>

\* Mutant: a source that was still syncing is taken for one that cannot be read.
LookFailsSyncing(t) ==
    /\ pc[t] = "looking"
    /\ seen[t].status = "syncing"
    /\ Enqueue(t, "alarm")
    /\ UNCHANGED <<file, readable, target, base, seen, dir, promised, faults>>

\* No catalog at the path that was read, which a sync may have left for another one
\* since: the failed read and the call of the mutator are one turn, since a later
\* read or write of the directory is answered later.
LookFails(t) ==
    /\ pc[t] = "looking"
    /\ seen[t].path \notin dir[target[t]]
    /\ Enqueue(t, "alarm")
    /\ UNCHANGED <<file, readable, target, base, seen, dir, promised, faults>>

(* The world around *)

\* Someone edits the file by hand and breaks it, then mends it.
Spoil ==
    /\ readable /\ readable' = FALSE
    /\ faults < MaxFaults /\ faults' = faults + 1
    /\ UNCHANGED <<file, requests, dir, promised>>

Mend ==
    /\ ~readable /\ readable' = TRUE
    /\ UNCHANGED <<file, requests, dir, promised, faults>>

\* The server dies and starts again: requests and queue are gone.
Restart ==
    /\ faults < MaxFaults /\ faults' = faults + 1
    /\ queue' = <<>>
    /\ pc' = [t \in Task |-> IF pc[t] = "idle" THEN "idle" ELSE "over"]
    /\ base' = [t \in Task |-> NoList]
    /\ UNCHANGED <<file, readable, target, job, seen, dir, promised>>

Next ==
    \/ \E t \in Task : JobStep(t)
    \/ \E t \in Task, s \in Source :
          AskAdd(t, s) \/ AskChange(t, s) \/ AskRefresh(t, s) \/ AskList(t, s)
    \/ \E t \in Task : \/ Read(t) \/ ReadFails(t) \/ Clear(t) \/ Extract(t) \/ Index(t)
                       \/ DownloadFails(t) \/ CleanUp(t)
                       \/ LookJoins(t) \/ LookFinds(t) \/ LookFails(t)
    \/ Spoil \/ Mend \/ Restart

Spec == Init /\ [][Next]_vars

\* The event loop runs a job whose turn has come, and its file calls return.
FairSpec == Spec /\ \A t \in Task : WF_vars(JobStep(t))

-------------------------------------------------------------------------------
(* Properties *)

\* The file holds the changes that were made, each applied to the one before:
\* no change is lost, none comes back ("Without this queue a slow reader writes
\* back the list it read seconds earlier"), and an unreadable file is not
\* replaced by a shorter list.
AsAsked == file = promised

\* The registry implements CatalogRegistry: a write changes one thing of one
\* source, no URL is registered twice, and no removed source comes back.
RegistrySpec == Registry!RegistrySpec

\* A change waiting in the queue gets its turn and an answer, whatever became
\* of the changes before it.
JobsAnswered == \A t \in Task : pc[t] \in {"queued", "loaded"} ~> pc[t] \notin {"queued", "loaded"}

\* "Callers that need to change a single source must use this ..., so their
\* update cannot clobber a concurrent one": once nobody is at work on a source,
\* and its downloads all succeeded, its catalog lies where the registry says, and
\* a listing that could not read it while it was being synced does not have the
\* last word over the sync: the source is ready.  One listing does have the last
\* word, though nothing failed: one that looks at a path read before a sync moved
\* the catalog to another, finds nothing there and writes "error" over "ready".
SyncHasLastWord ==
    faults = 0 =>
        \A s \in Source :
            /\ file[s] # Absent
            /\ \A t \in Task : target[t] = s => pc[t] \in {"idle", "over"} /\ job[t] # "error"
            => /\ file[s].path \in dir[s]
               /\ \/ file[s].status = "ready"
                  \/ \E t \in Task : target[t] = s /\ job[t] = "alarm"
                                      /\ seen[t].path # file[s].path
===============================================================================
