# Homeio: a TLA+ model

Homeio is a self-hosted home server: a Next.js process that installs Docker
Compose applications, manages files, disks and network storage, and streams what
happens to the browser. This directory holds TLA+ modules for the parts of the
server, and of its desktop in the browser, whose correctness depends on the order of
asynchronous steps, TLC configurations that check them, and theorems checked by TLAPS.

Paths below are relative to the repository root. Server modules live under
`lib/server/modules/`, abbreviated `M/`.

- [The system](#the-system)
- [Modules](#modules)
- [Runs, bounds and fairness](#runs-bounds-and-fairness)
- [Proofs](#proofs)
- [Where the code departs from what it says](#where-the-code-departs-from-what-it-says)
- [What is not modelled](#what-is-not-modelled)
- [Plan](#plan)

## The system

One Node.js process serves everything. JavaScript runs between two `await`s
without interruption, so **a step of the model ends at an await**: everything the
code does from one await to the next is one action, and anything may happen while
it waits. The same holds in the browser, where a step also ends when React has
rendered or a timer is set. Shared state is of four kinds: module-level variables
(lost in a restart), PostgreSQL rows, files and containers on the host (both
survive), and the state of a browser's page.

| Component | Source | State | Operations | What makes it hard |
|---|---|---|---|---|
| App operations | `M/apps/operations.ts`, `M/apps/stacks-repository.ts` | guard of busy apps, cached events, `app_operations` and `app_stacks` rows | accept, execute, patch, announce, prune, sweep | awaits between row and event; un-awaited progress patches and sweep; failing UPDATEs; restarts |
| Operation event stream | `app/api/v1/store/operations/[operationId]/stream/route.ts` | open streams and subscriptions | connect, start, deliver, close | events between reading the row and subscribing |
| Operation tracking | `modules/apps/hooks/useStoreActions.ts` | operation on screen, poll timer, EventSource | attach, fetch, poll, receive, let go | answers and events in any order, rows pruned meanwhile, pages left |
| Compose runner | `M/docker/compose-runner.ts` | stack directories, containers | write file, pull, up, down, start, stop, restart | partial failure of docker, rollback |
| Store service, custom apps | `M/store/service.ts`, `custom-apps.ts` | `app_stacks` rows, custom app files | save settings, create, delete | settings are patched before the guard is asked |
| Store source registry | `M/store/catalog-config.ts` | registry file, queue of changes | load, change, write | read-modify-write of one file |
| Store catalog | `M/store/catalog.ts` | source directories, snapshot of each source | add, sync, enable, disable, remove, list | sync against listing and against the walk that takes a snapshot |
| Installed apps listing | `M/apps/service.ts` | five-second cache | list, invalidate | a listing filling the cache after an invalidation |
| Caches | `lib/server/cache/memoize-async.ts`, `lru.ts` | value, call in flight, generation | ask, load, invalidate | invalidation while a call is in flight |
| Scheduled tasks | `M/scheduled-tasks/*.ts` | task rows, `nextRunAt` | tick, run, edit | overlapping ticks, stale rows, no app guard |
| Files and trash | `M/files/service.ts`, `trash-service.ts` | the tree, rows of the trash and of stars | create, upload, save, paste, rename, trash, restore, empty | look, await, act; file and row out of step |
| Local sharing | `M/files/local-sharing.ts` | bind mounts, Samba exports, rows, locks | add, remove, list | locks of two kinds of key, three resources to make and unwind, probes that take an error for a no |
| Network storage | `M/files/network-storage.ts` | CIFS mounts, rows | add, mount, unmount, remove, watch | no lock; the watcher acts on an old list; probes that take an error for a no |
| Backups | `M/system/backup-service.ts` | archives, manifests, timer, restore script | back up, prune, restore | power cuts amid a replacement, backups beside restores, pruning |
| System update | `M/system/update-service.ts` | cached version, back-off, call in flight | ask, check now | shared and forced calls that overlap |
| Network manager | `M/network/*.ts`, `services/dbus-helper` | event bridge, socket, reconnect timer | subscribe, leave, reconnect | a late error or close of an old socket |
| Terminal | `M/terminal/websocket-server.ts` | sockets, shells, limits per user | connect, attach, exit, close | exits of killed shells reported later |
| Two-factor authentication | `M/auth/totp-service.ts` | secret, backup codes, replay guard | set up, verify, disable, log in | read, await, conditional write of one column |
| Request proxy, first account | `proxy.ts`, `app/api/auth/*` | cached answer whether there are accounts | look up, register, log in, redirect | cached and shared answers; check-then-insert |
| Server recovery | `modules/shell/hooks/useServerConnection.ts`, `useRebootRecovery.ts`, `modules/system/hooks/useSystemSse.ts` | phase, probe, timers, power action | lose, probe, come back, reload | probes in flight, cancelled effects, other tabs |
| Desktop shell | `modules/shell/components/desktop-shell.tsx` | windows, close timers, wallpaper transition | open, close, focus, fade | timers and images that arrive late |
| Notifications | `M/notifications/*.ts` | rows | insert, prune, clear | pruning against inserting |
| The rest | USB, Google Drive, power, system information, integrations, other UI | little | requests to the host or to other services | I/O |

How they interact:

- A store request calls `startStoreOperation`, which answers at once with an
  operation id and leaves `executeStoreOperation` running. That calls the
  compose runner step by step, patches the operation's row, and emits events
  through an in-process emitter.
- The stream route reads the row, then the cached event, then subscribes to
  the emitter.
- The restart-app scheduled task calls the compose runner directly, without the
  guard of the operations.
- The store service asks the catalog for templates, and the catalog keeps its
  list of sources in the registry.
- Settings pages read slow probes of the host through `memoizeAsync`, and a
  change of the host invalidates it.
- The desktop follows an operation through its stream and by polling; what it
  relies on is that the operation ends, which is `AdmittedEnds`.
- The recovery of the desktop starts from the stream of metrics, which names the
  process of the server that sends them.
- Files, mounts, backups and accounts share the host and the database, but no
  variable: their modules are separate and the runs put them side by side.

What makes each component correct, in a sentence: **operations**, one per app at
a time, at most the limit, each accepted one ends, its stored and announced
outcomes agree; **streams and tracking**, nobody waits for an end already announced,
and whatever is followed is let go of; **deployments**, a failed update puts back what
it found, a success deploys what the file says, an uninstall leaves nothing;
**registry**, no change is lost and an unreadable file is never replaced by a shorter
one; **caches**, no answer older than the last invalidation; **snapshots**, what is
served is what the last sync brought; **files and trash**, nothing is lost that nobody
asked to delete, and the trash can be put back; **sharing and mounts**, rows and mounts
agree once nobody is at work, and no mounted folder is emptied; **scheduled tasks**, a
due task starts, and the next time follows the schedule as edited; **backups**, the
newest can be restored, a restore is whole or nothing, and the service comes back;
**second factor**, a backup code lets in once, and only a proven secret is asked for;
**terminal**, a shell runs for a connection that is there; **bridge and recovery**,
whoever stays is served again when the other side is back.

## Modules

| Module | Role |
|---|---|
| `OperationLifecycle` | abstract: what callers are promised about operations |
| `StoreOperations` | `operations.ts`: guard, row, event, progress, pruning, sweep, restart |
| `OperationStream` | the stream route, composed with `StoreOperations` (it extends it) |
| `AppDeployment` | what the operations do to files, containers and the `app_stacks` row |
| `OperationTracking` | how a page follows the operations of an app |
| `MemoizeAsync` | `memoize-async.ts` with its callers |
| `CatalogRegistry` | abstract: the registry changes one source in one respect at a time |
| `SourceRegistry` | `catalog-config.ts` and the requests of `catalog.ts` |
| `CatalogSnapshots` | the cached snapshot of one source, beside its syncs |
| `LocalSharing` | `local-sharing.ts`: locks, rows, mounts, exports |
| `NetworkStorage` | `network-storage.ts`: one mount path, its shares and the watcher |
| `FileManager` | `files/service.ts` and `trash-service.ts` on one file system |
| `ScheduledTasks` | the runner and the service of scheduled tasks |
| `BackupRestore` | backups, pruning, and the restore script |
| `TwoFactor` | `totp-service.ts` for one user |
| `FirstAccount` | `proxy.ts` with registration, login and logout |
| `NetworkEvents` | the bridge from the D-Bus helper to browsers |
| `SystemUpdate` | `getLatestVersion` |
| `TerminalSessions` | WebSockets and their shells |
| `ServerRecovery` | the desktop while its server goes away and comes back |
| `DesktopWindows`, `WallpaperFade` | windows with their timers; the fading of wallpapers |
| `OperationsProofs` | theorems about `StoreOperations` and `OperationStream` |
| `AppDeploymentProofs`, `SourceRegistryProofs`, `LocalSharingProofs` | theorems about the module of that name |
| `CacheProofs` | theorems about `MemoizeAsync`, `SystemUpdate`, `CatalogSnapshots` |
| `FilesProofs` | theorems about `FileManager` |
| `ServicesProofs` | theorems about `ScheduledTasks`, `BackupRestore`, `NetworkStorage`, `TwoFactor`, and `MCServices` as a whole |
| `DesktopProofs` | theorems about `FirstAccount`, `TerminalSessions`, `NetworkEvents`, `OperationTracking`, `ServerRecovery`, `DesktopWindows`, `WallpaperFade`, and `MCDesktop` as a whole |
| `MCServices`, `MCDesktop` | components without shared state, side by side in one run |
| other `MC...` | instances for TLC |

Definitions named in a comment as *mutant* are faulty variants of the definition
that follows them. They are not part of a specification: each shows that some
property notices the fault.

### StoreOperations

`guard` is `activeOperationsByApp`; `row` and `latest` are the status of each
operation's row and of its entry in `latestOperationEvent`; `phase` is the await
the handler stands at: `insert` (waiting for the INSERT), `start`/`started`
(first UPDATE, then its event), `body`/`stepped`/`pull` (progress patches and the
pull), `success`/`error` and their `...Written` (last UPDATE, then its event).
`stuck` is a handler whose first UPDATE was rejected, which is outside the `try`.

| Action | Code |
|---|---|
| `Admit` | `startStoreOperation` up to its first await: conflict check, limit check, guard, un-awaited prune |
| `InsertRow`, `InsertFails` | `createStoreOperation` and the catch that drops the guard |
| `StartWrite`, `StartEmit`, `StartFails` | the first `patchOperationAndEmit` |
| `StepWrite`, `StepEmit`, `BodyEnds` | the patches of a body, and its end or its exception |
| `Tick`, `ProgressWrite`, `ProgressEmit`, `ProgressFails`, `PullEnds` | `pullImagesWithProgress`: an interval whose patches nobody awaits |
| `FinalWrite`, `FinalEmit`, `SuccessWriteFails`, `ErrorWriteFails` | the last patch, the catch and the finally |
| `Purge`, `Prune` | the grace timer of the cached event; `pruneFinishedOperations` |
| `MarkStale`, `MarkStaleFails`, `Restart` | the un-awaited start-up sweep; a crash or restart |

`patchOperationAndEmit` is two steps because the event is emitted only when the
UPDATE has resolved. An UPDATE never checks the status it replaces (`SetRow`).
What a body does to the app is abstracted to a bounded number of patches, since
`AppDeployment` has it in detail. Environment merging, percentages and messages
are left out: no property depends on them.

`OperationLifecycle` is the promise to callers: an operation opens only when no
other of its app is open and fewer than the limit are, and never opens twice.
`StoreOperations` implements it under `lifecycleStatus` (`LifecycleSpec`), which
includes mutual exclusion and the limit: `MutualExclusion`, `WithinLimit`,
`GuardAccounted` and `QuietWhenOver` are theorems and no run repeats them.

### OperationStream

Each client is `idle`, `reading` the row, or `open`, with the first event it was
sent and what it holds (subscription, heartbeat). `Connect` is the read of the
row; `Start` is the synchronous part of `start()`, where a terminal first event
closes the stream before the subscription is made; `Deliver` is what one emission
of `StoreOperations` does to every subscriber, in the same step as the emission.
`PurgeLater` assumes that a request which has read its row starts within the
60-second grace window. Heartbeat contents and SSE framing are left out.

### AppDeployment

Per app: the `stack` row (its port), the `compose` file, its `backup` copy, the
file the containers were created from (`running`), and whether they run (`up`).
A file is a version and a port. `task` is the operation in progress and its next
step; there is one per app, which is what `StoreOperations` shows of the guard.

| Actions | Code |
|---|---|
| `PlanInstall`, `Materialize` | `runInstallOrRedeployOperation` up to the pull |
| `PlanUpdate`, `BackUp`, `WriteUpdate` | `runUpdateOperation` up to the pull |
| `Pull`, `Up`, `UpFails`, `Healthy` | compose pull, up and `waitForDeploymentHealth` |
| `Restore`, `RestoreFails`, `ReUp`, `DropBackup` | catch and finally of an update |
| `Record`, `Flag` | `upsertInstalledStack`, `updateStackUpdateStatus`, last patch |
| `PlanUninstall`, `Down`, `DownFails`, `Cleanup`, `DeleteRow` | `runUninstallOperation` |
| `PlanLifecycle`, `Act` | start, stop, restart |
| `Fails` | any other await of an operation that rejects |
| `Publish`, `ScheduledRestart`, `Exit`, `Crash` | a newer catalog, the unguarded task, containers that exit, the server dying |

`Faulty` says which of docker, database, files and the copy back may fail. A
failed `docker compose up` may have replaced or stopped containers
(`ComposeUpFails`). Docker refuses a port another running container publishes
(`PortFree`): that is how two apps disturb each other.

### MemoizeAsync

What the probe reads is abstracted to a version of the host, which grows with
every change. Requests read, or change the host, invalidate and then may read, as
`updateSystemPreferences`, `runDiskCommand` and the security settings do. A call of
`load` is `loading`, `fetched` (it has read the host), `kept` (its then-callback
has run), or `rejected`, and `over` after its finally-callback, when the promise
shared by all its callers settles.

### SourceRegistry

Each request is a task; a change of the registry is a job in the promise chain of
`runExclusive`, and its turn is three steps: `Load` the file, apply the mutator
(`Refuse` when it throws), `Persist` by renaming a temporary file. Reads made
outside the queue (`Read`, `AskList`) are steps of their own. `refresh` is
`AskRefresh`, `Read`, the job that marks the source as syncing, `Clear` and
`Extract` of the archive, the first snapshot (`Index`), and the job that marks it ready or
failed; `addStoreCatalogSource` is a job followed by the same steps. An archive may hold
its catalog at the top or in a directory of its own: `Extract` finds it
(`ensureCatalogRoot`), and the job that marks the source ready also writes that path
(`NewPath`). `dir` says where below the directory of a source a catalog lies; two syncs
that overlap can leave it in both places. A listing looks at the path it has read, or at
that of a listing under way that it joins (`LookJoins`, `snapshotRevalidations`); if it
finds no catalog there (`LookFails`) it enqueues the job that marks
the source as failed. `Spoil` and `Mend` are a person editing the file.
`promised` is a history variable: the list obtained by applying each written
change to the one before, whatever the code had loaded. The official source, which
load and persist always put back, and the migration of the old format are left
out.

`CatalogRegistry` is the abstract promise: each step adds one source with a URL
nobody else has, changes one field of one source, or removes one.

### LocalSharing

Each task is one request, and the id of the share if it adds one. `held` and
`waiters` are `operationLocks`: its keys, and who waits under each. An addition
locks its source folder, a removal the id of the share; the two kinds of key never
meet, so a removal can run while the addition of the same share does. `row[t]` is
the name in the row of share `t` (0: none), `mount[n]` the folders mounted on the
path of name `n`, the visible one last, `exported` the names Samba exports and
`dirs` the directories that exist. All folders have one base name, so names are
numbered by the attempt that found them free.

| Actions | Code |
|---|---|
| `AskAdd`, `AskRemove`, `Acquire`, `End` | `withOperationLock`: take the lock or queue, hand it to the first waiter |
| `Look`, `Reserve` | the look for a share of the folder, then one INSERT per attempt |
| `MakeDir`, `Probe`, `Mount` | `ensureShareMounted` |
| `Check`, `Export` | `ensureUsershareExported` and the answer |
| `StepFails` | any of these fails: the catch of `addLocalFolderShare` |
| `Read`, `Verify`, `Delete` | `removeLocalFolderShare`: the row, what is left when the release throws, the DELETE (also of a failed addition) |
| `AskExport` ... `Wipe` and their failures, `Throws` | `releaseShareExport` |
| `QueryFails`, `MountProbeMisled`, `ExportProbeMisled`, `Detach`, `Restart` | a rejected query, a probe whose command fails, a mount taken away, the server dying |

`wiped` and `tainted` are history variables. `wiped` holds the names whose
directory was removed recursively while a folder was mounted there. `tainted` holds
the names the code lost control of: their removal began before their addition ended
(`Read`), a failed addition could not be undone (`Throws`), a probe said no although
the folder was mounted, or the mount was taken away while being made. The positive
properties speak of all other names; that a name can get there without any fault is
the run `sharing_wipe`.

A command that fails has no effect in the model, `umount` and `umount -l` are one
step, and of a listing only the ids it shows remain. Validation of the requested
path, the mapping of errors to responses, and hosts without Samba are left out.

### OperationTracking

One app in one page. `server` is the status of each row, by the promises of
`StoreOperations`; `shown` is `operationsByApp`, `fetch` the snapshots asked for or on
their way, `wire` the events sent to the EventSource, `missing` the count of rows not
found.

| Action | Code |
|---|---|
| `Admit`, `Patch`, `PruneRow` | the server: an operation begins, moves on, its row is pruned |
| `AttachTracking` | `attachOperationTracking`: show, subscribe, fetch |
| `Poll`, `AnswerFetch`, `ReceiveSnapshot`, `FetchFails` | `syncOperationSnapshot` and its timer |
| `StreamConnects`, `ReceiveEvent`, `Break` | the EventSource, which the browser opens again, or not after a refusal |
| `Clear`, `Unmount` | the timer that takes an ended operation off the screen; leaving the page |

The page may be left at any moment. What the model shows beyond its property: a page
left during the first fetch goes on polling, and a late snapshot of an earlier
operation replaces the newer one on the screen until the next event.

### CatalogSnapshots

A source is lists and compose files; what a file holds is its version. `Look` answers
from the cache or begins the shared walk; `Collect`, `Stat`, `Compare`, `ReadList`,
`Parse` are `revalidateSourceSnapshot`, one await each; `Begin`, `Write`, `Rebuild`,
`SyncEnds`, `SyncFails` are a sync, which writes file by file in any order and then takes
a walk of its own; `Age` and `EntryExpires` are the two time limits of an entry. A walk that
began before a sync may put the old snapshot back for thirty seconds (`outrun`), and an
archive that restores the old times can hide a mixed snapshot until the entry expires:
the property says exactly that.

### NetworkStorage

One mount path and the shares whose names lead to it. `record` is the row, `mounts` what
is mounted on the path, the visible one last. Requests add, mount, unmount and remove;
the watcher starts with the first route that is loaded (`Visit`) and ticks for ever.
Every probe may take a failing command for "not mounted" (`Probe`), every command and
query may fail, the host may restart (`HostReboots`). `blame` remembers a probe that was
wrong, a query that failed, and a change under a request at work: nothing is locked, so
with one of these a share can lose its row, its mount, or its files, which
`removeShare` deletes recursively after a probe. The property says that nothing else
does.

### FileManager

Items are folders, or contents of files; where an item lies is its folder and its label,
and `<<"a", 2>>` is the label `a (2)`. Each request looks at the tree and chooses its
target (`LookToMake`, `Open`, `LookToPaste`, `LookToRename`, `LookToTrash`,
`LookToRestore`, `LookToDelete`, `LookToEmpty`), and acts one await later on the paths it
chose, whatever lies there then (`Make`, `Compare` and `Save`, `Replace` with `Move` or
`Copy`, `Unstar` and `Star`, `Record`, `RemoveEntry` and `ForgetRow`, `EmptyOne` and
`ForgetAll`). Removing or copying a folder takes all that lies in it at any depth (`Within`).
The requests that work on the trash refuse a path that is not in it, and moving to the trash
one that is (`InBin`).
`origin` are the rows of the trash, `culprits` the requests that did away with an item
nobody had agreed to, `surprised` those under which another changed the tree.

Nothing is locked, so `FilesAreKept` must excuse requests that were surprised. It does
not excuse creating, which the exclusive flag protects, and it names one loss without any
other request: pasting something out of a folder over that folder removes both
(`service.ts:1025`; the check that would refuse it comes after the removal). Two moves to
the trash in the same instant choose one name, uploads write over what was created
meanwhile, emptying deletes all rows at its end, and a crash between rename and row
leaves an entry that cannot be restored: those are the exceptions of `TrashHasRows`, and
two more, which need no other request. Pasting, renaming and creating accept paths in the
trash, and write no row. And deleting for good accepts the trash itself (`assertTrashPath`):
its entries go and their rows stay (`LookToClear`, `ClearTrash`), until the next request
that resolves a path in the trash makes the directory again (`MissesTrash`, `Remake`); the
property then still asks that every entry has its row. Renaming, moving and copying the
trash itself is accepted too and not modelled. `pruneEmptyAncestors` is left out: it calls
`rm` without `recursive`, which refuses a directory, so it removes nothing.

### ScheduledTasks

`row` is the table; the next run is the expression it was computed from and whether its
time has come. `Fire`, `GetDueTasks`, `NextBatch`, `TickEnds` are a tick, of which several
overlap; `Start`, `Finish`, `RunFails` are `runScheduledTask`, by a tick or by hand;
`EditRead` and `EditWrite` are an edit. `astray` are the tasks whose schedule was last
written from an outdated row. What the model shows beyond the properties:
`MAX_CONCURRENT_TASKS` bounds one tick's batch and not the tasks under way; a tick that
waited runs a task a second time, or one disabled meanwhile; an expression
without a next run keeps the old time, which is due at every tick.

### BackupRestore

`live` is what the system holds, by part: database, data, stacks, store registry. The last two
are directories outside the data root, and a version may lack them (`has`): a backup archives
those it found (`members`), and a restore replaces those its archive has (`ClearAside`,
`CopyBackAside`) and leaves the others where they are. A backup (`Begin`, `Dump`, `CopyAside`,
`Pack`, `WriteManifest`, `Prune`) is one of a request or of the timer, which outlives the
service. A restore is the script of `buildRestoreShellCommand`, a step per command, from
`Prepare` to `Reboot`. A command that fails brings the trap (`StepFails`, then `Unmask`,
`StartService`, `RestartStacks`); one followed by `|| true` does not (`FailsQuietly`: the stop,
the mask, the stacks, the start in the trap); and the reboot comes after `trap - ERR`
(`RebootFails`). The mask is made with `--runtime` and undone without, so `Unmask` may leave
it. Each of these may fail, one of them in a behaviour (`MaxOutages`), or the power may be cut
at any step (`PowerCut`); a `systemd-run` that refuses is a restore never asked for.

`excuse` names what the properties must forgive: a restore cut off amid the replacement, or
crossed by a change (`cut`), two restores at once (`overlap`), the power (`power`), a service
that the script's last means did not bring back (`stranded`: reboot, unmask or start), and
stacks that docker did not raise (`unraised`). Ids have the precision of a second, archives
without a manifest are never pruned, and a power cut after `docker compose down` leaves the
stacks down.

### TwoFactor

`enabled`, `secret`, `codes` are the columns of one user, `version` which request wrote the
codes, as the compare-and-swap sees it. `SetupRead`/`SetupStore`,
`VerifyRead`/`VerifyPersist`/`Answer`, `DisableRead`/`DisableClear`/`DisableRevoke`,
`LoginRead`/`Consume`/`Reload`/`OpenSession` are the requests; `Forget` the replay guard
expiring. A code typed is one that was handed out. A setup that crosses a verification
enables a secret nobody has confirmed, and a disabling that does leaves the factor on
with no secret: `SecretWasProven` holds but for these (`crossed`).

### FirstAccount

`AskToRegister` and `CreateUser` are the check and the insert of the registration, `Login`
and `Logout` the session. `UseCached`, `LookUp`, `Count`, `LookedUp`, `LookupFails` are
`hasUsersInDb` and `lookUpHasUsers`: the answer is remembered for a few seconds and the
lookup shared. Two overlapping first registrations both pass the check, and a remembered
"no" survives the first registration until it lapses; once a "yes" is known nobody is sent
back to register.

### NetworkEvents, SystemUpdate, TerminalSessions

`NetworkEvents`: `handle` is the socket the bridge would destroy, `socket` what each one is
at; an error or a close is heard after it happened, also of a socket given up. A late
close clears the handle of its successor, so that two streams may be open; subscribers
are heard all the same.

`SystemUpdate`: `latest`, `valid` and `backoff` are the cache and the failed check,
`sharing` the call in flight; "Check now" never joins. An older lookup that ends late may
overwrite a newer answer for an hour. A page is never told an error once a version is known.

`TerminalSessions`: `Connect`, `Attach` (to the host or a container, with the fall-back from
bash to sh to the host), `TimesOut`, `Exit`, `Close`. A process that is killed reports its
exit later, when its connection may have another shell, and only the shell a connection
is attached to is heeded (`Heeds`).

### ServerRecovery, DesktopWindows, WallpaperFade

`ServerRecovery` is one desktop: `phase`, `probing`, `probe`, `retry` of
`useServerConnection`; `action`, `loop`, `stale`, `finishing` of `useRebootRecovery`; and the
metrics stream, whose snapshots name the process of the server. The server goes away and
comes back as a new process or the same; another tab may clear the persisted action, or make
a new state of it by any storage event (`OtherTab`); a cancelled loop may still wait for
`/api/auth/me`. A power action begun while a probe recovers (`crossed`) can leave the
"restored" screen standing. `Reload` asks nobody: the timer of `useServerConnection` reloads
1.2 seconds after the answers of the server, also when it has gone again since. What the tab
then shows (`tab`) is the error page of the browser, on which nothing of Homeio runs
(`Shown`), and only the user can load the desktop again.

`DesktopWindows` has the lists of `desktop-shell.tsx` and the timer of each closing window,
which focuses the window it chose when it was set; `WallpaperFade` the effect, the image on
its way, the frame and the final timer of each transition.

## Runs, bounds and fairness

| Run | Specification | Checks | States |
|---|---|---|---|
| `operations_pair` | `FairSpec` | two operations of one app, with a fault, a progress tick and a restart: announced and stored outcome, every operation ends, interrupted rows closed | 133,186 |
| `operations` | `OperationsSpec` | operations with their streams: one followed by two clients, two of one app, or three that meet the limit: no missed end, and the refinement of `OperationLifecycle` | 279,695 |
| `operations_guard_leak` | `Spec` | *violated*: an app in the guard always has an operation that will release it | 29 |
| `stream_late_tick` | `FairStreamSpec` | *violated*: every followed operation's stream ends | 3,194 |
| `deployment_neighbour` | `FairSpec` | every operation of one app beside installs of another: rollback, success, uninstall, termination | 169,545 |
| `deployment_noop` | `Spec` | *violated*: a successful update delivers | 493 |
| `registry` | `FairSpec` | two requests on three sources with two faults: no lost change, refinement of `CatalogRegistry`, sync and listing, every change answered | 163,864 |
| `sharing` | `FairSpec` | three requests, three folders, one fault of any kind: mounts have rows, nothing emptied, additions complete, every waiter answered | 308,132 |
| `sharing_wipe` | `Spec` | *violated*: the exported directory is never removed while mounted | 3,916 |
| `services` | `ServicesSpec` | scheduled tasks, network storage, backups, files, two-factor: one of them in each behaviour | 239,378 |
| `desktop` | `DesktopSpec` | a shared cache, tracking, terminals, the bridge, snapshots, the update check, the proxy, recovery, windows, wallpaper: one of them in each behaviour | 154,921 |
| `update_reload` | `RecoverySpec` | *violated*: the recovery of an update ends with a reload | 171 |

`MCServices` and `MCDesktop` choose at the start which component a behaviour exercises
(`part`); the variables of the others stay as they were. That is one run for components
that share nothing: their interleaving would show nothing, and each is explored in full.

Bounds, and why they are enough to be interesting:

- `MaxSteps`, `MaxTicks`: patches and ticks per operation. One of each lets a
  progress patch overlap with every later step, which is the hazard; more only
  repeat it.
- `MaxFaults`, `MaxRestarts`, `MaxCrashes`, `MaxMishaps`, `MaxTroubles`, `MaxOutages`,
  `MaxFailures`, `MaxLosses`: one failing call and one restart at any step. In
  `registry` two faults, so that a write can fail while the file is unreadable or after a
  restart; in the update check two failures, one of a shared call and one of the button's;
  two outages of the server, so that it can go away amid a recovery.
- `MaxVersion = 1`: an old and a new image. `Port = {1}`: two apps always compete.
- In `operations`, of four operations one is followed with patches of its body, two are of
  one app, or three meet the limit of two; the last two without patches.
- In `registry`, two requests are enough for each pair of operations to overlap; the
  theorems cover any number.
- In `sharing`, the first request may add one folder, the second one of two, the third
  one of three, or each may remove a share: since folders differ by their names only,
  that is every choice of three requests up to renaming. `MaxName = 2` makes two
  additions compete for a name and a third run out of names. The theorems cover any
  number of each, and of faults.
- In `services`: two tasks, two overlapping ticks and a batch of one, so that one task
  waits in a list another tick has read; two shares for one path, two requests and the
  watcher; two backups, one by the timer, two restores and two seconds, so that ids may
  collide, with `Retention = 1`, so that every backup prunes, and with stacks that go and a
  store registry that is new, or both there in every version; two requests on files, of
  twenty-three kinds that meet on two names, from three trees (two files; one in a folder with
  one of its name in the trash; two in a folder); two setups, two verifications, a
  disabling and two logins, not all in one behaviour (`enrolling`, `logging in`).
- In `desktop`: three calls of a cache allow one stale call, one current call and one that
  follows a failure; one operation with two fetches under way, or two with one each; two
  connections of one user who may have one, and four processes; two browsers and four
  sockets not closed yet; two files of a source, two versions, two syncs of the official
  source or one of another; two pages and the button; two visitors; three windows and five
  gestures; three wallpapers and three choices.
- The violated runs stop at the first violation: their counts are the states up to it.
- `CHECK_DEADLOCK FALSE` everywhere: requests come a bounded number of times, and a
  server with no more requests rightly stops.

Fairness. What is under way goes on, and nothing else is assumed: no request, no user,
no fault, no new version has to come.

- `StoreOperations` assumes that every await of a handler settles: queries by the
  timeouts of the pool, docker by `DOCKER_COMPOSE_TIMEOUT_MS`, the health check by its
  deadline, the grace timer by the event loop. It assumes nothing about progress ticks,
  pruning, faults or restarts; of the sweep that it is executed, not that it succeeds.
  `OperationStream` adds that a request that has read its row starts.
- `AppDeployment` assumes that some step of an operation is taken while one can be
  (`WF(Operation(a))`): an operation that cannot proceed by a success proceeds by a failure.
- `SourceRegistry` assumes only that a job that has its turn takes its step.
- `LocalSharing` assumes that a request with its lock takes its next step, as a success or
  a failure: commands have a timeout of 15 seconds, queries that of the pool. Requests that
  wait are owed nothing but what the lock gives them. `NetworkStorage` assumes the same of
  its requests, and that the watcher's interval fires for ever.
- `ScheduledTasks`: the interval fires, and a run settles. `BackupRestore`: the shell goes
  on to its next command.
- `OperationTracking`: the operation moves on (`AdmittedEnds`), fetches are answered, timers
  fire. Nothing forces the stream to connect or to deliver: polling must be enough.
- `NetworkEvents`: the timer fires and sockets report what has happened to them.
- `ServerRecovery`: timers fire, requests end, the browser retries its stream, and the
  server comes back after each outage.
- `DesktopWindows`, `WallpaperFade`: timers fire, images load or fail, effects run.

Some properties say less than one would first write, and why is instructive:

- `GuardAccounted` counts the apps of `stuck` operations: they do hold the guard.
  That they should not is `GuardHasOwner`, which the code violates.
- `EventMatchesRow` and `NoMissedEnd` exclude operations with progress ticks,
  since a late tick overwrites both row and event (see `StreamEnds` below).
- `FailedUpdateRestores` names two kinds of error after which the file is not the one the
  update found. The copy back may itself fail; the code then deletes the backup, the only
  copy of the working file (`operations.ts:925`). And the row, the update status and the last
  patch are written after the `try` (819-951): if one of them fails, the operation ends
  with `error` though the update was done, and what is required then is that the new file is
  in place and the containers are its own.
- `SyncHasLastWord` names the listing that looks at a path read before a sync moved the
  catalog of the source to another one: it finds nothing there and writes `error` over
  `ready`, without any fault.
- `SuccessDeploys` says nothing of an update that found nothing to change.
- `InterruptedResolved` allows a failed sweep, which is logged and not retried.
- `MountsHaveRows`, `WipedOnlyWhenTainted` and `SharedAsAsked` exclude tainted names.
- `SharesKeepTheirFiles`, `FilesAreKept`, `TrashHasRows`, `SecretWasProven`,
  `ScheduleFollowsEdit`, `RestoreIsWhole` each name the requests that crossed, because the
  code has no lock there: what they show is that nothing but the named crossing can do harm.
- `RestoreIsWhole` leaves out a directory that the backup does not have: stacks or store
  registry then stay as they were beside a restored database, by design
  (`backup-service.ts:558`), and the tests expect it (`backup-service.test.ts:400`).
- `TrashHasRows` asks for no entry behind a row once the trash itself was deleted, and for
  nothing after a request about paths in the trash that does not go by its rows.
- `ServiceComesBack` lets the service stay away once the reboot, the unmasking or the start
  in the trap has failed, which nothing retries; and the stacks once docker has failed to
  raise them, the power was cut, or two restores overlapped.
- `DesktopComesBack` names a power action begun amid a recovery, and a server that goes away
  again in the hold before the unconditional reload.

## Proofs

Each theorem holds for all values of the constants that satisfy the assumption of its
component (`ConstantsAssumption`, `DeploymentAssumption`, `MemoAssumption`,
`RegistryAssumption`, `SharingAssumption`, `TwoFactorAssumption`, `FirstAccountAssumption`,
`TerminalSessionsAssumption`, `SystemUpdateAssumption`, `CatalogSnapshotsAssumption`,
`ScheduledTasksAssumption`, `BackupRestoreAssumption`, `NetworkStorageAssumption`,
`FileManagerAssumption`, `OperationTrackingAssumption`, `NetworkEventsAssumption`,
`ServerRecoveryAssumption`, `DesktopWindowsAssumption`, `WallpaperAssumption`: finite sets
where cardinalities are taken, bounds in `Nat`, null values distinct from real ones, kinds
of requests and of processes that do not overlap). Those of the components in `services` and
`desktop` are hypotheses of their theorems, and TLC evaluates them where the runs assume
them (`ServicesAssumption`, `DesktopAssumption`). Where a specification has faults or
restarts, the theorems hold with any number of them at any step, unless the property itself
excludes them.

**The composed runs (`ServicesProofs`, `DesktopProofs`).** `ServicesAreTheirParts` and
`DesktopIsItsParts` show that a behaviour of `ServicesSpec` or `DesktopSpec` is one of every
component in it, by that component's own specification: the run chooses which part moves and
adds nothing to what the part may do. So what is proved of a component holds of the run, and
`ServicesKeepTheirPromises` and `DesktopKeepsItsPromises` state it: all invariants of the two
cfg files, `TypesOK` among them, for any values of the constants that `ServicesAssumption` or
`DesktopAssumption` allows.

**Operations (`OperationsProofs`).** `TypeCorrect` is inductive by itself.
`NeverTwoOfOneApp` and `GuardExact` need each other: that the guard holds exactly
the apps of live and stuck operations shows that an admission finds no live
operation of its app, and exclusion shows that a release takes out no one else's
entry. `NeverOverLimit` follows because, by exclusion, live operations map
one-to-one into the guard. `ImplementsLifecycle` maps each action to `Accept`,
`End`, `EndAll` or a stutter, using both. `AnnouncedIsStored` is strengthened with
what the row holds at each phase of an operation without ticks, and
`QuietAfterEnd` is an action property of the same invariant.

**Streams (`OperationsProofs`).** They reuse the invariants of the operations, every
step of the streams being a step of the operations or none. `SuccessInv` adds that without
ticks a row says success only after its own final patch, and that from then until the grace
window closes the cached event says so too. `WatchInv` then says of a client: whoever
follows is subscribed, and a request that still holds the row of an operation long over holds
its outcome. `NobodyMissesTheEnd` follows: the grace window of an operation cannot close under
a request between its read and its subscription, which is the one thing the model takes from
the length of that window (a minute).

**Deployments (`AppDeploymentProofs`).** The invariant says for each step of an operation
what the steps before it have made certain of (`DeployInv`, `UpdateInv`, `UninstallInv`): an
install's file is what it wants once written and its containers are of that file once up; an
update keeps the copy of the file it found as long as a step may fail; an uninstall that
deletes the row has nothing else left. Nothing another app does, no scheduled restart and no
exit of a container touches these, and an operation at work has no outcome (`AppInv`), so
that a crash does not count as its end. `FailedUpdatesRestore`, `SuccessesDeploy` and
`UninstallsAreClean` are action properties of that invariant.

**Shared calls (`CacheProofs`).** The inductive invariant says that the call in flight
belongs to the current generation and still runs; that conversely every running
call of the current generation is the one in flight; and that the cached value and
whatever a call of the current generation has fetched are no older than the last
invalidation. `AnswersAreFresh` adds that a waiting request waits for a call that
has read, or will read, the host at or after the version announced when it asked.

**Registry (`SourceRegistryProofs`).** The heart is `TurnInv`: the only job that may have
loaded the list is the first of the queue, and what it has loaded is still what the file
holds. So `Persist` writes the mutator of the current file, which gives `ChangesAsAsked`;
and with `AddInv` (an addition in the queue is the only one of its id, which no source has
yet) each write is one step of `CatalogRegistry`, which gives `ImplementsRegistry`.
`SyncsHaveLastWord` needs the order of the queue (`LineInv`: it holds each request that
waits, once). Without faults, once no sync of a source is at work (`Quiet`), whoever still
waits to write an error, or a path that leads nowhere, has a request behind it in the queue
that will write `ready` and a path that leads to a catalog; the one exception are alarms
about paths that lead nowhere (`WordInv`): an alarm is only raised when the catalog is not
at the path it is about, and the sync that puts it there enters the queue later.

**Local sharing (`LocalSharingProofs`).** `OneHolder` needs the queue: those who wait stand
in the queue of their key, once each (`QueueInv`), so the one who is woken takes the lock
over from the one who leaves. `SourceFree` follows, because only an addition of the same
folder could insert a row for it, and would hold the same lock. For the mounts, `OwnInv`
says what a request at work on an untainted name has made certain of: its share has the row
of that name, a removal runs only after the addition has ended, and what is mounted is
nothing, or its own folder once, depending on where it stands. Lemma `Alone` (two requests
at work on one untainted name are one, since both lead to the one row of that name) shows
that no other request disturbs it. With it `MountsHaveRows`, `WipedOnlyWhenTainted` and the
action property `SharedAsAsked` hold.

**Second factor (`ServicesProofs`).** The code has no transaction: it reads the column of
backup codes and writes it if it still is what was read. That is enough because every value
of the column is written once (`VersionInv`): a login that finds the value it read finds the
codes it read, so it takes its own code out of them, and no other login that was let in has
used that one (`CodeInv` keeps the codes in the row and those gone apart; `LoginInv` gives
`BackupCodesOpenOnce`). `CodesGivenWork` and `EnabledSecretsAreProven` need the same
invariant for enrolments that cross.

**Terminals (`DesktopProofs`).** The invariant relates the three tables of the code: a
process that runs is the one its connection is attached to, in the place that connection
asked for last (`ProcessInv`), and a connection is counted exactly from its acceptance to
its close event (`ConnectionInv`). Spawning needs a connection with nothing that runs
(`Free`), which an attach gets by killing, and an exit by being that of the attached
process: that is what the check `Heeds` is for. The limit holds because the count and its
increase are one turn.

**Files (`FilesProofs`).** `FilesAreKept` needs to know of each request what it has made
certain of while it waits: that its target is free, that what it will write over or remove is
among what it agreed to (`PreparedInv`), and what kind of request stands at which step
(`WorkInv`). Only another request can take that away, and then the request counts as
surprised. Its heart is `WellFormed`: an item is at one place, and a place holds one item, so
that a path leads to one tree. The lemmas of the first half say what cutting a tree out and
putting one in does to the trees at other paths; they speak of any tree `t` (`AtIn`, `TreeIn`)
so that they can be cited before and after a step. `TrashHasRows` adds the same for the trash
(`TrashPreparedInv`), where a request outside the trash aims (`AimInv`), and `Rows`, which is
weaker than the property exactly while a request stands between the rename and its row, and
in one half for good once the trash itself was deleted (`ClearsKeepRows`). Both
invariants were checked by TLC as well, on the states of two requests that `services` visits.

**Backups (`ServicesProofs`).** The property is about the end of a restore; the invariant
follows it through the script: once a part is replaced it is that of the backup, if the backup
has it (`RestoreInv`, `Given`, by the steps in `Copied` and `Settled`), and what is unpacked or
in an archive is of one moment unless its backup met a restore or another backup of its second
(`SavingInv`, `spoiled`). `NewestCanBeRestored` needs `IdsInv`: no two backups that count share
an id, and one not yet listed is not pruned, because pruning goes by manifests.

**Scheduled tasks (`ServicesProofs`).** What a run or an edit has read of the expression is
still in the row, or the task is counted as `astray` (`ReadInv`); a task that is created has
no earlier run to write into it (`FreshInv`).

**Network storage (`ServicesProofs`).** A request at work is about a share (`AboutInv`), and
without a wrong probe or a crossing at most one thing is mounted, and nothing while a
request stands before the recursive removal or before a mount (`PathInv`).

**Update check (`CacheProofs`).** A page always waits for the call of a page, which still runs
(`CallInv`); and while nothing valid is remembered, what that call falls back to is what is
remembered (`FallbackInv`), so that a version once known is not forgotten by a late failure.

**Snapshots (`CacheProofs`).** What a walk has read of a file is at least as new as the
signature it is kept under, and no newer than the file (`OrderInv`, for the official source,
whose files only get newer): a signature that still fits therefore has the file's contents.
After a sync, the entry and every walk hold what the files hold, unless a walk was still under
way when the sync built its snapshot (`FreshInv`, `outrun`).

**Accounts (`DesktopProofs`).** Only one lookup is under way at a time, and from the moment
an account was there from the start, or a "yes" is remembered, none holds a "no"
(`LookupInv`): the shared lookup is what keeps an older answer from being applied after a
newer one.

**What must go on.** Liveness stays with TLC: the prover knows no fairness. But what can go
wrong there by the order of awaits and callbacks is safety, and is proved for any number of
them: *whatever waits has something under way that will wake it*, and *each step of that brings
the end closer, and nothing takes it back*. What then remains of each liveness property is that
steps that can be taken are.

- `LostRowsAwaitSweep` (for `InterruptedResolved`): a row that a crash left active has the
  sweep before it, unless that failed, and no write or event of the old process on its way.
- `OperationsMoveOn` (for `OperationsEnd`): `StepsLeft` counts at most nine steps of an
  operation. Every one of its steps lowers it, and nobody else changes it but the end of the
  process.
- `TurnsCome` (for `JobsAnswered`): whoever waits is in line, and the first has a job to do.
  What is left of a wait (`Left`: two steps for each job before it) shrinks with every step of
  the queue, and no other step lengthens it.
- `NobodyIsForgotten` (for `EveryRequestEnds`): a held lock has a holder at work, which waits
  for no other lock, and whoever waits stands in the queue of a held lock. With `OneHolder`, no
  wake-up is lost and nobody waits in a circle.
- `TicksServeTheirTasks` (for `DueTaskStarts`): what a tick has taken over as due it starts or
  keeps, and every batch makes it less (`NoTaskDropped`). `TickInv` bounds the runs of a tick
  by `MAX_CONCURRENT_TASKS`. Here the set of tasks has to be finite, as it is in the code:
  otherwise a batch might never exhaust what is due.
- `MountsFollowRows` (for `RowIsMounted`): with nothing to blame, the path holds nothing or
  the share of its row, and whoever is at work is about that share: the watcher has only to
  mount it.
- `SomebodyBringsBack` (for `ServiceComesBack`): while the service is down or masked, a script
  is at a step from which it starts, unmasks or reboots, unless the last means have failed
  (`stranded`); while the stacks are down, at one from which it raises them, with the
  exceptions of the property. `RestoresGoForward` counts at most nineteen steps of a restore,
  seventeen of them of the script, of which nothing takes one back.

The others are about the browser and its bridge (`DesktopProofs`):

- `SomebodyListens`: with subscribers, the bridge has a live socket or its timer; and
  conversely it gives both up with the last subscriber. A late close of an old socket may take
  the handle, but it sets the timer (`BridgeGoesOn`).
- `FollowedIsPolled`, `ShownIsLetGo`: a followed operation has a fetch or the timer of the next
  one; one on the screen is followed or has the timer that removes it. `StreamInv` says when it
  has a stream: from the end of the first fetch until it is let go of (`TrackingGoesOn`).
- `DesktopGoesOn`: a desktop that lost its server probes or will, one that found it goes back,
  unless a power action began amid it; the loop runs exactly during a power action
  (`LoopFollowsAction`), which reloads at most once (`ReloadsInv`). `ProbingInv` strengthens
  this by what each answer of a probe finds the desktop to be.
- `OpenAsAsked`: on the desktop are the windows opened and not closed since, and those whose
  removal has its timer. Nothing is claimed of the focus: TLC shows it can be left with a
  window that is gone.
- `ChoiceIsAwaited`, `OverlayEnds`, `TransitionsAreEnough`: the last choice is shown, or its
  effect is due, or its transition is under way. `CostInv` counts what a choice can make stale
  (the wallpaper shown, the one drawn over it, the image on its way) and so shows that the
  bound of three transitions for every choice never stops one.

TLC checked these invariants before they were proved: on 133,186 states of the operations,
169,545 of the deployments, 163,864 of the registry, 308,132 of local sharing, 239,378 of
the services and 154,921 of the desktop.

Only model-checked: liveness itself (`AdmittedEnds`, `InterruptedResolved`,
`OperationsEnd`, `JobsAnswered`, `EveryRequestEnds`, `DueTaskStarts`, `RowIsMounted`,
`ServiceComesBack`, `TrackingEnds`, `EventsComeBack`, `DesktopComesBack`,
`DesktopAsAsked`), which is out of the prover's reach and of which the theorems above are the
safety half. Every invariant that a run checks is proved, and every property of steps.

## Where the code departs from what it says

Five runs end in a violation, each of something the repository states.

1. `GuardHasOwner`. `M/apps/operations.ts:1227`: "Always release the guard so
   future operations on this app can proceed." The first patch of an operation is
   outside the `try`. When that UPDATE is rejected, the `finally` never runs, and
   the app is refused with 409 until the server restarts.
2. `StreamEnds`. `doc/architecture.md:118`: a followed operation ends with
   `operation.completed` or `operation.failed`. A progress patch is not awaited:
   one still in flight when the operation ends sets row and cached event back to
   running, and a client that connects then waits for ever.
3. `UpdateDelivers`. `operations.test.ts:1051`: "treats update as no-op when
   installed images are already current". The comparison is of compose *files*:
   after a redeploy that wrote a newer file and failed to pull, an update finds
   nothing to do, succeeds, and leaves the old containers.
4. `NeverWipesMounted`. `M/files/local-sharing.ts:495`: "Safety guard: never remove
   the exported directory while it is still mounted." The guard and the recursive
   removal are two awaits, and an addition of the same share does not wait for the
   removal, as it holds a lock of the other kind. When its mount completes in
   between, the removal deletes the contents of the shared folder through the mount.
5. `UpdateReloads`. `useRebootRecovery.test.tsx:145`: "keeps the update overlay active
   until health and auth recover" expects one reload of the page (line 176). In the code
   clearing the persisted action tells the hook itself, React cancels its effect while the
   queries are awaited, and the test of `cancelled` in line 103 then skips the reload: the
   desktop goes on with the old build.

Further behaviour the models reach, about which the repository states nothing, beside
what the sections above mention:

- The un-awaited start-up sweep (`operations.ts:112`) may mark an operation of the new
  process, and emits nothing: a stream left open goes on waiting.
- An install that fails after `up` (`operations.ts:968`) leaves containers without a row,
  which an uninstall does not find; an uninstall cannot be repeated when the row survives
  the directory.
- A listing that read the path of a source before the sync that moves its catalog (the first
  one of an archive that nests it) fails on the path that is gone, and marks the source as
  failed after the sync has made it ready (`catalog.ts:509`, `:545`); listings then skip it
  until somebody syncs it again.
- The directory of a removed source comes back when its archive was being extracted.
- A subscription made after a stream has closed is never taken back
  (`stream/route.ts:106`): after an end that was the first event, the listener stays.
- Deleting the trash itself (`trash-service.ts:444`) removes every entry and no row. The rows
  stay, pointing at nothing, until the trash is emptied.
- A restore whose `systemctl reboot` fails (`backup-service.ts:577`) leaves the service stopped
  and masked, since the trap is gone by then. The trap unmasks without `--runtime` (535) what
  the script masked with it (547). The comment at 544-545, that the mask need not be undone
  because the restore ends with a reboot, is not true of the path through the trap.
- Stacks that go between the look of a backup and its copy fail the backup
  (`backup-service.ts:437`).
- A server that drops again within 1.2 seconds of its return leaves the desktop on the error
  page of the browser (`useServerConnection.ts:165`).
- Two requests to update between `list-units` and `systemd-run` both start
  (`update-service.ts:299`).

## What is not modelled

- Pure I/O, with no state of its own to keep consistent: Google Drive, USB listing, power,
  system information, docker statistics and logs, integrations, the D-Bus helper. Of the
  integrations one thing would be worth a model if this code owned the other side: the
  configuration of a Cloudflare tunnel is read, changed and written back, so that one of two
  exposures that overlap is lost, and exposing again under another name orphans the old
  route.
- Presentation: the other React components and hooks, the mobile app, the packages. They
  are most of the repository's lines.
- Data without control: environment merging, YAML rewriting, catalog mapping and search,
  percentages, messages, log records, passwords and tokens, CSS and layout.
- The installed-apps cache (`M/apps/service.ts:336`), which a listing begun before an
  invalidation may fill with what it read before: nothing acts on it.
- In modelled components: archives and moves between file systems in the file manager,
  attempts and lockouts of two-factor, discovery of network shares, the start of an update,
  which leaves this process.

## Plan

Done: the modules above, their runs, a theorem for the types of each component and for every
safety property the runs check, also of the composed runs, and the safety half of each
liveness property. Left, in order of importance:

1. `BackupRestore` composed with `AppDeployment`: a restore replaces the stacks under an
   operation at work.
2. `StoreOperations` composed with `AppDeployment`, so that what a handler does to the app and
   what it reports are steps of one behaviour.
3. The focus of windows: which of them it can be left with.
