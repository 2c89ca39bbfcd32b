------------------------------ MODULE BackupRestore ------------------------------
(***************************************************************************)
(* lib/server/modules/system/backup-service.ts: a backup packs a dump of   *)
(* the database, the stacks and the data root into an archive, then writes *)
(* its manifest and prunes the oldest ones; a restore hands a shell script *)
(* to systemd, which stops the service, replaces everything and reboots.   *)
(* Backups are started by requests, by scheduled tasks and by a timer of   *)
(* systemd that outlives the service. Nothing is locked.                   *)
(*                                                                         *)
(* Contents are versions: what is restored together was saved together.    *)
(* The stacks and the store registry are directories outside the data root *)
(* that a version may lack: they are archived if they are there, and put   *)
(* back if the archive has them. The backups lie at the top of the data    *)
(* root.                                                                   *)
(***************************************************************************)
EXTENDS Naturals, Sequences, FiniteSets

CONSTANTS
    Backups,      \* bound: runs of a backup, each made once
    Timed,        \* those started by the timer
    Restores,     \* bound: restores asked for
    Seconds,      \* bound: ids of backups have the precision of a second
    Retention,    \* retentionCount
    MaxChanges, MaxOutages,   \* bounds: changes of the contents; failures and power cuts
    Layouts,      \* bound: which of the optional directories the versions have
    Absent, Broken, Lost

Optional == {"stacks", "store"}
Part     == {"database", "data"} \cup Optional
Id       == 1..Seconds
Content  == (0..MaxChanges) \cup {Lost}
Contents == [Part -> Content]

BackupRestoreAssumption ==
    /\ Timed \subseteq Backups
    /\ Seconds \in Nat \ {0} /\ Retention \in Nat \ {0}
    /\ MaxChanges \in Nat /\ MaxOutages \in Nat
    /\ Layouts \subseteq [0..MaxChanges -> SUBSET Optional]
    /\ Lost \notin 0..MaxChanges /\ Absent # Broken /\ {Absent, Broken} \cap Contents = {}

VARIABLES
    has,          \* the optional directories of each version
    live,         \* contents of the system
    newest,       \* the last version made
    clock,
    archive,      \* of each id: none, cut short, or the contents it holds
    listing,      \* ids with a manifest
    unpacked,     \* of each id: contents of /var/tmp/homeio-restore-<id>
    serviceUp, masked,
    stacksUp,     \* whether the stacks run that are there
    bstep, bid,   \* where a backup stands, and its id
    members,      \* the optional directories it found
    gathered,     \* what it has copied so far
    rstep, rid,   \* where a restore stands, and the backup it was asked for
    ever,         \* ids as their manifests were written, the newest first
    spoiled,      \* history: ids whose contents are not of one moment, or were disturbed
    excuse,       \* history: what went wrong, some of Excuse
    outages

backupVars == <<has, live, newest, clock, archive, listing, unpacked, serviceUp, masked, stacksUp,
                bstep, bid, members, gathered, rstep, rid, ever, spoiled, excuse, outages>>
system   == <<has, live, newest, serviceUp, masked, stacksUp>>
store    == <<archive, listing, ever>>
backups  == <<bstep, bid, members, gathered>>
restores == <<rstep, rid, unpacked>>

Excuse   == {"cut", "overlap", "power", "stranded", "unraised"}
\* What the script does before the data root is touched, while it replaces the contents,
\* and after.
Before   == {"preparing", "stopping", "masking", "downing", "unpacking"}
Amid     == {"wiping", "copying", "clearing", "replacing", "emptying", "refilling", "loading"}
After    == {"tidying", "raising", "rebooting"}
Rescue   == {"unmasking", "starting", "rescuing"}
Script   == Before \cup Amid \cup After \cup Rescue

\* Everything as it was at one moment.
Version(v) == [p \in Part |-> IF p \in Optional \ has[v] THEN Lost ELSE v]

BackupTypeOK ==
    /\ has \in Layouts
    /\ live \in Contents /\ newest \in 0..MaxChanges /\ clock \in Id
    /\ archive \in [Id -> Contents \cup {Absent, Broken}]
    /\ listing \subseteq Id /\ ever \in Seq(Id) /\ spoiled \subseteq Id
    /\ unpacked \in [Id -> Contents \cup {Absent}]
    /\ serviceUp \in BOOLEAN /\ masked \in BOOLEAN /\ stacksUp \in BOOLEAN
    /\ bstep \in [Backups -> {"idle", "dumping", "packing", "listing", "pruning", "done"} \cup Optional]
    /\ bid \in [Backups -> Id] /\ members \in [Backups -> SUBSET Optional]
    /\ gathered \in [Backups -> Contents]
    /\ rstep \in [Restores -> {"idle", "asking", "done"} \cup Script]
    /\ rid \in [Restores -> Id]
    /\ excuse \subseteq Excuse /\ outages \in 0..MaxOutages

BackupInit ==
    /\ has \in Layouts /\ live = Version(0) /\ newest = 0 /\ clock = 1
    /\ archive = [i \in Id |-> Absent] /\ listing = {} /\ ever = <<>>
    /\ unpacked = [i \in Id |-> Absent]
    /\ serviceUp = TRUE /\ masked = FALSE /\ stacksUp = TRUE
    /\ bstep = [b \in Backups |-> "idle"] /\ bid = [b \in Backups |-> 1]
    /\ members = [b \in Backups |-> {}]
    /\ gathered = [b \in Backups |-> [p \in Part |-> Lost]]
    /\ rstep = [r \in Restores |-> "idle"] /\ rid = [r \in Restores |-> 1]
    /\ spoiled = {} /\ excuse = {} /\ outages = 0

-------------------------------------------------------------------------------

Outage == outages < MaxOutages /\ outages' = outages + 1

Saving(b)    == bstep[b] \notin {"idle", "done"}
Restoring(r) == rstep[r] \in Script
SavedNow     == {bid[b] : b \in {b \in Backups : Saving(b)}}

\* The user or an application changes the contents; stacks that are new run.
Change ==
    /\ newest < MaxChanges
    /\ newest' = newest + 1
    /\ live' = Version(newest')
    /\ stacksUp' = (stacksUp \/ live.stacks = Lost)
    /\ spoiled' = spoiled \cup SavedNow
    /\ excuse' = IF \E r \in Restores : rstep[r] \in Amid THEN excuse \cup {"cut"} ELSE excuse
    /\ UNCHANGED <<has, clock, serviceUp, masked, store, backups, restores, outages>>

SecondPasses ==
    /\ clock < Seconds
    /\ clock' = clock + 1
    /\ UNCHANGED <<system, store, backups, restores, spoiled, excuse, outages>>

-------------------------------------------------------------------------------
(* runSystemBackupNow *)

\* A backup whose id is taken, or that runs beside a restore, is not of one piece.
Begin(b) ==
    /\ bstep[b] = "idle" /\ (serviceUp \/ b \in Timed)
    /\ bstep' = [bstep EXCEPT ![b] = "dumping"]
    /\ bid' = [bid EXCEPT ![b] = clock]
    /\ members' = [members EXCEPT ![b] = {p \in Optional : live[p] # Lost}]
    /\ spoiled' = IF archive[clock] # Absent \/ clock \in SavedNow \/ \E r \in Restores : Restoring(r)
                  THEN spoiled \cup {clock} ELSE spoiled
    /\ UNCHANGED <<system, clock, store, gathered, restores, excuse, outages>>

Dump(b) ==
    /\ bstep[b] = "dumping"
    /\ bstep' = [bstep EXCEPT ![b] = "stacks"]
    /\ gathered' = [gathered EXCEPT ![b].database = live.database]
    /\ UNCHANGED <<system, clock, store, bid, members, restores, spoiled, excuse, outages>>

Gone(b) == bstep[b] \in members[b] /\ live[bstep[b]] = Lost

\* The stacks, then the store registry, are copied if they were there; tar opens the archive.
CopyAside(b) ==
    /\ bstep[b] \in Optional /\ ~Gone(b)
    /\ bstep' = [bstep EXCEPT ![b] = IF @ = "stacks" THEN "store" ELSE "packing"]
    /\ gathered' = [gathered EXCEPT ![b][bstep[b]] =
                       IF bstep[b] \in members[b] THEN live[bstep[b]] ELSE Lost]
    /\ archive' = IF bstep[b] = "stacks" THEN archive ELSE [archive EXCEPT ![bid[b]] = Broken]
    /\ UNCHANGED <<system, clock, listing, ever, bid, members, restores, spoiled, excuse, outages>>

Pack(b) ==
    /\ bstep[b] = "packing"
    /\ bstep' = [bstep EXCEPT ![b] = "listing"]
    /\ archive' = [archive EXCEPT ![bid[b]] = [gathered[b] EXCEPT !.data = live.data]]
    /\ gathered' = [gathered EXCEPT ![b] = [p \in Part |-> Lost]]
    /\ UNCHANGED <<system, clock, listing, ever, bid, members, restores, spoiled, excuse, outages>>

WriteManifest(b) ==
    /\ bstep[b] = "listing"
    /\ bstep' = [bstep EXCEPT ![b] = "pruning"]
    /\ listing' = listing \cup {bid[b]}
    /\ ever' = <<bid[b]>> \o ever
    /\ UNCHANGED <<system, clock, archive, bid, members, gathered, restores, spoiled, excuse, outages>>

\* The manifests written after the last one of an id: listSystemBackups sorts by createdAt.
Newer(id) ==
    {i \in listing : \E n \in 1..Len(ever) : ever[n] = i /\ \A m \in 1..n : ever[m] # id}

Excess == {id \in listing : Cardinality(Newer(id)) >= Retention}

Prune(b) ==
    /\ bstep[b] = "pruning"
    /\ bstep' = [bstep EXCEPT ![b] = "done"]
    /\ archive' = [i \in Id |-> IF i \in Excess THEN Absent ELSE archive[i]]
    /\ listing' = listing \ Excess
    /\ UNCHANGED <<system, clock, ever, bid, members, gathered, restores, spoiled, excuse, outages>>

\* An archive or a manifest that cannot be removed, or the end of the process, leaves
\* the one or the other.
PruneHalf(b) ==
    /\ bstep[b] = "pruning" /\ Outage
    /\ bstep' = [bstep EXCEPT ![b] = "done"]
    /\ \E archives \in SUBSET Excess, manifests \in SUBSET Excess :
          /\ archive' = [i \in Id |-> IF i \in archives THEN Absent ELSE archive[i]]
          /\ listing' = listing \ manifests
    /\ spoiled' = spoiled \cup Excess
    /\ UNCHANGED <<system, clock, ever, bid, members, gathered, restores, excuse>>

\* What is left of the archive stays, without a manifest. A directory that has gone since
\* it was found cannot be copied.
BackupFails(b) ==
    /\ Saving(b) /\ bstep[b] # "pruning"
    /\ Outage \/ (Gone(b) /\ UNCHANGED outages)
    /\ bstep' = [bstep EXCEPT ![b] = "done"]
    /\ UNCHANGED <<system, clock, store, bid, members, gathered, restores, spoiled, excuse>>

-------------------------------------------------------------------------------
(* scheduleSystemBackupRestore *)

GoOn(r, step) == rstep' = [rstep EXCEPT ![r] = step]

\* Mutant: the trap starts the service without unmasking it.
BadFails(r) ==
    /\ GoOn(r, "starting")
    /\ excuse' = IF rstep[r] \in Amid THEN excuse \cup {"cut"} ELSE excuse

\* The script's trap takes over: the directories are as the step left them.
Fails(r) ==
    /\ GoOn(r, "unmasking")
    /\ excuse' = IF rstep[r] \in Amid THEN excuse \cup {"cut"} ELSE excuse

FindBackup(r) ==
    /\ rstep[r] = "idle" /\ serviceUp
    /\ \E i \in listing : rid' = [rid EXCEPT ![r] = i]
    /\ GoOn(r, "asking")
    /\ UNCHANGED <<system, clock, store, backups, unpacked, spoiled, excuse, outages>>

\* stat of the archive; systemd-run starts the script outside the service. Backups
\* under way will meet a system that is being replaced.
Schedule(r) ==
    /\ rstep[r] = "asking"
    /\ IF archive[rid[r]] = Absent
       THEN GoOn(r, "done") /\ UNCHANGED <<excuse, spoiled>>
       ELSE /\ GoOn(r, "preparing")
            /\ excuse' = IF \E q \in Restores \ {r} : Restoring(q)
                         THEN excuse \cup {"overlap"} ELSE excuse
            /\ spoiled' = spoiled \cup SavedNow
    /\ UNCHANGED <<system, clock, store, backups, rid, unpacked, outages>>

-------------------------------------------------------------------------------
(* The script of buildRestoreShellCommand *)

Prepare(r) ==
    /\ rstep[r] = "preparing"
    /\ unpacked' = [unpacked EXCEPT ![rid[r]] = Absent]
    /\ GoOn(r, "stopping")
    /\ UNCHANGED <<system, clock, store, backups, rid, spoiled, excuse, outages>>

\* The requests of the service end with it.
Served(s) == [b \in Backups |-> IF Saving(b) /\ b \notin Timed THEN "done" ELSE s[b]]

StopService(r) ==
    /\ rstep[r] = "stopping"
    /\ serviceUp' = FALSE
    /\ bstep' = Served(bstep)
    /\ rstep' = [q \in Restores |-> IF q = r THEN "masking"
                                    ELSE IF rstep[q] = "asking" THEN "done" ELSE rstep[q]]
    /\ UNCHANGED <<has, live, newest, clock, masked, stacksUp, store, bid, members, gathered, rid, unpacked,
                   spoiled, excuse, outages>>

Mask(r) ==
    /\ rstep[r] = "masking"
    /\ masked' = TRUE
    /\ GoOn(r, "downing")
    /\ UNCHANGED <<has, live, newest, clock, serviceUp, stacksUp, store, backups, rid, unpacked,
                   spoiled, excuse, outages>>

ComposeDown(r) ==
    /\ rstep[r] = "downing"
    /\ stacksUp' = (stacksUp /\ live.stacks = Lost)
    /\ GoOn(r, "unpacking")
    /\ UNCHANGED <<has, live, newest, clock, serviceUp, masked, store, backups, rid, unpacked,
                   spoiled, excuse, outages>>

\* Mutant: tar does not stop at an archive cut short.
BadUnpack(r) ==
    /\ rstep[r] = "unpacking"
    /\ IF archive[rid[r]] = Absent
       THEN Fails(r) /\ unpacked' = unpacked
       ELSE /\ unpacked' = [unpacked EXCEPT ![rid[r]] = archive[rid[r]]]
            /\ GoOn(r, "wiping") /\ excuse' = excuse
    /\ UNCHANGED <<system, clock, store, backups, rid, spoiled, outages>>

\* tar, and the check that the archive carries a dump.
Unpack(r) ==
    /\ rstep[r] = "unpacking"
    /\ IF archive[rid[r]] \in {Absent, Broken}
       THEN Fails(r) /\ unpacked' = unpacked
       ELSE /\ unpacked' = [unpacked EXCEPT ![rid[r]] = archive[rid[r]]]
            /\ GoOn(r, "wiping") /\ excuse' = excuse
    /\ UNCHANGED <<system, clock, store, backups, rid, spoiled, outages>>

\* Mutant: the directory of the backups is not spared.
BadWipe(r) ==
    /\ rstep[r] = "wiping"
    /\ live' = [live EXCEPT !.data = Lost]
    /\ archive' = [i \in Id |-> Absent] /\ listing' = {}
    /\ GoOn(r, "copying")
    /\ UNCHANGED <<has, newest, clock, serviceUp, masked, stacksUp, ever, backups, rid, unpacked,
                   spoiled, excuse, outages>>

\* The directory of the backups is spared.
Wipe(r) ==
    /\ rstep[r] = "wiping"
    /\ live' = [live EXCEPT !.data = Lost]
    /\ GoOn(r, "copying")
    /\ UNCHANGED <<has, newest, clock, serviceUp, masked, stacksUp, store, backups, rid, unpacked,
                   spoiled, excuse, outages>>

Source(r) == unpacked[rid[r]]

CopyData(r) ==
    /\ rstep[r] = "copying"
    /\ IF Source(r) = Absent THEN Fails(r) /\ live' = live
       ELSE /\ live' = [live EXCEPT !.data = Source(r).data]
            /\ GoOn(r, "clearing") /\ excuse' = excuse
    /\ UNCHANGED <<has, newest, clock, serviceUp, masked, stacksUp, store, backups, rid, unpacked,
                   spoiled, outages>>

Directory == [clearing |-> "stacks", replacing |-> "stacks", emptying |-> "store", refilling |-> "store"]

\* Mutant: what is on disk goes although the archive has nothing to put there.
BadClearAside(r) ==
    /\ rstep[r] \in {"clearing", "emptying"}
    /\ LET p == Directory[rstep[r]] IN
       /\ live' = [live EXCEPT ![p] = Lost]
       /\ GoOn(r, IF Source(r) = Absent \/ Source(r)[p] = Lost
                  THEN IF p = "stacks" THEN "emptying" ELSE "loading"
                  ELSE IF p = "stacks" THEN "replacing" ELSE "refilling")
    /\ UNCHANGED <<has, newest, clock, serviceUp, masked, stacksUp, store, backups, rid, unpacked,
                   spoiled, excuse, outages>>

\* Stacks and store registry that the archive does not have are left alone.
ClearAside(r) ==
    /\ rstep[r] \in {"clearing", "emptying"}
    /\ LET p == Directory[rstep[r]] IN
       IF Source(r) = Absent \/ Source(r)[p] = Lost
       THEN GoOn(r, IF p = "stacks" THEN "emptying" ELSE "loading") /\ live' = live
       ELSE /\ GoOn(r, IF p = "stacks" THEN "replacing" ELSE "refilling")
            /\ live' = [live EXCEPT ![p] = Lost]
    /\ UNCHANGED <<has, newest, clock, serviceUp, masked, stacksUp, store, backups, rid, unpacked,
                   spoiled, excuse, outages>>

CopyBackAside(r) ==
    /\ rstep[r] \in {"replacing", "refilling"}
    /\ LET p == Directory[rstep[r]] IN
       IF Source(r) = Absent THEN Fails(r) /\ UNCHANGED <<live, stacksUp>>
       ELSE /\ live' = [live EXCEPT ![p] = Source(r)[p]]
            /\ stacksUp' = (stacksUp /\ p # "stacks")
            /\ GoOn(r, IF p = "stacks" THEN "emptying" ELSE "loading") /\ excuse' = excuse
    /\ UNCHANGED <<has, newest, clock, serviceUp, masked, store, backups, rid, unpacked,
                   spoiled, outages>>

\* Reset and dump are one transaction.
LoadDatabase(r) ==
    /\ rstep[r] = "loading"
    /\ IF Source(r) = Absent THEN Fails(r) /\ live' = live
       ELSE /\ live' = [live EXCEPT !.database = Source(r).database]
            /\ excuse' = IF rid[r] \in spoiled THEN excuse \cup {"cut"} ELSE excuse
            /\ GoOn(r, "tidying")
    /\ UNCHANGED <<has, newest, clock, serviceUp, masked, stacksUp, store, backups, rid, unpacked,
                   spoiled, outages>>

Tidy(r) ==
    /\ rstep[r] = "tidying"
    /\ unpacked' = [unpacked EXCEPT ![rid[r]] = Absent]
    /\ GoOn(r, "raising")
    /\ UNCHANGED <<system, clock, store, backups, rid, spoiled, excuse, outages>>

\* restart_existing_stacks, at the end of the script and of its trap.
RestartStacks(r) ==
    /\ rstep[r] \in {"raising", "rescuing"}
    /\ stacksUp' = (stacksUp \/ live.stacks # Lost)
    /\ GoOn(r, IF rstep[r] = "raising" THEN "rebooting" ELSE "done")
    /\ UNCHANGED <<has, live, newest, clock, serviceUp, masked, store, backups, rid, unpacked,
                   spoiled, excuse, outages>>

\* Everything that runs ends; the mask does not last, and the service is started.
BootUp ==
    /\ serviceUp' = TRUE /\ masked' = FALSE
    /\ bstep' = [b \in Backups |-> IF Saving(b) THEN "done" ELSE bstep[b]]
    /\ rstep' = [r \in Restores |-> IF rstep[r] = "idle" THEN "idle" ELSE "done"]

Reboot(r) ==
    /\ rstep[r] = "rebooting"
    /\ BootUp
    /\ UNCHANGED <<has, live, newest, clock, stacksUp, store, bid, members, gathered, rid, unpacked,
                   spoiled, excuse, outages>>

\* It comes after "trap - ERR": nothing takes over.
RebootFails(r) ==
    /\ rstep[r] = "rebooting" /\ Outage
    /\ GoOn(r, "done")
    /\ excuse' = excuse \cup {"stranded"}
    /\ UNCHANGED <<system, clock, store, backups, rid, unpacked, spoiled>>

\* A step fails: no space, no docker, no database. Some of the stacks may be down by then.
StepFails(r) ==
    /\ rstep[r] \in (Before \cup Amid \cup {"tidying", "raising"}) \ {"stopping", "masking"}
    /\ Outage
    /\ Fails(r)
    /\ stacksUp' \in IF rstep[r] = "downing" THEN {stacksUp, FALSE} ELSE {stacksUp}
    /\ UNCHANGED <<has, live, newest, clock, serviceUp, masked, store, backups, rid, unpacked, spoiled>>

\* What is followed by "|| true": where it leads when it fails, and what it may leave undone.
Tolerated ==
    [stopping |-> "masking", masking |-> "downing", downing |-> "unpacking",
     raising |-> "rebooting", starting |-> "rescuing", rescuing |-> "done"]
Undone(s) ==
    CASE s = "starting" -> {"stranded"} [] s \in {"raising", "rescuing"} -> {"unraised"} [] OTHER -> {}

FailsQuietly(r) ==
    /\ rstep[r] \in DOMAIN Tolerated /\ Outage
    /\ GoOn(r, Tolerated[rstep[r]])
    /\ excuse' = excuse \cup Undone(rstep[r])
    /\ UNCHANGED <<system, clock, store, backups, rid, unpacked, spoiled>>

\* The mask was made with --runtime and is undone without: systemd may leave it.
Unmask(r) ==
    /\ rstep[r] = "unmasking"
    /\ masked' \in {FALSE, masked}
    /\ GoOn(r, "starting")
    /\ excuse' = IF masked' THEN excuse \cup {"stranded"} ELSE excuse
    /\ UNCHANGED <<has, live, newest, clock, serviceUp, stacksUp, store, backups, rid, unpacked,
                   spoiled, outages>>

StartService(r) ==
    /\ rstep[r] = "starting"
    /\ serviceUp' = (serviceUp \/ ~masked)
    /\ GoOn(r, "rescuing")
    /\ UNCHANGED <<has, live, newest, clock, masked, stacksUp, store, backups, rid, unpacked,
                   spoiled, excuse, outages>>

PowerCut ==
    /\ Outage
    /\ BootUp
    /\ excuse' = excuse \cup
          (IF \E r \in Restores : Restoring(r) THEN {"power"} ELSE {}) \cup
          (IF \E r \in Restores : rstep[r] \in Amid THEN {"cut"} ELSE {})
    /\ UNCHANGED <<has, live, newest, clock, stacksUp, store, bid, members, gathered, rid, unpacked, spoiled>>

-------------------------------------------------------------------------------

BackupSteps(b) ==
    \/ Begin(b) \/ Dump(b) \/ CopyAside(b) \/ Pack(b) \/ WriteManifest(b) \/ Prune(b)
    \/ PruneHalf(b) \/ BackupFails(b)

ScriptSteps(r) ==
    \/ Prepare(r) \/ StopService(r) \/ Mask(r) \/ ComposeDown(r) \/ Unpack(r) \/ Wipe(r)
    \/ CopyData(r) \/ ClearAside(r) \/ CopyBackAside(r) \/ LoadDatabase(r) \/ Tidy(r)
    \/ RestartStacks(r) \/ Reboot(r) \/ RebootFails(r) \/ StepFails(r) \/ FailsQuietly(r)
    \/ Unmask(r) \/ StartService(r)

BackupNext ==
    \/ Change \/ SecondPasses \/ PowerCut
    \/ \E b \in Backups : BackupSteps(b)
    \/ \E r \in Restores : FindBackup(r) \/ Schedule(r) \/ ScriptSteps(r)

BackupSpec == BackupInit /\ [][BackupNext]_backupVars

-------------------------------------------------------------------------------

\* When no restore is at work, files, stacks, store registry and database belong together:
\* all as they were, or all of one backup, but for a directory the backup did not have,
\* which is left where it is. A restore refused, or whose archive turns out to be missing or
\* incomplete, has changed nothing. Excused are a replacement cut off or crossed by a change,
\* two restores at once, and a backup made while the contents changed.
RestoreIsWhole ==
    (\A r \in Restores : ~Restoring(r)) /\ excuse \cap {"cut", "overlap"} = {}
        => /\ live.database # Lost /\ live.data = live.database
           /\ \A p \in has[live.database] : live[p] = live.database
           /\ \A p \in has[newest] : live[p] # Lost

\* Of the backups ever completed, the newest ones can be restored, as many as are to be
\* retained: their archives are whole, and neither a restore nor the pruning beside
\* another backup takes them away. Two backups in one second, or a pruning cut off, are
\* excused.
NewestCanBeRestored ==
    (\A i \in 1..Len(ever) : ever[i] \notin spoiled) =>
        \A i \in 1..Len(ever) :
            i <= Retention => ever[i] \in listing /\ archive[ever[i]] \notin {Absent, Broken}

\* A service stopped by a restore comes back with the stacks, whether the script succeeds,
\* fails or is cut off. The service stays away only when the script's last means fail: the
\* reboot, the unmasking or the start. The stacks may stay down after a power cut, another
\* restore at the same time, or when docker does not raise them.
ServiceComesBack ==
    ~serviceUp ~>
        \/ serviceUp /\ (stacksUp \/ live.stacks = Lost \/ excuse \cap {"power", "overlap", "unraised"} # {})
        \/ "stranded" \in excuse
================================================================================
