------------------------------ MODULE CacheProofs -------------------------------
(***************************************************************************)
(* What the caches of the server promise, for any number of requests, calls,*)
(* files and releases.  The heart of MemoizeAsync is that a running call of*)
(* the current generation is the one in flight and has read the host after *)
(* the last invalidation.                                                  *)
(***************************************************************************)
EXTENDS MemoizeAsync, SystemUpdate, CatalogSnapshots, TLAPS

-------------------------------------------------------------------------------
(* MemoizeAsync. *)

\* What the cache and the calls of the current generation hold is no older
\* than the last invalidation; the call in flight is such a call.
CacheInv ==
    /\ announced <= truth
    /\ cached # 0 => cached >= announced
    /\ inFlight # None =>
          /\ call[inFlight] \in Running
          /\ startedIn[inFlight] = generation
    /\ \A c \in Call : startedIn[c] <= generation
    /\ \A c \in Call :
          call[c] \in Running /\ startedIn[c] = generation => inFlight = c
    /\ \A c \in Call :
          call[c] \in {"fetched", "kept"} /\ startedIn[c] = generation
              => value[c] >= announced

\* A waiting request is served by a call that is running and that has read, or
\* will read, the host after the version the request may expect.
WaitInv ==
    \A r \in Request :
        /\ since[r] <= announced
        /\ request[r] = "answered" => answer[r] >= since[r]
        /\ request[r] = "waiting" =>
              /\ on[r] \in Call
              /\ call[on[r]] \in {"fetched", "kept"} =>
                    value[on[r]] >= since[r]

Inv == TypeOK /\ CacheInv /\ WaitInv

-------------------------------------------------------------------------------
\* The type invariant is inductive by itself.
LEMMA TypeStep == TypeOK /\ [Next]_vars => TypeOK'
<1> SUFFICES ASSUME TypeOK, [Next]_vars PROVE TypeOK'
    OBVIOUS
<1> USE DEF calls, requests, TypeOK, Running
<1>1. ASSUME NEW r \in Request, Apply(r) PROVE TypeOK'
    BY <1>1 DEF Apply
<1>2. ASSUME NEW r \in Request, Invalidate(r) PROVE TypeOK'
    BY <1>2 DEF Invalidate
<1>3. ASSUME NEW r \in Request, AskCached(r) PROVE TypeOK'
    BY <1>3 DEF AskCached, Asks
<1>4. ASSUME NEW r \in Request, AskJoins(r) PROVE TypeOK'
    BY <1>4 DEF AskJoins, Asks, WaitsFor
<1>5. ASSUME NEW r \in Request, NEW c \in Call, AskLoads(r, c) PROVE TypeOK'
    BY <1>5 DEF AskLoads, Asks, WaitsFor
<1>6. ASSUME NEW c \in Call, Fetch(c) PROVE TypeOK'
    BY <1>6 DEF Fetch
<1>7. ASSUME NEW c \in Call, Keep(c) PROVE TypeOK'
    BY <1>7 DEF Keep
<1>8. ASSUME NEW c \in Call, Reject(c) PROVE TypeOK'
    BY <1>8 DEF Reject
<1>9. ASSUME NEW c \in Call, Finally(c) PROVE TypeOK'
    BY <1>9 DEF Finally, Settle
<1>10. CASE Expire
    BY <1>10, MemoAssumption DEF MemoAssumption, Expire
<1>11. CASE UNCHANGED vars
    BY <1>11 DEF vars
<1> QED
    BY <1>1, <1>2, <1>3, <1>4, <1>5, <1>6, <1>7, <1>8, <1>9, <1>10, <1>11 DEF Next

\* Every step keeps the cache no older than the last invalidation.
LEMMA CacheStep == TypeOK /\ CacheInv /\ [Next]_vars => CacheInv'
<1> SUFFICES ASSUME TypeOK, CacheInv, [Next]_vars PROVE CacheInv'
    OBVIOUS
<1> USE MemoAssumption DEF calls, requests, MemoAssumption, TypeOK, CacheInv, Running
<1>1. ASSUME NEW r \in Request, Apply(r) PROVE CacheInv'
    BY <1>1 DEF Apply
<1>2. ASSUME NEW r \in Request, Invalidate(r) PROVE CacheInv'
    BY <1>2 DEF Invalidate
<1>3. ASSUME NEW r \in Request, AskCached(r) PROVE CacheInv'
    BY <1>3 DEF AskCached, Asks
<1>4. ASSUME NEW r \in Request, AskJoins(r) PROVE CacheInv'
    BY <1>4 DEF AskJoins, Asks, WaitsFor
<1>5. ASSUME NEW r \in Request, NEW c \in Call, AskLoads(r, c) PROVE CacheInv'
    BY <1>5 DEF AskLoads, Asks, WaitsFor
<1>6. ASSUME NEW c \in Call, Fetch(c) PROVE CacheInv'
    BY <1>6 DEF Fetch
<1>7. ASSUME NEW c \in Call, Keep(c) PROVE CacheInv'
    BY <1>7 DEF Keep
<1>8. ASSUME NEW c \in Call, Reject(c) PROVE CacheInv'
    BY <1>8 DEF Reject
<1>9. ASSUME NEW c \in Call, Finally(c) PROVE CacheInv'
    BY <1>9 DEF Finally, Settle
<1>10. CASE Expire
    BY <1>10 DEF Expire
<1>11. CASE UNCHANGED vars
    BY <1>11 DEF vars
<1> QED
    BY <1>1, <1>2, <1>3, <1>4, <1>5, <1>6, <1>7, <1>8, <1>9, <1>10, <1>11 DEF Next

\* Every step keeps the waiting requests well served.
LEMMA WaitStep == TypeOK /\ CacheInv /\ WaitInv /\ [Next]_vars => WaitInv'
<1> SUFFICES ASSUME TypeOK, CacheInv, WaitInv, [Next]_vars PROVE WaitInv'
    OBVIOUS
<1> USE MemoAssumption DEF calls, requests, MemoAssumption, TypeOK, WaitInv
<1>1. ASSUME NEW r \in Request, Apply(r) PROVE WaitInv'
    BY <1>1 DEF Apply
<1>2. ASSUME NEW r \in Request, Invalidate(r) PROVE WaitInv'
    BY <1>2 DEF Invalidate, CacheInv
<1>3. ASSUME NEW r \in Request, AskCached(r) PROVE WaitInv'
    BY <1>3 DEF AskCached, Asks, CacheInv
<1>4. ASSUME NEW r \in Request, AskJoins(r) PROVE WaitInv'
    BY <1>4 DEF AskJoins, Asks, WaitsFor, CacheInv, Running
<1>5. ASSUME NEW r \in Request, NEW c \in Call, AskLoads(r, c) PROVE WaitInv'
    BY <1>5 DEF AskLoads, Asks, WaitsFor, CacheInv
<1>6. ASSUME NEW c \in Call, Fetch(c) PROVE WaitInv'
    BY <1>6 DEF Fetch, CacheInv
<1>7. ASSUME NEW c \in Call, Keep(c) PROVE WaitInv'
    BY <1>7 DEF Keep
<1>8. ASSUME NEW c \in Call, Reject(c) PROVE WaitInv'
    BY <1>8 DEF Reject
<1>9. ASSUME NEW c \in Call, Finally(c) PROVE WaitInv'
    BY <1>9 DEF Finally, Settle
<1>10. CASE Expire
    BY <1>10 DEF Expire
<1>11. CASE UNCHANGED vars
    BY <1>11 DEF vars
<1> QED
    BY <1>1, <1>2, <1>3, <1>4, <1>5, <1>6, <1>7, <1>8, <1>9, <1>10, <1>11 DEF Next

\* The inductive invariant holds in every reachable state.
THEOREM Invariance == Spec => []Inv
<1>1. Init => Inv
    BY MemoAssumption DEF MemoAssumption, Init, Inv, TypeOK, CacheInv, WaitInv, Running
<1>2. Inv /\ [Next]_vars => Inv'
    BY TypeStep, CacheStep, WaitStep DEF Inv
<1> QED
    BY <1>1, <1>2, PTL DEF Spec

\* Type correctness.
THEOREM MemoTypeCorrect == Spec => []TypeOK
<1>1. Inv => TypeOK
    BY DEF Inv
<1> QED
    BY <1>1, Invariance, PTL

\* No answer is older than the invalidation before the question.
THEOREM AnswersAreFresh == Spec => []FreshAnswers
<1>1. Inv => FreshAnswers
    BY DEF Inv, WaitInv, FreshAnswers
<1> QED
    BY <1>1, Invariance, PTL

\* Concurrent callers of one generation share one call of load.
THEOREM CallsAreShared == Spec => []OneCallInFlight
<1>1. Inv => OneCallInFlight
    BY DEF Inv, CacheInv, OneCallInFlight
<1> QED
    BY <1>1, Invariance, PTL

\* A call that has ended, well or badly, is not joined by later callers.
THEOREM FailuresAreForgotten == Spec => []FailureForgotten
<1>1. Inv => FailureForgotten
    BY DEF Inv, CacheInv, FailureForgotten
<1> QED
    BY <1>1, Invariance, PTL

-------------------------------------------------------------------------------
(* SystemUpdate. *)

\* A call under way is the caller's own, and whoever waits for it finds it there; a page
\* waits for the call of a page.
CallInv ==
    /\ sharing # Unknown => github[sharing] # Unknown
    /\ \A r \in Asker : github[r] # Unknown => joined[r] = r
    /\ \A r \in Asker : joined[r] # Unknown => github[joined[r]] # Unknown
    /\ \A r \in Load : joined[r] # Unknown => joined[r] \in Load

\* While nothing valid is remembered, what a call would fall back to is what is remembered.
FallbackInv ==
    /\ valid => latest # Unknown
    /\ ~valid => \A r \in Asker : github[r] # Unknown => fallback[r] = latest
    /\ \A r \in Load : knew[r] /\ joined[r] # Unknown => fallback[joined[r]] # Unknown

UpdateInv == UpdateTypeOK /\ CallInv /\ FallbackInv /\ KnownIsServed

LEMMA UpdateApart ==
    ASSUME SystemUpdateAssumption
    PROVE  /\ Load \cap Check = {} /\ Unknown \notin Asker
           /\ Unknown \notin Release /\ Failed \notin Release /\ Pending \notin Release
           /\ Unknown # Pending /\ Unknown # Failed /\ Failed # Pending
           /\ MaxFailures \in Nat /\ MaxRestarts \in Nat /\ Releases \in Nat \ {0}
BY DEF SystemUpdateAssumption, Release, Asker

LEMMA UpdateInitInv == SystemUpdateAssumption /\ UpdateInit => UpdateInv
<1> SUFFICES ASSUME SystemUpdateAssumption, UpdateInit PROVE UpdateInv
  OBVIOUS
<1> USE UpdateApart DEF UpdateInit
<1>1. UpdateTypeOK
  <2>1. published \in Release /\ restarts \in 0..MaxRestarts /\ failures \in 0..MaxFailures
    BY DEF Release
  <2>2. QED
    BY <2>1 DEF UpdateTypeOK
<1>2. CallInv /\ FallbackInv /\ KnownIsServed
  BY DEF CallInv, FallbackInv, KnownIsServed, Asker
<1>3. QED
  BY <1>1, <1>2 DEF UpdateInv

LEMMA UpdateTypeStep ==
    ASSUME SystemUpdateAssumption, UpdateTypeOK, [UpdateNext]_updateVars
    PROVE  UpdateTypeOK'
<1> USE UpdateApart DEF UpdateTypeOK, Asker, Release
<1>1. ASSUME NEW r \in Asker, LoadCached(r) \/ LoadTooSoon(r) \/ LoadJoins(r) \/ AskCalls(r)
      PROVE  UpdateTypeOK'
  <2>1. CASE LoadCached(r)
    BY <2>1 DEF LoadCached, AsksVersion
  <2>2. CASE LoadTooSoon(r)
    BY <2>2 DEF LoadTooSoon, AsksVersion
  <2>3. CASE LoadJoins(r)
    BY <2>3 DEF LoadJoins, AsksVersion
  <2>4. CASE AskCalls(r)
    BY <2>4 DEF AskCalls, AsksVersion
  <2>5. QED
    BY <1>1, <2>1, <2>2, <2>3, <2>4
<1>2. ASSUME NEW r \in Asker, GitHub(r) PROVE UpdateTypeOK'
  BY <1>2 DEF GitHub
<1>3. ASSUME NEW r \in Asker, Succeed(r) PROVE UpdateTypeOK'
  BY <1>3 DEF Succeed, SettleCall
<1>4. ASSUME NEW r \in Asker, Fail(r) PROVE UpdateTypeOK'
  BY <1>4 DEF Fail, SettleCall
<1>5. CASE VersionExpires \/ BackOffEnds \/ PublishRelease
  <2>1. CASE VersionExpires
    BY <2>1 DEF VersionExpires
  <2>2. CASE BackOffEnds
    BY <2>2 DEF BackOffEnds
  <2>3. CASE PublishRelease
    BY <2>3 DEF PublishRelease, checkVars
  <2>4. QED
    BY <1>5, <2>1, <2>2, <2>3
<1>6. CASE UpdateRestart
  <2>1. restarts' \in 0..MaxRestarts
    BY <1>6 DEF UpdateRestart
  <2>2. QED
    BY <1>6, <2>1 DEF UpdateRestart
<1>7. CASE UNCHANGED updateVars
  BY <1>7 DEF updateVars
<1>8. QED
  BY <1>1, <1>2, <1>3, <1>4, <1>5, <1>6, <1>7 DEF UpdateNext

LEMMA UpdateStep ==
    ASSUME SystemUpdateAssumption, UpdateInv, [UpdateNext]_updateVars
    PROVE  UpdateInv'
<1> USE UpdateApart DEF UpdateInv
<1>0. UpdateTypeOK'
  BY UpdateTypeStep
<1> USE <1>0 DEF CallInv, FallbackInv, KnownIsServed, Asker
<1>1. ASSUME NEW r \in Asker, LoadCached(r) \/ LoadTooSoon(r) PROVE UpdateInv'
  BY <1>1 DEF LoadCached, LoadTooSoon, AsksVersion, UpdateTypeOK
<1>2. ASSUME NEW r \in Asker, LoadJoins(r) PROVE UpdateInv'
  BY <1>2 DEF LoadJoins, AsksVersion, MustCall, UpdateTypeOK
<1>3. ASSUME NEW r \in Asker, AskCalls(r) PROVE UpdateInv'
  BY <1>3 DEF AskCalls, AsksVersion, UpdateTypeOK
<1>4. ASSUME NEW r \in Asker, GitHub(r) PROVE UpdateInv'
  BY <1>4 DEF GitHub, UpdateTypeOK
<1>5. ASSUME NEW r \in Asker, Succeed(r) PROVE UpdateInv'
  BY <1>5 DEF Succeed, SettleCall, UpdateTypeOK
<1>6. ASSUME NEW r \in Asker, Fail(r) PROVE UpdateInv'
  BY <1>6 DEF Fail, SettleCall, UpdateTypeOK
<1>7. CASE VersionExpires \/ BackOffEnds \/ PublishRelease
  BY <1>7 DEF VersionExpires, BackOffEnds, PublishRelease, checkVars
<1>8. CASE UpdateRestart
  BY <1>8 DEF UpdateRestart
<1>9. CASE UNCHANGED updateVars
  BY <1>9 DEF updateVars
<1>10. QED
  BY <1>1, <1>2, <1>3, <1>4, <1>5, <1>6, <1>7, <1>8, <1>9 DEF UpdateNext

\* The types of the memory of versions and of the requests for them.
THEOREM UpdateTypeCorrect == SystemUpdateAssumption => (UpdateSpec => []UpdateTypeOK)
<1> SUFFICES ASSUME SystemUpdateAssumption PROVE UpdateSpec => []UpdateTypeOK
  OBVIOUS
<1>1. UpdateInit => UpdateTypeOK
  BY UpdateInitInv DEF UpdateInv
<1>2. UpdateTypeOK /\ [UpdateNext]_updateVars => UpdateTypeOK'
  BY UpdateTypeStep
<1>3. QED
  BY <1>1, <1>2, PTL DEF UpdateSpec

\* KnownIsServed: a page that asks when a version is known is never told an error.
THEOREM KnownVersionsAreServed == SystemUpdateAssumption => (UpdateSpec => []KnownIsServed)
<1> SUFFICES ASSUME SystemUpdateAssumption PROVE UpdateSpec => []KnownIsServed
  OBVIOUS
<1>1. UpdateInit => UpdateInv
  BY UpdateInitInv
<1>2. UpdateInv /\ [UpdateNext]_updateVars => UpdateInv'
  BY UpdateStep
<1>3. UpdateInv => KnownIsServed
  BY DEF UpdateInv
<1>4. QED
  BY <1>1, <1>2, <1>3, PTL DEF UpdateSpec

-------------------------------------------------------------------------------
(* CatalogSnapshots. *)

\* Snapshots of an official source: nothing in them is newer than the file, and no signature
\* newer than what was read.
OrderedIn(e, d) == \A f \in File :
    /\ e.signature[f] \in Version /\ e.snapshot[f] \in Version /\ d[f] \in Version
    /\ e.signature[f] <= e.snapshot[f] /\ e.snapshot[f] <= d[f]

\* What a walk has read by now.
WalkOrdered(k, d) ==
    /\ k.cached # Nothing => OrderedIn(k.cached, d)
    /\ k.at \in {"stating", "comparing", "reading"} => k.paths = Compose
    /\ k.at = "stating" => \A f \in File \ k.todo : k.signature[f] \in Version /\ k.signature[f] <= d[f]
    /\ k.at \in {"comparing", "reading"} =>
           \A f \in File : k.signature[f] \in Version /\ k.signature[f] <= d[f]
    /\ k.at = "reading" =>
           \A f \in List \ k.todo : /\ k.snapshot[f] \in Version
                                    /\ k.signature[f] <= k.snapshot[f] /\ k.snapshot[f] <= d[f]

\* A walk that began when the files had been brought reads them as they are.
WalkFresh(k, d) ==
    /\ k.at # "idle" /\ k.cached # Nothing => k.cached.snapshot = d
    /\ k.at \in {"stating", "comparing", "reading"} => k.paths = Compose
    /\ k.at = "reading" => \A f \in List \ k.todo : k.snapshot[f] = d[f]

OrderInv == official =>
    /\ \A f \in File : disk[f] \in 1..upstream
    /\ entry # Nothing => OrderedIn(entry, disk)
    /\ \A w \in Walk : WalkOrdered(walk[w], disk)

Brought == sync = "building" \/ settled

FreshInv ==
    /\ sync = "writing" => ~settled
    /\ Brought => \A f \in File : disk[f] \in Version
    /\ Brought /\ ~outrun => /\ entry # Nothing => entry.snapshot = disk
                             /\ \A w \in Walk : WalkFresh(walk[w], disk)

SnapshotInv == SnapshotTypeOK /\ OrderInv /\ FreshInv

Walker == [at : {"idle", "collecting", "stating", "comparing", "reading"},
           cached : Entry \cup {Nothing}, paths : SUBSET Compose,
           todo : SUBSET File, signature : Reading, snapshot : Reading]

LEMMA Parts == SnapshotInv =>
    /\ disk \in Reading /\ upstream \in Version /\ sync \in {"idle", "writing", "building"}
    /\ entry \in Entry \cup {Nothing} /\ current \in BOOLEAN /\ walk \in [Walk -> Walker]
    /\ syncs \in 0..MaxSyncs[official] /\ official \in BOOLEAN /\ outrun \in BOOLEAN /\ settled \in BOOLEAN
BY DEF SnapshotInv, SnapshotTypeOK, Walker

LEMMA StillWalker == Still \in Walker /\ Still.cached = Nothing /\ Still.at = "idle"
<1>1. None0 \in Reading
  BY DEF None0, Reading
<1>2. QED
  BY <1>1 DEF Still, Walker

LEMMA SnapshotInitInv == CatalogSnapshotsAssumption /\ SnapshotInit => SnapshotInv
<1> SUFFICES ASSUME CatalogSnapshotsAssumption, SnapshotInit PROVE SnapshotInv
  OBVIOUS
<1>1. 1 \in Version /\ MaxSyncs[official] \in Nat /\ official \in BOOLEAN
  BY DEF CatalogSnapshotsAssumption, SnapshotInit, Version
<1>2. disk \in Reading /\ \A f \in File : disk[f] = 1
  BY <1>1 DEF SnapshotInit, Reading
<1>3. syncs \in 0..MaxSyncs[official]
  BY <1>1 DEF SnapshotInit
<1>4. walk \in [Walk -> Walker] /\ \A w \in Walk : walk[w].cached = Nothing /\ walk[w].at = "idle"
  BY StillWalker DEF SnapshotInit
<1>5. SnapshotTypeOK
  BY <1>1, <1>2, <1>3, <1>4 DEF SnapshotInit, SnapshotTypeOK, Walker
<1>6. OrderInv /\ FreshInv
  BY <1>1, <1>2, <1>4 DEF SnapshotInit, OrderInv, FreshInv, Brought, WalkOrdered
<1>7. QED
  BY <1>5, <1>6 DEF SnapshotInv

-------------------------------------------------------------------------------
(* Files that only get newer *)

Newer(d, later) == \A f \in File : d[f] \in Version /\ later[f] \in Version /\ d[f] <= later[f]

LEMMA EntriesStayOrdered ==
    ASSUME NEW e, NEW d, NEW later, OrderedIn(e, d), Newer(d, later) PROVE OrderedIn(e, later)
<1> SUFFICES ASSUME NEW f \in File
             PROVE  /\ e.signature[f] \in Version /\ e.snapshot[f] \in Version /\ later[f] \in Version
                    /\ e.signature[f] <= e.snapshot[f] /\ e.snapshot[f] <= later[f]
  BY DEF OrderedIn
<1>1. /\ e.signature[f] \in Version /\ e.snapshot[f] \in Version /\ later[f] \in Version
      /\ e.signature[f] <= e.snapshot[f] /\ e.snapshot[f] <= d[f] /\ d[f] \in Version /\ d[f] <= later[f]
  BY DEF OrderedIn, Newer
<1>2. QED
  BY <1>1 DEF Version

LEMMA WalksStayOrdered ==
    ASSUME NEW k, NEW d, NEW later, WalkOrdered(k, d), Newer(d, later) PROVE WalkOrdered(k, later)
<1>1. \A f \in File : \A n \in Version : n <= d[f] => n <= later[f]
  BY DEF Newer, Version
<1>2. k.cached # Nothing => OrderedIn(k.cached, later)
  BY EntriesStayOrdered DEF WalkOrdered
<1>3. List \subseteq File
  BY DEF File
<1>4. QED
  BY <1>1, <1>2, <1>3 DEF WalkOrdered

\* A signature that is the files' own leaves no room for a snapshot but the files.
LEMMA SameSignature ==
    ASSUME NEW e \in Entry, NEW d \in Reading, OrderedIn(e, d), e.signature = d PROVE e.snapshot = d
<1>1. \A f \in File : e.snapshot[f] = d[f]
  <2> SUFFICES ASSUME NEW f \in File PROVE e.snapshot[f] = d[f]
    OBVIOUS
  <2>1. e.snapshot[f] \in Version /\ d[f] \in Version /\ d[f] <= e.snapshot[f] /\ e.snapshot[f] <= d[f]
    BY DEF OrderedIn
  <2>2. QED
    BY <2>1 DEF Version
<1>2. e.snapshot \in Reading
  BY DEF Entry
<1>3. QED
  BY <1>1, <1>2 DEF Reading

-------------------------------------------------------------------------------
(* Walks *)

\* A step of one walk, which may keep an entry.
LEMMA WalkStep ==
    ASSUME CatalogSnapshotsAssumption, SnapshotInv, NEW w \in Walk,
           walk' \in [Walk -> Walker], \A v \in Walk \ {w} : walk'[v] = walk[v],
           UNCHANGED <<disk, upstream, sync, syncs, official, outrun, settled>>,
           entry' \in Entry \cup {Nothing}, current' \in BOOLEAN,
           official => WalkOrdered(walk'[w], disk) /\ (entry' # Nothing => OrderedIn(entry', disk)),
           Brought /\ ~outrun => WalkFresh(walk'[w], disk) /\ (entry' # Nothing => entry'.snapshot = disk)
    PROVE  SnapshotInv'
<1>1. SnapshotTypeOK'
  BY Parts DEF SnapshotTypeOK, Walker
<1>2. OrderInv'
  BY DEF OrderInv, SnapshotInv
<1>3. FreshInv'
  BY DEF FreshInv, SnapshotInv, Brought
<1>4. QED
  BY <1>1, <1>2, <1>3 DEF SnapshotInv

\* What is known of the files and of a walk.
LEMMA Known ==
    ASSUME CatalogSnapshotsAssumption, SnapshotInv, NEW w \in Walk
    PROVE  /\ walk[w] \in Walker /\ Missing \notin Version
           /\ official => WalkOrdered(walk[w], disk) /\ \A f \in File : disk[f] \in Version
           /\ Brought => \A f \in File : disk[f] \in Version
           /\ Brought /\ ~outrun => WalkFresh(walk[w], disk)
<1>1. upstream \in Version /\ Versions \in Nat
  BY Parts DEF CatalogSnapshotsAssumption
<1>2. 1..upstream \subseteq Version
  BY <1>1 DEF Version
<1>3. QED
  BY <1>2, Parts DEF SnapshotInv, OrderInv, FreshInv, CatalogSnapshotsAssumption, Version

LEMMA LookStep == ASSUME CatalogSnapshotsAssumption, SnapshotInv, Look PROVE SnapshotInv'
<1> DEFINE k == [Still EXCEPT !.at = "collecting", !.cached = entry]
<1>1. "shared" \in Walk /\ walk' = [walk EXCEPT !["shared"] = k]
      /\ UNCHANGED <<disk, upstream, sync, entry, current, syncs, official, outrun, settled>>
  BY DEF Look, Start, Walk, history
<1>2. k \in Walker /\ k.cached = entry /\ k.at = "collecting"
  <2>1. Still \in Walker
    BY StillWalker
  <2>2. QED
    BY <2>1, Parts DEF Walker
<1> HIDE DEF k
<1>3. /\ walk' \in [Walk -> Walker] /\ walk'["shared"] = k
      /\ \A v \in Walk \ {"shared"} : walk'[v] = walk[v]
  BY <1>1, <1>2, Parts
<1>4. official => WalkOrdered(k, disk) /\ (entry # Nothing => OrderedIn(entry, disk))
  BY <1>2 DEF SnapshotInv, OrderInv, WalkOrdered
<1>5. Brought /\ ~outrun => WalkFresh(k, disk) /\ (entry # Nothing => entry.snapshot = disk)
  BY <1>2 DEF SnapshotInv, FreshInv, WalkFresh
<1>6. QED
  BY <1>1, <1>3, <1>4, <1>5, WalkStep, Parts

LEMMA CollectStep ==
    ASSUME CatalogSnapshotsAssumption, SnapshotInv, NEW w \in Walk, Collect(w) PROVE SnapshotInv'
<1> DEFINE paths == {f \in Compose : disk[f] # Missing}
           k == [walk[w] EXCEPT !.at = "stating", !.paths = paths, !.todo = paths \cup List]
<1>1. /\ walk[w] \in Walker /\ walk[w].at = "collecting"
      /\ UNCHANGED <<disk, upstream, sync, entry, current, syncs, official, outrun, settled>>
  BY Known DEF Collect, history
<1>2. CASE paths = {}
  <2>1. walk' = [walk EXCEPT ![w] = Still]
    BY <1>2 DEF Collect
  <2>2. walk' \in [Walk -> Walker] /\ walk'[w] = Still /\ \A v \in Walk \ {w} : walk'[v] = walk[v]
    BY <2>1, Parts, StillWalker
  <2>3. WalkOrdered(Still, disk) /\ WalkFresh(Still, disk)
    BY StillWalker DEF WalkOrdered, WalkFresh
  <2>4. QED
    BY <1>1, <2>2, <2>3, WalkStep, Parts DEF SnapshotInv, OrderInv, FreshInv
<1>3. CASE paths # {}
  <2>1. walk' = [walk EXCEPT ![w] = k]
    BY <1>3 DEF Collect
  <2>2. /\ k \in Walker /\ k.cached = walk[w].cached /\ k.at = "stating" /\ k.paths = paths
        /\ k.todo = paths \cup List
    BY <1>1 DEF Walker, File
  <2>3. (official \/ Brought) => paths = Compose
    BY Known DEF File
  <2> HIDE DEF k, paths
  <2>4. walk' \in [Walk -> Walker] /\ walk'[w] = k /\ \A v \in Walk \ {w} : walk'[v] = walk[v]
    BY <2>1, <2>2, Parts
  <2>5. official => WalkOrdered(k, disk)
    BY <2>2, <2>3, Known DEF WalkOrdered, File
  <2>6. Brought /\ ~outrun => WalkFresh(k, disk)
    BY <1>1, <2>2, <2>3, Known DEF WalkFresh
  <2>7. QED
    BY <1>1, <2>4, <2>5, <2>6, WalkStep, Parts DEF SnapshotInv, OrderInv, FreshInv
<1>4. QED
  BY <1>2, <1>3

LEMMA StatStep ==
    ASSUME CatalogSnapshotsAssumption, SnapshotInv, NEW w \in Walk, NEW f \in File, Stat(w, f)
    PROVE  SnapshotInv'
<1>1. /\ walk[w] \in Walker /\ walk[w].at = "stating" /\ f \in walk[w].todo
      /\ UNCHANGED <<disk, upstream, sync, entry, current, syncs, official, outrun, settled>>
  BY Known DEF Stat, history
<1> DEFINE at == IF walk[w].todo = {f} THEN "comparing" ELSE "stating"
           k  == [walk[w] EXCEPT !.signature[f] = disk[f], !.todo = @ \ {f}, !.at = at]
<1>2. walk' \in [Walk -> Walker] /\ walk'[w] = k /\ \A v \in Walk \ {w} : walk'[v] = walk[v]
  <2>1. disk[f] \in Version \cup {Missing}
    BY Parts DEF Reading
  <2>2. [walk[w].signature EXCEPT ![f] = disk[f]] \in Reading
    BY <1>1, <2>1 DEF Reading, Walker
  <2>3. walk \in [Walk -> Walker]
    BY Parts
  <2>4. walk' = [walk EXCEPT ![w] = k]
    BY <1>1, <2>3 DEF Stat, Walker
  <2>5. k \in Walker
    BY <1>1, <2>2 DEF Walker
  <2> HIDE DEF k
  <2>6. QED
    BY <2>3, <2>4, <2>5
<1>3. /\ k.cached = walk[w].cached /\ k.paths = walk[w].paths /\ k.todo = walk[w].todo \ {f}
      /\ k.signature[f] = disk[f] /\ \A g \in File \ {f} : k.signature[g] = walk[w].signature[g]
      /\ k.at = at
  BY <1>1 DEF Walker, Reading
<1> HIDE DEF k
<1>4. official => WalkOrdered(k, disk)
  <2> SUFFICES ASSUME official PROVE WalkOrdered(k, disk)
    OBVIOUS
  <2>1. WalkOrdered(walk[w], disk) /\ disk[f] \in Version
    BY Known
  <2>2. \A g \in File \ k.todo : k.signature[g] \in Version /\ k.signature[g] <= disk[g]
    BY <1>1, <1>3, <2>1 DEF WalkOrdered, Version
  <2>3. at = "comparing" => k.todo = {}
    BY <1>3
  <2>4. QED
    BY <1>1, <1>3, <2>1, <2>2, <2>3 DEF WalkOrdered
<1>5. Brought /\ ~outrun => WalkFresh(k, disk)
  BY <1>1, <1>3, Known DEF WalkFresh
<1>6. QED
  BY <1>1, <1>2, <1>4, <1>5, WalkStep, Parts DEF SnapshotInv, OrderInv, FreshInv

LEMMA ReadListStep ==
    ASSUME CatalogSnapshotsAssumption, SnapshotInv, NEW w \in Walk, NEW f \in File, ReadList(w, f)
    PROVE  SnapshotInv'
<1>1. /\ walk[w] \in Walker /\ walk[w].at = "reading" /\ f \in walk[w].todo
      /\ UNCHANGED <<disk, upstream, sync, entry, current, syncs, official, outrun, settled>>
  BY Known DEF ReadList, history
<1> DEFINE k == [walk[w] EXCEPT !.snapshot[f] = disk[f], !.todo = @ \ {f}]
<1>2. walk' \in [Walk -> Walker] /\ walk'[w] = k /\ \A v \in Walk \ {w} : walk'[v] = walk[v]
  <2>1. disk[f] \in Version \cup {Missing}
    BY Parts DEF Reading
  <2>2. [walk[w].snapshot EXCEPT ![f] = disk[f]] \in Reading
    BY <1>1, <2>1 DEF Reading, Walker
  <2>3. walk \in [Walk -> Walker]
    BY Parts
  <2>4. walk' = [walk EXCEPT ![w] = k]
    BY <1>1, <2>3 DEF ReadList, Walker
  <2>5. k \in Walker
    BY <1>1, <2>2 DEF Walker
  <2> HIDE DEF k
  <2>6. QED
    BY <2>3, <2>4, <2>5
<1>3. /\ k.cached = walk[w].cached /\ k.paths = walk[w].paths /\ k.todo = walk[w].todo \ {f}
      /\ k.snapshot[f] = disk[f] /\ \A g \in File \ {f} : k.snapshot[g] = walk[w].snapshot[g]
      /\ k.signature = walk[w].signature /\ k.at = "reading"
  BY <1>1 DEF Walker, Reading
<1> HIDE DEF k
<1>t. List \subseteq File
  BY DEF File
<1>4. official => WalkOrdered(k, disk)
  <2> SUFFICES ASSUME official PROVE WalkOrdered(k, disk)
    OBVIOUS
  <2>1. WalkOrdered(walk[w], disk) /\ disk[f] \in Version
    BY Known
  <2>2. ASSUME NEW g \in List \ k.todo
        PROVE  /\ k.snapshot[g] \in Version
               /\ k.signature[g] <= k.snapshot[g] /\ k.snapshot[g] <= disk[g]
    <3>1. CASE g = f
      BY <1>1, <1>3, <2>1, <3>1 DEF WalkOrdered, Version
    <3>2. CASE g # f
      BY <1>1, <1>3, <1>t, <2>1, <3>2 DEF WalkOrdered
    <3>3. QED
      BY <3>1, <3>2
  <2>3. QED
    BY <1>1, <1>3, <2>1, <2>2 DEF WalkOrdered
<1>5. Brought /\ ~outrun => WalkFresh(k, disk)
  BY <1>1, <1>3, <1>t, Known DEF WalkFresh
<1>6. QED
  BY <1>1, <1>2, <1>4, <1>5, WalkStep, Parts DEF SnapshotInv, OrderInv, FreshInv

\* The walk is done and its entry kept.
LEMMA Keeping ==
    ASSUME CatalogSnapshotsAssumption, SnapshotInv, NEW w \in Walk, NEW e \in Entry, KeepEntry(w, e),
           UNCHANGED <<disk, upstream, sync, syncs, official, outrun, settled>>,
           official => OrderedIn(e, disk), Brought /\ ~outrun => e.snapshot = disk
    PROVE  SnapshotInv'
<1>1. walk' = [walk EXCEPT ![w] = Still] /\ entry' = e /\ current' = TRUE
  BY DEF KeepEntry
<1>2. walk' \in [Walk -> Walker] /\ walk'[w] = Still /\ \A v \in Walk \ {w} : walk'[v] = walk[v]
  BY <1>1, Parts, StillWalker
<1>3. WalkOrdered(Still, disk) /\ WalkFresh(Still, disk)
  BY StillWalker DEF WalkOrdered, WalkFresh
<1>4. QED
  BY <1>1, <1>2, <1>3, WalkStep

LEMMA CompareStep ==
    ASSUME CatalogSnapshotsAssumption, SnapshotInv, NEW w \in Walk, Compare(w) PROVE SnapshotInv'
<1>1. /\ walk[w] \in Walker /\ walk[w].at = "comparing"
      /\ UNCHANGED <<disk, upstream, sync, syncs, official, outrun, settled>>
  BY Known DEF Compare, history
<1>2. CASE walk[w].cached # Nothing /\ walk[w].cached.signature = walk[w].signature
  <2>1. walk[w].cached \in Entry /\ KeepEntry(w, walk[w].cached)
    BY <1>1, <1>2 DEF Compare, Walker
  <2>2. /\ official => OrderedIn(walk[w].cached, disk)
        /\ Brought /\ ~outrun => walk[w].cached.snapshot = disk
    BY <1>1, <1>2, Known DEF WalkOrdered, WalkFresh
  <2>3. QED
    BY <1>1, <2>1, <2>2, Keeping
<1>3. CASE ~(walk[w].cached # Nothing /\ walk[w].cached.signature = walk[w].signature)
  <2> DEFINE k == [walk[w] EXCEPT !.at = "reading", !.todo = List]
  <2>1. walk' = [walk EXCEPT ![w].at = "reading", ![w].todo = List] /\ UNCHANGED <<entry, current>>
    BY <1>3 DEF Compare
  <2>2. walk' \in [Walk -> Walker] /\ walk'[w] = k /\ \A v \in Walk \ {w} : walk'[v] = walk[v]
    <3>1. walk \in [Walk -> Walker]
      BY Parts
    <3>2. walk' = [walk EXCEPT ![w] = k]
      BY <2>1, <3>1 DEF Walker
    <3>3. k \in Walker
      BY <1>1 DEF Walker, File
    <3> HIDE DEF k
    <3>4. QED
      BY <3>1, <3>2, <3>3
  <2>3. /\ k.cached = walk[w].cached /\ k.paths = walk[w].paths /\ k.todo = List
        /\ k.signature = walk[w].signature /\ k.at = "reading"
    BY <1>1 DEF Walker
  <2> HIDE DEF k
  <2>4. official => WalkOrdered(k, disk)
    BY <1>1, <2>3, Known DEF WalkOrdered
  <2>5. Brought /\ ~outrun => WalkFresh(k, disk)
    BY <1>1, <2>3, Known DEF WalkFresh
  <2>6. QED
    BY <1>1, <2>1, <2>2, <2>4, <2>5, WalkStep, Parts DEF SnapshotInv, OrderInv, FreshInv
<1>4. QED
  BY <1>2, <1>3

LEMMA ParseStep ==
    ASSUME CatalogSnapshotsAssumption, SnapshotInv, NEW w \in Walk, Parse(w) PROVE SnapshotInv'
<1>1. /\ walk[w] \in Walker /\ walk[w].at = "reading" /\ walk[w].todo = {}
      /\ UNCHANGED <<disk, upstream, sync, syncs, official, outrun, settled>>
  BY Known DEF Parse, history
<1> DEFINE e == [signature |-> walk[w].signature, snapshot |-> Parsed(w)]
<1>2. KeepEntry(w, e)
  BY DEF Parse
<1>3. Parsed(w) \in Reading
  BY <1>1, Parts DEF Parsed, Reading, Walker
<1>4. e \in Entry /\ e.signature = walk[w].signature /\ e.snapshot = Parsed(w)
  BY <1>1, <1>3 DEF Entry, Walker
<1> HIDE DEF e
<1>5. ASSUME official PROVE OrderedIn(e, disk)
  <2>1. WalkOrdered(walk[w], disk) /\ \A f \in File : disk[f] \in Version
    BY <1>5, Known
  <2> SUFFICES ASSUME NEW f \in File
               PROVE  /\ e.signature[f] \in Version /\ e.snapshot[f] \in Version /\ disk[f] \in Version
                      /\ e.signature[f] <= e.snapshot[f] /\ e.snapshot[f] <= disk[f]
    BY DEF OrderedIn
  <2>2. e.signature[f] \in Version /\ e.signature[f] <= disk[f] /\ disk[f] \in Version
    BY <1>1, <1>4, <2>1 DEF WalkOrdered
  <2>3. CASE f \in List
    BY <1>1, <1>4, <2>1, <2>2, <2>3 DEF WalkOrdered, Parsed
  <2>4. CASE f \notin List
    <3>1. f \in walk[w].paths
      BY <1>1, <2>1, <2>4 DEF WalkOrdered, File
    <3>2. e.snapshot[f] = disk[f]
      BY <1>4, <2>4, <3>1 DEF Parsed
    <3>3. QED
      BY <2>2, <3>2 DEF Version
  <2>5. QED
    BY <2>3, <2>4
<1>6. ASSUME Brought, ~outrun PROVE e.snapshot = disk
  <2>1. WalkFresh(walk[w], disk)
    BY <1>6, Known
  <2>2. \A f \in File : Parsed(w)[f] = disk[f]
    BY <1>1, <2>1 DEF WalkFresh, Parsed, File
  <2>3. disk \in Reading
    BY Parts
  <2>4. Parsed(w) = disk
    BY <1>3, <2>2, <2>3 DEF Reading
  <2>5. QED
    BY <1>4, <2>4
<1>7. QED
  BY <1>1, <1>2, <1>4, <1>5, <1>6, Keeping

-------------------------------------------------------------------------------
(* Syncs *)

\* A step of a sync that no snapshot follows yet. Files of an official source get newer.
LEMMA SyncStep ==
    ASSUME CatalogSnapshotsAssumption, SnapshotInv,
           disk' \in Reading, upstream' \in Version, upstream' >= upstream,
           sync' \in {"idle", "writing"}, syncs' \in 0..MaxSyncs[official], ~settled',
           UNCHANGED <<entry, current, walk, official, outrun>>, settled' \in BOOLEAN,
           official => \A f \in File : disk'[f] \in 1..upstream' /\ disk[f] <= disk'[f]
    PROVE  SnapshotInv'
<1>1. SnapshotTypeOK'
  BY Parts DEF SnapshotTypeOK, Walker
<1>2. FreshInv'
  BY DEF FreshInv, Brought
<1>3. ASSUME official PROVE OrderInv'
  <2>1. Newer(disk, disk')
    <3>1. upstream \in Version /\ upstream' \in Version /\ Versions \in Nat
      BY Parts DEF CatalogSnapshotsAssumption
    <3>2. \A f \in File : disk[f] \in Version /\ disk'[f] \in Version
      BY <1>3, <3>1 DEF SnapshotInv, OrderInv, Version
    <3>3. QED
      BY <1>3, <3>2 DEF Newer
  <2>2. entry # Nothing => OrderedIn(entry, disk')
    BY <1>3, <2>1, EntriesStayOrdered DEF SnapshotInv, OrderInv
  <2>3. \A w \in Walk : WalkOrdered(walk[w], disk')
    BY <1>3, <2>1, WalksStayOrdered DEF SnapshotInv, OrderInv
  <2>4. QED
    BY <1>3, <2>2, <2>3 DEF OrderInv
<1>4. ASSUME ~official PROVE OrderInv'
  <2>1. ~official'
    BY <1>4
  <2>2. QED
    BY <2>1 DEF OrderInv
<1>5. QED
  BY <1>1, <1>2, <1>3, <1>4 DEF SnapshotInv

LEMMA Bringing ==
    ASSUME CatalogSnapshotsAssumption, SnapshotInv,
           Begin \/ (\E f \in File : Write(f)) \/ SyncFails
    PROVE  SnapshotInv'
<1>t. /\ disk \in Reading /\ upstream \in Version /\ Versions \in Nat /\ settled \in BOOLEAN
      /\ syncs \in 0..MaxSyncs[official] /\ MaxSyncs[official] \in Nat
      /\ official => \A f \in File : disk[f] \in 1..upstream
  BY Parts DEF CatalogSnapshotsAssumption, SnapshotInv, OrderInv
<1>1. CASE Begin
  <2>1. None0 \in Reading
    BY DEF None0, Reading
  <2>2. syncs' \in 0..MaxSyncs[official]
    BY <1>1, <1>t DEF Begin
  <2>3. disk' \in Reading /\ (official => disk' = disk) /\ upstream' = upstream /\ sync' = "writing"
        /\ settled' = FALSE /\ UNCHANGED <<entry, current, walk, official, outrun>>
    BY <1>1, <1>t, <2>1 DEF Begin
  <2>4. official => \A f \in File : disk'[f] \in 1..upstream' /\ disk[f] <= disk'[f]
    BY <1>t, <2>3 DEF Version
  <2>5. upstream' \in Version /\ upstream' >= upstream
    BY <1>t, <2>3 DEF Version
  <2>6. QED
    BY <2>2, <2>3, <2>4, <2>5, SyncStep
<1>2. ASSUME NEW f \in File, Write(f) PROVE SnapshotInv'
  <2>1. /\ disk' = [disk EXCEPT ![f] = upstream] /\ sync = "writing"
        /\ UNCHANGED <<upstream, sync, entry, current, walk, syncs, official, outrun, settled>>
    BY <1>2 DEF Write, history
  <2>2. disk' \in Reading /\ \A g \in File : disk'[g] = IF g = f THEN upstream ELSE disk[g]
    BY <1>t, <2>1 DEF Reading
  <2>3. official => \A g \in File : disk'[g] \in 1..upstream' /\ disk[g] <= disk'[g]
    BY <1>t, <2>1, <2>2 DEF Version
  <2>4. upstream' \in Version /\ upstream' >= upstream /\ ~settled
    BY <1>t, <2>1 DEF Version, SnapshotInv, FreshInv
  <2>5. QED
    BY <1>t, <2>1, <2>2, <2>3, <2>4, SyncStep
<1>3. CASE SyncFails
  <2>1. /\ sync = "writing" /\ sync' = "idle"
        /\ UNCHANGED <<disk, upstream, entry, current, walk, syncs, official, outrun, settled>>
    BY <1>3 DEF SyncFails, history
  <2>2. official => \A f \in File : disk'[f] \in 1..upstream' /\ disk[f] <= disk'[f]
    BY <1>t, <2>1 DEF Version
  <2>3. upstream' \in Version /\ upstream' >= upstream /\ ~settled
    BY <1>t, <2>1 DEF Version, SnapshotInv, FreshInv
  <2>4. QED
    BY <1>t, <2>1, <2>2, <2>3, SyncStep
<1>4. QED
  BY <1>1, <1>2, <1>3

\* The snapshot is built anew from the files as they have been brought.
LEMMA RebuildStep == ASSUME CatalogSnapshotsAssumption, SnapshotInv, Rebuild PROVE SnapshotInv'
<1> DEFINE k == [Still EXCEPT !.at = "collecting", !.cached = Nothing]
<1>1. /\ sync = "writing" /\ sync' = "building" /\ entry' = Nothing /\ current' = FALSE
      /\ \A f \in File : disk[f] = upstream
      /\ walk["forced"].at = "idle" /\ walk' = [walk EXCEPT !["forced"] = k]
      /\ outrun' = (walk["shared"].at # "idle")
      /\ UNCHANGED <<disk, upstream, syncs, official, settled>>
  BY DEF Rebuild, Start, Walking
<1>2. k \in Walker /\ k.cached = Nothing /\ k.at = "collecting"
  <2>1. Still \in Walker
    BY StillWalker
  <2>2. QED
    BY <2>1 DEF Walker
<1> HIDE DEF k
<1>3. "forced" \in Walk /\ Walk = {"shared", "forced"}
  BY DEF Walk
<1>4. /\ walk' \in [Walk -> Walker] /\ walk'["forced"] = k
      /\ walk'["shared"] = walk["shared"]
  BY <1>1, <1>2, <1>3, Parts
<1>5. SnapshotTypeOK'
  BY <1>1, <1>4, Parts DEF SnapshotTypeOK, Walker
<1>6. OrderInv'
  <2>1. WalkOrdered(k, disk)
    BY <1>2 DEF WalkOrdered
  <2>2. QED
    BY <1>1, <1>3, <1>4, <2>1 DEF SnapshotInv, OrderInv
<1>7. FreshInv'
  <2>1. \A f \in File : disk[f] \in Version
    BY <1>1, Parts
  <2>2. WalkFresh(k, disk)
    BY <1>2 DEF WalkFresh
  <2>3. QED
    BY <1>1, <1>3, <1>4, <2>1, <2>2 DEF FreshInv, WalkFresh
<1>8. QED
  BY <1>5, <1>6, <1>7 DEF SnapshotInv

LEMMA OtherSteps ==
    ASSUME CatalogSnapshotsAssumption, SnapshotInv, SyncEnds \/ PublishCatalog \/ Age \/ EntryExpires
    PROVE  SnapshotInv'
<1>1. CASE SyncEnds
  <2>1. /\ sync = "building" /\ sync' = "idle" /\ settled' = TRUE
        /\ UNCHANGED <<disk, upstream, entry, current, walk, syncs, official, outrun>>
    BY <1>1 DEF SyncEnds
  <2>2. SnapshotTypeOK'
    BY <2>1, Parts DEF SnapshotTypeOK, Walker
  <2>3. OrderInv'
    BY <2>1 DEF SnapshotInv, OrderInv
  <2>4. FreshInv'
    BY <2>1 DEF SnapshotInv, FreshInv, Brought
  <2>5. QED
    BY <2>2, <2>3, <2>4 DEF SnapshotInv
<1>2. CASE PublishCatalog
  <2>1. /\ upstream' = upstream + 1 /\ upstream < Versions /\ Versions \in Nat /\ upstream \in Version
        /\ UNCHANGED <<disk, sync, entry, current, walk, syncs, official, outrun, settled>>
    BY <1>2, Parts DEF PublishCatalog, history, CatalogSnapshotsAssumption
  <2>2. upstream' \in Version /\ 1..upstream \subseteq 1..upstream'
    BY <2>1 DEF Version
  <2>3. SnapshotTypeOK'
    BY <2>1, <2>2, Parts DEF SnapshotTypeOK, Walker
  <2>4. OrderInv'
    BY <2>1, <2>2 DEF SnapshotInv, OrderInv
  <2>5. FreshInv'
    BY <2>1 DEF SnapshotInv, FreshInv, Brought
  <2>6. QED
    BY <2>3, <2>4, <2>5 DEF SnapshotInv
<1>3. CASE Age \/ EntryExpires
  <2>1. /\ entry' \in {entry, Nothing} /\ current' = FALSE
        /\ UNCHANGED <<disk, upstream, sync, walk, syncs, official, outrun, settled>>
    BY <1>3 DEF Age, EntryExpires, history
  <2>2. SnapshotTypeOK'
    BY <2>1, Parts DEF SnapshotTypeOK, Walker
  <2>3. OrderInv'
    BY <2>1 DEF SnapshotInv, OrderInv
  <2>4. FreshInv'
    BY <2>1 DEF SnapshotInv, FreshInv, Brought
  <2>5. QED
    BY <2>2, <2>3, <2>4 DEF SnapshotInv
<1>4. QED
  BY <1>1, <1>2, <1>3

LEMMA SnapshotStep ==
    ASSUME CatalogSnapshotsAssumption, SnapshotInv, [SnapshotNext]_snapshotVars PROVE SnapshotInv'
<1>1. CASE Look
  BY <1>1, LookStep
<1>2. ASSUME NEW w \in Walk, Step(w) PROVE SnapshotInv'
  BY <1>2, CollectStep, CompareStep, ParseStep, StatStep, ReadListStep DEF Step
<1>3. CASE Begin \/ (\E f \in File : Write(f)) \/ SyncFails
  BY <1>3, Bringing
<1>4. CASE Rebuild
  BY <1>4, RebuildStep
<1>5. CASE SyncEnds \/ PublishCatalog \/ Age \/ EntryExpires
  BY <1>5, OtherSteps
<1>6. CASE UNCHANGED snapshotVars
  <2>1. UNCHANGED <<disk, upstream, sync, entry, current, walk, syncs, official, outrun, settled>>
    BY <1>6 DEF snapshotVars
  <2>2. SnapshotTypeOK'
    BY <2>1, Parts DEF SnapshotTypeOK, Walker
  <2>3. OrderInv'
    BY <2>1 DEF SnapshotInv, OrderInv
  <2>4. FreshInv'
    BY <2>1 DEF SnapshotInv, FreshInv, Brought
  <2>5. QED
    BY <2>2, <2>3, <2>4 DEF SnapshotInv
<1>7. QED
  BY <1>1, <1>2, <1>3, <1>4, <1>5, <1>6 DEF SnapshotNext

\* Files, walks and the entry kept have their types.
THEOREM SnapshotTypeCorrect == CatalogSnapshotsAssumption => (SnapshotSpec => []SnapshotTypeOK)
<1> SUFFICES ASSUME CatalogSnapshotsAssumption PROVE SnapshotSpec => []SnapshotTypeOK
  OBVIOUS
<1>1. SnapshotInit => SnapshotInv
  BY SnapshotInitInv
<1>2. SnapshotInv /\ [SnapshotNext]_snapshotVars => SnapshotInv'
  BY SnapshotStep
<1>3. SnapshotInv => SnapshotTypeOK
  BY DEF SnapshotInv
<1>4. QED
  BY <1>1, <1>2, <1>3, PTL DEF SnapshotSpec

\* buildSourceSnapshot serves what revalidateSourceSnapshot kept: for any files, versions and
\* number of syncs, a snapshot of the official source has its files' signature only if it has
\* their contents, and what a sync has brought is served after it unless a walk outran it.
THEOREM SnapshotsAreCurrent == CatalogSnapshotsAssumption => (SnapshotSpec => []SnapshotsFollowFiles)
<1> SUFFICES ASSUME CatalogSnapshotsAssumption PROVE SnapshotSpec => []SnapshotsFollowFiles
  OBVIOUS
<1>1. SnapshotInit => SnapshotInv
  BY SnapshotInitInv
<1>2. SnapshotInv /\ [SnapshotNext]_snapshotVars => SnapshotInv'
  BY SnapshotStep
<1>3. SnapshotInv => SnapshotsFollowFiles
  <2> SUFFICES ASSUME SnapshotInv, entry # Nothing
               PROVE  /\ official /\ entry.signature = disk => entry.snapshot = disk
                      /\ settled /\ ~outrun => entry.snapshot = disk
    BY DEF SnapshotsFollowFiles
  <2>1. entry \in Entry /\ disk \in Reading
    BY Parts
  <2>2. official => OrderedIn(entry, disk)
    BY DEF SnapshotInv, OrderInv
  <2>3. settled /\ ~outrun => entry.snapshot = disk
    BY DEF SnapshotInv, FreshInv, Brought
  <2>4. QED
    BY <2>1, <2>2, <2>3, SameSignature
<1>4. QED
  BY <1>1, <1>2, <1>3, PTL DEF SnapshotSpec

=================================================================================
