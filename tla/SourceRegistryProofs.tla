-------------------------- MODULE SourceRegistryProofs --------------------------
(***************************************************************************)
(* The registry of store sources for any number of sources, requests and   *)
(* faults: no change is lost, and SourceRegistry implements                *)
(* CatalogRegistry.  The argument rests on TurnInv: the one job that may   *)
(* have loaded the list is the first of the queue, and what it has loaded  *)
(* is still what the file holds.                                           *)
(***************************************************************************)
EXTENDS SourceRegistry, SequenceTheorems, TLAPS

Pending(t) == pc[t] \in {"queued", "loaded"}

\* Only the first of the queue has loaded, and nothing was written since.
TurnInv == \A t \in Task : pc[t] = "loaded" => HasTurn(t) /\ base[t] = file

\* A request at work has a source, one in the queue a mutator, and a sync or a listing the
\* entry it has read.
WorkInv ==
    \A t \in Task :
        /\ pc[t] # "idle" => target[t] \in Source
        /\ Pending(t) => job[t] \in Jobs
        /\ \/ pc[t] \in {"downloading", "extracting", "indexing", "looking"}
           \/ Pending(t) /\ job[t] \in {"syncing", "ready"}
           => seen[t] \in Entry

\* An addition in the queue is the only one of its id, which nobody has yet.
AddInv ==
    \A t \in Task : Pending(t) /\ job[t] = "add" =>
        /\ \E u \in Url : seen[t] = NewEntry(u, "syncing", "top")
        /\ file[target[t]] = Absent
        /\ \A x \in Task : Pending(x) /\ job[x] = "add" /\ target[x] = target[t] => x = t

Inv == TypeOK /\ TurnInv /\ WorkInv /\ AddInv /\ AsAsked

\* The request steps, none of which writes the file.
Request(t) ==
    \/ \E s \in Source : AskAdd(t, s) \/ AskChange(t, s) \/ AskRefresh(t, s) \/ AskList(t, s)
    \/ Read(t) \/ ReadFails(t) \/ Clear(t) \/ Extract(t) \/ Index(t) \/ DownloadFails(t)
    \/ CleanUp(t) \/ LookJoins(t) \/ LookFinds(t) \/ LookFails(t)

World == Spoil \/ Mend \/ Restart

-------------------------------------------------------------------------------
(* Mutators and the queue *)

\* A mutator that does not throw leaves its source an entry, or removes it.
LEMMA ChangedType ==
    ASSUME TypeOK, WorkInv, NEW t \in Task, Pending(t),
           NEW r \in [Source -> Entry \cup {Absent}], ~Refused(t, r),
           job[t] = "add" => seen[t] \in Entry
    PROVE  Mutated(t, r) \in [Source -> Entry \cup {Absent}]
<1>1. target[t] \in Source /\ job[t] \in Jobs
    BY DEF WorkInv, Pending
<1>2. job[t] # "add" => r[target[t]] \in Entry
    BY <1>1 DEF Refused
<1>3. Changed(t, r[target[t]]) \in Entry \cup {Absent}
    <2>1. CASE job[t] = "add"
        BY <2>1 DEF Changed
    <2>2. CASE job[t] = "remove"
        BY <2>2 DEF Changed
    <2>3. CASE job[t] \in {"enable", "disable"}
        BY <2>3, <1>2 DEF Changed, WithEnabled, Entry
    <2>4. CASE job[t] \in {"syncing", "ready", "error", "alarm"}
        <3>1. NewPath(t, r[target[t]]) \in Path /\ NewStatus(t) \in {"syncing", "ready", "error"}
            BY <2>4, <1>2 DEF NewPath, NewStatus, WorkInv, Entry
        <3> QED
            BY <2>4, <1>2, <3>1 DEF Changed, WithStatus, Entry
    <2> QED
        BY <1>1, <2>1, <2>2, <2>3, <2>4 DEF Jobs
<1> QED
    BY <1>3 DEF Mutated

\* The entry an addition brings is well formed.
LEMMA AddedType ==
    ASSUME AddInv, NEW t \in Task, Pending(t), job[t] = "add"
    PROVE  seen[t] \in Entry
<1>1. PICK u \in Url : seen[t] = NewEntry(u, "syncing", "top")
    BY DEF AddInv
<1> QED
    BY <1>1 DEF NewEntry, Entry, Path

\* The first leaves the queue; the others keep their places.
LEMMA QueueTail ==
    ASSUME TypeOK, NEW t \in Task, HasTurn(t)
    PROVE  Tail(queue) \in Seq(Task)
BY HeadTailProperties DEF TypeOK, HasTurn

\* Whoever joins the queue comes last.
LEMMA QueueAppend ==
    ASSUME TypeOK, NEW t \in Task
    PROVE  /\ Append(queue, t) \in Seq(Task)
           /\ Append(queue, t) # <<>>
           /\ queue # <<>> => Head(Append(queue, t)) = Head(queue)
<1> DEFINE q == Append(queue, t)
<1>1. /\ q \in Seq(Task) /\ q # <<>> /\ \A i \in 1..Len(queue) : q[i] = queue[i]
    BY AppendProperties DEF TypeOK
<1>2. queue # <<>> => 1 \in 1..Len(queue)
    BY EmptySeq DEF TypeOK
<1> QED
    BY <1>1, <1>2 DEF TypeOK

-------------------------------------------------------------------------------
(* Each kind of step preserves the invariant *)

\* A path that was found, or is looked at by another listing, changes the entry that was read.
LEMMA PathSeen ==
    ASSUME TypeOK, WorkInv, NEW t \in Task, Extract(t) \/ LookJoins(t)
    PROVE  seen' \in [Task -> Entry \cup {Absent}] /\ seen'[t] \in Entry
<1>1. seen[t] \in Entry
    BY DEF Extract, LookJoins, WorkInv
<1>2. PICK p \in Path : seen' = [seen EXCEPT ![t].path = p]
    <2>1. CASE Extract(t)
        BY <2>1 DEF Extract, Path
    <2>2. CASE LookJoins(t)
        <3>1. PICK x \in Task : pc[x] = "looking" /\ seen' = [seen EXCEPT ![t].path = seen[x].path]
            BY <2>2 DEF LookJoins
        <3>2. seen[x].path \in Path
            BY <3>1 DEF WorkInv, Entry
        <3> QED
            BY <3>1, <3>2
    <2> QED
        BY <2>1, <2>2
<1>3. [seen[t] EXCEPT !.path = p] \in Entry
    BY <1>1 DEF Entry
<1> QED
    BY <1>2, <1>3 DEF TypeOK

\* A request step may join the queue, but writes neither the file nor a list.
LEMMA RequestStep ==
    ASSUME Inv, NEW t \in Task, Request(t)
    PROVE  Inv'
<1> USE DEF Inv
<1> USE RegistryAssumption DEF RegistryAssumption
<1>1. UNCHANGED <<file, readable, base, promised, faults>>
    BY DEF Request, Ask, AskAdd, AskChange, AskRefresh, AskList, Read, ReadFails, Clear, Extract, Index,
           DownloadFails, CleanUp, LookJoins, LookFinds, LookFails, Enqueue
<1>2. /\ pc[t] \notin {"queued", "loaded"} /\ pc'[t] # "loaded"
      /\ \A x \in Task \ {t} : pc'[x] = pc[x] /\ job'[x] = job[x] /\ target'[x] = target[x]
                               /\ seen'[x] = seen[x]
    BY DEF TypeOK, Request, Ask, AskAdd, AskChange, AskRefresh, AskList, Read, ReadFails, Clear,
           Extract, Index, DownloadFails, CleanUp, LookJoins, LookFinds, LookFails, Enqueue
<1>3. queue' = queue \/ queue' = Append(queue, t)
    BY DEF Request, Ask, AskAdd, AskChange, AskRefresh, AskList, Read, ReadFails, Clear, Extract, Index,
           DownloadFails, CleanUp, LookJoins, LookFinds, LookFails, Enqueue
<1>4. TypeOK'
    <2>1. queue' \in Seq(Task)
        BY <1>3, QueueAppend DEF TypeOK
    <2>2. PICK at \in {"reading", "looking", "queued", "extracting", "indexing", "over"} :
              pc' = [pc EXCEPT ![t] = at]
        BY DEF TypeOK, Request, Ask, AskAdd, AskChange, AskRefresh, AskList, Read, ReadFails, Clear,
               Extract, Index, DownloadFails, CleanUp, LookJoins, LookFinds, LookFails, Enqueue
    <2>3. target' \in [Task -> Source \cup {None}]
        BY DEF TypeOK, Request, Ask, AskAdd, AskChange, AskRefresh, AskList, Read, ReadFails, Clear,
               Extract, Index, DownloadFails, CleanUp, LookJoins, LookFinds, LookFails, Enqueue
    <2>4. job' \in [Task -> Jobs \cup {"none"}]
        BY DEF TypeOK, Request, Ask, AskAdd, AskChange, AskRefresh, AskList, Read, ReadFails, Clear,
               Extract, Index, DownloadFails, CleanUp, LookJoins, LookFinds, LookFails, Enqueue, Jobs
    <2>5. seen' \in [Task -> Entry \cup {Absent}]
        <3>1. \/ UNCHANGED seen \/ (\E s \in Source : AskAdd(t, s) \/ AskList(t, s))
              \/ Read(t) \/ Extract(t) \/ LookJoins(t)
            BY DEF Request, AskChange, AskRefresh, ReadFails, Clear, Index,
                   DownloadFails, CleanUp, LookFinds, LookFails
        <3>2. ASSUME NEW s \in Source, AskAdd(t, s) PROVE seen' \in [Task -> Entry \cup {Absent}]
            <4>1. PICK u \in Url : seen' = [seen EXCEPT ![t] = NewEntry(u, "syncing", "top")]
                BY <3>2 DEF AskAdd
            <4>2. NewEntry(u, "syncing", "top") \in Entry
                BY DEF NewEntry, Entry, Path
            <4> QED
                BY <4>1, <4>2 DEF TypeOK
        <3>4. ASSUME NEW s \in Source, AskList(t, s) PROVE seen' \in [Task -> Entry \cup {Absent}]
            BY <3>4 DEF TypeOK, AskList
        <3>3. CASE Read(t)
            BY <3>3 DEF TypeOK, Read, WorkInv
        <3>5. CASE Extract(t) \/ LookJoins(t)
            BY <3>5, PathSeen
        <3> QED
            BY <3>1, <3>2, <3>3, <3>4, <3>5 DEF TypeOK
    <2>6. dir' \in [Source -> SUBSET Path]
        BY DEF TypeOK, Request, Ask, AskAdd, AskChange, AskRefresh, AskList, Read, ReadFails, Clear,
               Extract, Index, DownloadFails, CleanUp, LookJoins, LookFinds, LookFails
    <2> QED
        BY <1>1, <2>1, <2>2, <2>3, <2>4, <2>5, <2>6 DEF TypeOK
<1>5. TurnInv'
    <2> SUFFICES ASSUME NEW x \in Task, pc'[x] = "loaded" PROVE HasTurn(x)' /\ base'[x] = file'
        BY DEF TurnInv
    <2>1. x # t /\ pc[x] = "loaded"
        BY <1>2
    <2>2. HasTurn(x) /\ base[x] = file
        BY <2>1 DEF TurnInv
    <2> QED
        BY <1>1, <1>3, <2>2, QueueAppend DEF HasTurn
<1>6. WorkInv'
    <2>1. target'[t] \in Source /\ (pc'[t] = "queued" => job'[t] \in Jobs)
        BY DEF TypeOK, WorkInv, Request, Ask, AskAdd, AskChange, AskRefresh, AskList, Read, ReadFails,
               Clear, Extract, Index, DownloadFails, CleanUp, LookJoins, LookFinds, LookFails, Enqueue, Jobs
    <2>2. \/ pc'[t] \in {"downloading", "extracting", "indexing", "looking"}
          \/ Pending(t)' /\ job'[t] \in {"syncing", "ready"}
          => seen'[t] \in Entry
        <3>1. CASE Read(t) \/ \E s \in Source : AskList(t, s)
            BY <3>1 DEF Read, AskList, Ask, TypeOK, WorkInv
        <3>2. CASE Extract(t) \/ LookJoins(t)
            BY <3>2, PathSeen
        <3>4. CASE Clear(t) \/ Index(t)
            BY <3>4 DEF WorkInv, Clear, Index
        <3>3. CASE \/ \E s \in Source : AskAdd(t, s) \/ AskChange(t, s) \/ AskRefresh(t, s)
                   \/ ReadFails(t) \/ DownloadFails(t) \/ CleanUp(t) \/ LookFinds(t) \/ LookFails(t)
            BY <3>3 DEF TypeOK, Pending, Ask, AskAdd, AskChange, AskRefresh, ReadFails, DownloadFails,
                        CleanUp, LookFinds, LookFails, Enqueue
        <3> QED
            BY <3>1, <3>2, <3>3, <3>4 DEF Request
    <2> QED
        BY <1>2, <2>1, <2>2 DEF WorkInv, Pending
<1>7. AddInv'
    <2>1. (\E s \in Source : AskAdd(t, s)) \/ ~(pc'[t] = "queued" /\ job'[t] = "add")
        BY DEF TypeOK, Request, Ask, AskChange, AskRefresh, AskList, Read, ReadFails, Clear,
               Extract, Index, DownloadFails, CleanUp, LookJoins, LookFinds, LookFails, Enqueue
    <2>2. ASSUME NEW s \in Source, AskAdd(t, s)
          PROVE  /\ target'[t] = s /\ file[s] = Absent /\ \A x \in Task : target[x] # s
                 /\ \E u \in Url : seen'[t] = NewEntry(u, "syncing", "top")
        BY <2>2 DEF AskAdd, Ask, TypeOK
    <2> QED
        BY <1>1, <1>2, <2>1, <2>2 DEF AddInv, Pending
<1>8. AsAsked'
    BY <1>1 DEF AsAsked
<1> QED
    BY <1>4, <1>5, <1>6, <1>7, <1>8

\* A job that only loads, or leaves without writing.
LEMMA QuietJobStep ==
    ASSUME Inv, NEW t \in Task, Load(t) \/ LoadFails(t) \/ Refuse(t) \/ PersistFails(t)
    PROVE  Inv'
<1> USE DEF Inv
<1>1. /\ UNCHANGED <<file, target, job, seen, dir, promised, readable>>
      /\ HasTurn(t) /\ Pending(t)
    BY DEF Load, LoadFails, Refuse, PersistFails, Pending
<1>2. \A x \in Task : pc[x] = "loaded" => x = t
    BY <1>1 DEF TurnInv, HasTurn
<1>3. CASE Load(t)
    <2>1. TypeOK'
        BY <1>3 DEF Load, TypeOK
    <2>2. TurnInv'
        BY <1>2, <1>3 DEF Load, TurnInv, HasTurn, TypeOK
    <2>3. WorkInv' /\ AddInv' /\ AsAsked'
        BY <1>1, <1>3 DEF Load, WorkInv, AddInv, Pending, AsAsked, TypeOK
    <2> QED
        BY <2>1, <2>2, <2>3
<1>4. CASE LoadFails(t) \/ Refuse(t) \/ PersistFails(t)
    <2>1. /\ queue' = Tail(queue) /\ pc' = [pc EXCEPT ![t] = "over"]
          /\ base' = [base EXCEPT ![t] = NoList] /\ faults' \in 0..MaxFaults
        BY <1>4, RegistryAssumption
        DEF LoadFails, Refuse, PersistFails, Rejected, Leave, TypeOK, RegistryAssumption
    <2>2. TypeOK'
        BY <1>1, <2>1, QueueTail DEF TypeOK, NoList
    <2>3. TurnInv'
        BY <1>2, <2>1 DEF TurnInv, TypeOK
    <2>4. WorkInv' /\ AddInv' /\ AsAsked'
        BY <1>1, <2>1 DEF WorkInv, AddInv, Pending, AsAsked, TypeOK
    <2> QED
        BY <2>2, <2>3, <2>4
<1> QED
    BY <1>3, <1>4

\* The write: what the job has loaded is what the file holds and what was asked.
LEMMA PersistStep ==
    ASSUME Inv, NEW t \in Task, Persist(t)
    PROVE  Inv' /\ file' = Mutated(t, file) /\ ~Refused(t, file)
<1> USE DEF Inv
<1>1. HasTurn(t) /\ pc[t] = "loaded" /\ Pending(t) /\ base[t] = file /\ promised = file
    BY DEF Persist, TurnInv, Pending, AsAsked
<1>2. ~Refused(t, file) /\ file' = Mutated(t, file) /\ promised' = Mutated(t, file)
    BY <1>1 DEF Persist
<1>3. target[t] \in Source /\ file \in [Source -> Entry \cup {Absent}]
    BY <1>1 DEF WorkInv, TypeOK
<1>4. \A x \in Task : pc[x] = "loaded" => x = t
    BY <1>1 DEF TurnInv, HasTurn
<1>5. /\ queue' = Tail(queue) /\ base' = [base EXCEPT ![t] = NoList]
      /\ pc'[t] \in {"reading", "downloading", "cleaning", "over"}
      /\ pc'[t] = "downloading" => job[t] = "syncing"
      /\ pc' = [pc EXCEPT ![t] = pc'[t]]
      /\ UNCHANGED <<target, job, seen, dir, faults>> /\ readable' = TRUE
    BY DEF Persist, Resolved, Leave, TypeOK
<1>6. TypeOK'
    <2>1. file' \in [Source -> Entry \cup {Absent}] /\ promised' = file'
        BY <1>1, <1>2, <1>3, ChangedType, AddedType
    <2> QED
        BY <2>1, <1>1, <1>5, QueueTail DEF TypeOK, NoList
<1>7. TurnInv'
    BY <1>4, <1>5 DEF TurnInv, TypeOK
<1>8. WorkInv'
    BY <1>1, <1>5 DEF WorkInv, Pending, TypeOK
<1>9. AddInv'
    <2> SUFFICES ASSUME NEW x \in Task, Pending(x)', job'[x] = "add"
                 PROVE  /\ \E u \in Url : seen'[x] = NewEntry(u, "syncing", "top")
                        /\ file'[target'[x]] = Absent
                        /\ \A y \in Task : Pending(y)' /\ job'[y] = "add" /\ target'[y] = target'[x]
                               => y = x
        BY DEF AddInv
    <2>1. x # t /\ Pending(x) /\ job[x] = "add" /\ target[x] \in Source
        BY <1>5 DEF Pending, TypeOK, WorkInv
    <2>2. target[t] # target[x]
        <3>1. CASE job[t] = "add"
            BY <3>1, <1>1, <2>1 DEF AddInv
        <3>2. CASE job[t] # "add"
            BY <3>2, <1>2, <2>1 DEF AddInv, Refused
        <3> QED
            BY <3>1, <3>2
    <2>3. file'[target[x]] = Absent
        BY <1>2, <1>3, <2>1, <2>2 DEF Mutated, AddInv
    <2>4. \A y \in Task : Pending(y)' => Pending(y)
        BY <1>1, <1>5 DEF Pending, TypeOK
    <2> QED
        BY <1>5, <2>1, <2>3, <2>4 DEF AddInv
<1>10. AsAsked'
    BY <1>2 DEF AsAsked
<1> QED
    BY <1>2, <1>6, <1>7, <1>8, <1>9, <1>10

\* The file is broken and mended by hand, and the server restarted.
LEMMA WorldStep ==
    ASSUME Inv, World
    PROVE  Inv' /\ file' = file
<1> USE RegistryAssumption DEF RegistryAssumption, Inv, requests
<1>1. CASE Spoil \/ Mend
    <2>1. UNCHANGED <<file, queue, pc, target, job, base, seen, dir, promised>>
        BY <1>1 DEF Spoil, Mend
    <2>2. readable' \in BOOLEAN
        BY <1>1, Zenon DEF Spoil, Mend
    <2>3. faults' \in 0..MaxFaults
        <3>1. faults' = faults \/ (faults < MaxFaults /\ faults' = faults + 1)
            BY <1>1 DEF Spoil, Mend
        <3> QED
            BY <3>1 DEF TypeOK
    <2>4. TypeOK'
        BY <2>1, <2>2, <2>3 DEF TypeOK
    <2> QED
        BY <2>1, <2>4 DEF TurnInv, HasTurn, WorkInv, AddInv, Pending, AsAsked
<1>2. CASE Restart
    <2>1. TypeOK'
        BY <1>2, EmptySeq DEF Restart, TypeOK, NoList
    <2> QED
        BY <1>2, <2>1 DEF Restart, TypeOK, TurnInv, WorkInv, AddInv, Pending, AsAsked
<1> QED
    BY <1>1, <1>2 DEF World

-------------------------------------------------------------------------------
\* The next-state relation, by kind of step.
LEMMA StepKinds ==
    ASSUME [Next]_vars
    PROVE  \/ \E t \in Task : Request(t)
           \/ \E t \in Task : Load(t) \/ LoadFails(t) \/ Refuse(t) \/ PersistFails(t)
           \/ \E t \in Task : Persist(t)
           \/ World
           \/ UNCHANGED vars
BY Zenon DEF Next, JobStep, Request, World

\* The file is empty of requests at first.
LEMMA InitInv == Init => Inv
<1> SUFFICES ASSUME Init PROVE Inv
    OBVIOUS
<1>1. TypeOK
    BY RegistryAssumption, EmptySeq DEF RegistryAssumption, Init, TypeOK, NewEntry, Entry, NoList
<1> QED
    BY <1>1 DEF Init, Inv, TurnInv, WorkInv, AddInv, Pending, AsAsked

\* The inductive invariant holds in every reachable state.
THEOREM Invariance == Spec => []Inv
<1>1. Inv /\ [Next]_vars => Inv'
    <2> SUFFICES ASSUME Inv, [Next]_vars PROVE Inv'
        OBVIOUS
    <2>1. CASE UNCHANGED vars
        BY <2>1 DEF vars, requests, Inv, TypeOK, TurnInv, HasTurn, WorkInv, AddInv, Pending, AsAsked
    <2> QED
        BY <2>1, StepKinds, RequestStep, QuietJobStep, PersistStep, WorldStep
<1> QED
    BY <1>1, InitInv, PTL DEF Spec

\* Type correctness.
THEOREM RegistryTypeCorrect == Spec => []TypeOK
<1>1. Inv => TypeOK
    BY DEF Inv
<1> QED
    BY <1>1, Invariance, PTL

\* No change of the registry is lost or comes back.
THEOREM ChangesAsAsked == Spec => []AsAsked
<1>1. Inv => AsAsked
    BY DEF Inv
<1> QED
    BY <1>1, Invariance, PTL
-------------------------------------------------------------------------------
(* The refinement of CatalogRegistry *)

\* A write is one change of the abstract registry, or rewrites what is there.
LEMMA PersistRefines ==
    ASSUME Inv, NEW t \in Task, Persist(t)
    PROVE  Registry!RegistryNext \/ file' = file
<1> DEFINE s == target[t]
<1>1. /\ file' = [file EXCEPT ![s] = Changed(t, file[s])] /\ ~Refused(t, file)
      /\ s \in Source /\ job[t] \in Jobs /\ file \in [Source -> Entry \cup {Absent}]
      /\ job[t] = "add" => file[s] = Absent /\ \E u \in Url : seen[t] = NewEntry(u, "syncing", "top")
    BY PersistStep DEF Mutated, Inv, WorkInv, AddInv, Pending, TypeOK, Persist
<1> HIDE DEF s
<1>2. job[t] # "add" => file[s] # Absent
    BY <1>1 DEF Refused, s
<1>3. CASE job[t] = "add"
    <2>1. PICK u \in Url : seen[t] = NewEntry(u, "syncing", "top")
        BY <1>1, <1>3
    <2>2. seen[t].url = u
        BY <2>1 DEF NewEntry
    <2>3. \A x \in Source : file[x] # Absent => file[x].url # u
        BY <1>1, <1>3, <2>2 DEF Refused
    <2>4. file' = [file EXCEPT ![s] = [url |-> u, status |-> "syncing", enabled |-> TRUE,
                                       path |-> "top"]]
        BY <1>1, <1>3, <2>1 DEF Changed, NewEntry
    <2>5. Registry!Add(s)
        BY <1>1, <1>3, <2>3, <2>4 DEF Registry!Add, Registry!Present
    <2> QED
        BY <1>1, <2>5 DEF Registry!RegistryNext
<1>4. CASE job[t] = "remove"
    <2>1. Registry!Remove(s)
        BY <1>1, <1>2, <1>4 DEF Changed, Registry!Remove, Registry!Present
    <2> QED
        BY <1>1, <2>1 DEF Registry!RegistryNext
<1>5. CASE job[t] \in {"enable", "disable"}
    <2>1. Registry!SetEnabled(s)
        BY <1>1, <1>2, <1>5 DEF Changed, WithEnabled, Registry!SetEnabled, Registry!Present
    <2> QED
        BY <1>1, <2>1 DEF Registry!RegistryNext
<1>6. CASE job[t] \in {"syncing", "ready", "error", "alarm"}
    <2>1. NewStatus(t) \in {"syncing", "ready", "error"}
        BY <1>6 DEF NewStatus
    <2>2. file' = [file EXCEPT ![s] =
             [url |-> file[s].url, status |-> NewStatus(t), enabled |-> file[s].enabled,
              path |-> NewPath(t, file[s])]]
        BY <1>1, <1>6 DEF Changed, WithStatus
    <2>4. /\ NewPath(t, file[s]) \in Registry!Path
          /\ NewStatus(t) = "ready" \/ NewPath(t, file[s]) = file[s].path
        <3>1. /\ file[s] \in Entry
              /\ job[t] = "ready" => seen[t] \in Entry
            BY <1>1, <1>2, <1>6 DEF Inv, WorkInv, Pending, Persist
        <3> QED
            BY <1>6, <3>1 DEF NewPath, NewStatus, Entry, Path, Registry!Path
    <2>3. Registry!SetStatus(s)
        BY <1>1, <1>2, <1>6, <2>1, <2>2, <2>4 DEF Registry!SetStatus, Registry!Present, Registry!Status
    <2> QED
        BY <1>1, <2>3 DEF Registry!RegistryNext
<1> QED
    BY <1>1, <1>3, <1>4, <1>5, <1>6 DEF Jobs

\* The sources there are at first have URLs of their own.
LEMMA InitRefines == Init => Registry!RegistryInit
<1> SUFFICES ASSUME Init PROVE Registry!RegistryInit
    OBVIOUS
<1>1. file \in [Source -> Entry \cup {Absent}]
    BY InitInv DEF Inv, TypeOK
<1>2. \A s \in Source : file[s] # Absent => s \in DOMAIN Existing /\ file[s].url = Existing[s]
    BY DEF Init, NewEntry
<1>3. \A s, t \in Registry!Present : file[s].url = file[t].url => s = t
    BY <1>2, RegistryAssumption DEF RegistryAssumption, Registry!Present
<1> QED
    BY <1>1, <1>3 DEF Registry!RegistryInit, Registry!Entry, Registry!Status, Registry!Path, Entry, Path

\* The queue of whole-file rewrites implements one-change-at-a-time.
THEOREM ImplementsRegistry == Spec => RegistrySpec
<1>1. Inv /\ [Next]_vars => [Registry!RegistryNext]_file
    <2> SUFFICES ASSUME Inv, [Next]_vars PROVE Registry!RegistryNext \/ file' = file
        OBVIOUS
    <2>1. ASSUME NEW t \in Task, Request(t) PROVE file' = file
        BY <2>1 DEF Request, Ask, AskAdd, AskChange, AskRefresh, AskList, Read, ReadFails, Clear,
               Extract, Index, DownloadFails, CleanUp, LookJoins, LookFinds, LookFails
    <2>2. ASSUME NEW t \in Task, Load(t) \/ LoadFails(t) \/ Refuse(t) \/ PersistFails(t)
          PROVE  file' = file
        BY <2>2 DEF Load, LoadFails, Refuse, PersistFails
    <2>3. CASE UNCHANGED vars
        BY <2>3 DEF vars
    <2> QED
        BY <2>1, <2>2, <2>3, StepKinds, PersistRefines, WorldStep
<1> QED
    BY <1>1, InitRefines, Invariance, PTL DEF Spec, RegistrySpec, Registry!RegistrySpec

-------------------------------------------------------------------------------
(* The last word of a sync: once nobody works on a source, and no sync of it has    *)
(* failed, the path it is to have leads to a catalog, and only a listing that looks *)
(* elsewhere can still mark it as failed.                                           *)

\* A request that still has to end the sync of s, or could not.
Works(t, s) ==
    /\ target[t] = s
    /\ \/ pc[t] \in {"reading", "downloading", "extracting", "indexing"}
       \/ Pending(t) /\ job[t] = "syncing"
       \/ job[t] = "error"

Settles(t, s) == target[t] = s /\ Pending(t) /\ job[t] = "ready"
Alarms(t, s)  == target[t] = s /\ Pending(t) /\ job[t] = "alarm"

\* The path a request writes leads to a catalog.
Found(t, s) == seen[t].path \in dir[s]

\* A listing that has marked s looked at a path that leads nowhere now.
Strayed(t, s) == target[t] = s /\ pc[t] = "over" /\ job[t] = "alarm" /\ ~Found(t, s)

Behind(a, t) == \E i, j \in 1..Len(queue) : i < j /\ queue[i] = a /\ queue[j] = t

\* The queue holds each request that waits, once.
LineInv ==
    /\ \A i \in 1..Len(queue) : Pending(queue[i])
    /\ \A i, j \in 1..Len(queue) : queue[i] = queue[j] => i = j
    /\ \A t \in Task : Pending(t) => \E i \in 1..Len(queue) : queue[i] = t

SideInv ==
    /\ faults = 0 => readable
    /\ \A t \in Task : pc[t] = "cleaning" => file[target[t]] = Absent
    /\ \A t \in Task : job[t] = "error" => Pending(t) \/ pc[t] = "over"
    /\ \A t, x \in Task : Pending(t) /\ job[t] = "add" /\ target[x] = target[t] => x = t

\* Nobody works on s; then somebody who waits may still make it ready, at a path that
\* leads to a catalog, after everybody who would write another path or an error.
Quiet(s) == faults = 0 /\ file[s] # Absent /\ \A t \in Task : ~Works(t, s)

WordInv(s) ==
    Quiet(s) =>
        /\ file[s].path \in dir[s] \/ \E t \in Task : Settles(t, s) /\ Found(t, s)
        /\ file[s].status # "ready" =>
              \E t \in Task : (Settles(t, s) /\ Found(t, s)) \/ Strayed(t, s)
        /\ \A x \in Task : Settles(x, s) \/ Alarms(x, s) =>
              \/ Settles(x, s) /\ Found(x, s)
              \/ Alarms(x, s) /\ ~Found(x, s)
              \/ \E t \in Task : Settles(t, s) /\ Found(t, s) /\ Behind(x, t)

LastInv == LineInv /\ SideInv /\ \A s \in Source : WordInv(s)

\* Who enters the queue stands behind everybody.
LEMMA Joins ==
    ASSUME queue \in Seq(Task), LineInv, NEW t \in Task, ~Pending(t),
           queue' = Append(queue, t), Pending(t)',
           \A x \in Task \ {t} : Pending(x)' <=> Pending(x)
    PROVE  /\ LineInv'
           /\ \A a, x \in Task : Behind(a, x) => Behind(a, x)'
           /\ \A a \in Task : Pending(a) => Behind(a, t)'
<1>1. /\ Len(queue) \in Nat /\ Len(queue') = Len(queue) + 1 /\ queue'[Len(queue) + 1] = t
      /\ \A i \in 1..Len(queue) : queue'[i] = queue[i] /\ queue[i] \in Task
    OBVIOUS
<1>2. \A i \in 1..Len(queue) : queue[i] # t
    BY DEF LineInv
<1>3. LineInv'
    <2>1. \A i \in 1..Len(queue') : Pending(queue[i])'
        <3> SUFFICES ASSUME NEW i \in 1..Len(queue') PROVE Pending(queue[i])'
            OBVIOUS
        <3>1. CASE i = Len(queue) + 1
            BY <1>1, <3>1 DEF Pending
        <3>2. CASE i \in 1..Len(queue)
            <4>1. queue'[i] \in Task \ {t} /\ Pending(queue'[i])
                BY <1>1, <1>2, <3>2 DEF LineInv
            <4> QED
                BY <4>1 DEF Pending
        <3> QED
            BY <1>1, <3>1, <3>2
    <2>2. \A i, j \in 1..Len(queue') : queue'[i] = queue'[j] => i = j
        BY <1>1, <1>2 DEF LineInv
    <2>3. \A x \in Task : Pending(x)' => \E i \in 1..Len(queue') : queue'[i] = x
        <3> SUFFICES ASSUME NEW x \in Task, Pending(x)' PROVE \E i \in 1..Len(queue') : queue'[i] = x
            OBVIOUS
        <3>1. CASE x = t
            BY <1>1, <3>1
        <3>2. CASE x # t
            BY <1>1, <3>2 DEF LineInv
        <3> QED
            BY <3>1, <3>2
    <2> QED
        BY <2>1, <2>2, <2>3 DEF LineInv
<1>4. \A a, x \in Task : Behind(a, x) => Behind(a, x)'
    BY <1>1 DEF Behind
<1>5. ASSUME NEW a \in Task, Pending(a) PROVE Behind(a, t)'
    <2>1. PICK i \in 1..Len(queue) : queue[i] = a
        BY <1>5 DEF LineInv
    <2> QED
        BY <1>1, <2>1 DEF Behind
<1> QED
    BY <1>3, <1>4, <1>5

\* Who has its turn stands behind nobody, and its leaving changes nothing for the others.
LEMMA Leaves ==
    ASSUME queue \in Seq(Task), LineInv, NEW t \in Task, HasTurn(t),
           queue' = Tail(queue), ~Pending(t)',
           \A x \in Task \ {t} : Pending(x)' <=> Pending(x)
    PROVE  /\ LineInv'
           /\ \A a, x \in Task : a # t /\ Behind(a, x) => Behind(a, x)'
           /\ \A a \in Task : ~Behind(a, t)
<1>1. /\ Len(queue) \in Nat \ {0} /\ queue[1] = t /\ Len(queue') = Len(queue) - 1
      /\ \A i \in 1..Len(queue) : queue[i] \in Task
      /\ \A i \in 1..Len(queue') : queue'[i] = queue[i + 1]
    BY DEF HasTurn
<1>2. \A i \in 2..Len(queue) : queue[i] \in Task \ {t}
    BY <1>1 DEF LineInv
<1>3. LineInv'
    <2>1. ASSUME NEW i \in 1..Len(queue') PROVE Pending(queue[i])'
        <3>1. i + 1 \in 2..Len(queue) /\ queue'[i] = queue[i + 1]
            BY <1>1
        <3>2. queue'[i] \in Task \ {t} /\ Pending(queue'[i])
            BY <1>1, <1>2, <3>1 DEF LineInv
        <3> QED
            BY <3>2 DEF Pending
    <2>2. \A i, j \in 1..Len(queue') : queue'[i] = queue'[j] => i = j
        BY <1>1 DEF LineInv
    <2>3. ASSUME NEW x \in Task, Pending(x)' PROVE \E i \in 1..Len(queue') : queue'[i] = x
        <3>1. PICK i \in 1..Len(queue) : queue[i] = x
            BY <2>3 DEF LineInv
        <3>2. x # t
            BY <2>3
        <3>3. i # 1 /\ i - 1 \in 1..Len(queue') /\ (i - 1) + 1 = i
            BY <1>1, <3>1, <3>2
        <3> QED
            BY <1>1, <3>1, <3>3
    <2> QED
        BY <2>1, <2>2, <2>3 DEF LineInv
<1>4. ASSUME NEW a \in Task, NEW x \in Task, a # t, Behind(a, x) PROVE Behind(a, x)'
    <2>1. PICK i, j \in 1..Len(queue) : i < j /\ queue[i] = a /\ queue[j] = x
        BY <1>4 DEF Behind
    <2>2. i # 1
        BY <1>1, <1>4, <2>1
    <2>3. /\ i - 1 \in 1..Len(queue') /\ j - 1 \in 1..Len(queue') /\ i - 1 < j - 1
          /\ queue'[i - 1] = queue[i] /\ queue'[j - 1] = queue[j]
        <3>1. /\ i - 1 \in 1..Len(queue') /\ j - 1 \in 1..Len(queue') /\ i - 1 < j - 1
              /\ (i - 1) + 1 = i /\ (j - 1) + 1 = j
            BY <1>1, <2>1, <2>2
        <3> QED
            BY <1>1, <3>1
    <2> QED
        BY <2>1, <2>3 DEF Behind
<1>5. \A a \in Task : ~Behind(a, t)
    BY <1>1, <1>2 DEF Behind
<1> QED
    BY <1>3, <1>4, <1>5

\* A step that brings no change to s, and ends nobody's work on it.
LEMMA Carries ==
    ASSUME NEW s \in Source, WordInv(s),
           Quiet(s)' =>
              /\ Quiet(s)
              /\ dir'[s] = dir[s]
              /\ file'[s].path = file[s].path
              /\ file'[s].status # "ready" => file[s].status # "ready"
              /\ \A x \in Task : Settles(x, s) => Settles(x, s)' /\ seen'[x].path = seen[x].path
              /\ \A x \in Task : Settles(x, s)' => Settles(x, s)
              /\ \A x \in Task : Strayed(x, s) => Strayed(x, s)'
              /\ \A x \in Task : Alarms(x, s)' =>
                    \/ Alarms(x, s) /\ seen'[x].path = seen[x].path
                    \/ ~Found(x, s)'
              /\ \A x, t \in Task : (Alarms(x, s)' \/ Settles(x, s)') /\ Settles(t, s)'
                                        /\ Behind(x, t) => Behind(x, t)'
    PROVE  WordInv(s)'
<1> SUFFICES ASSUME Quiet(s)'
             PROVE  /\ file'[s].path \in dir'[s] \/ \E t \in Task : Settles(t, s)' /\ Found(t, s)'
                    /\ file'[s].status # "ready" =>
                          \E t \in Task : (Settles(t, s)' /\ Found(t, s)') \/ Strayed(t, s)'
                    /\ \A x \in Task : Settles(x, s)' \/ Alarms(x, s)' =>
                          \/ Settles(x, s)' /\ Found(x, s)'
                          \/ Alarms(x, s)' /\ ~Found(x, s)'
                          \/ \E t \in Task : Settles(t, s)' /\ Found(t, s)' /\ Behind(x, t)'
    BY DEF WordInv
<1>1. \A x \in Task : Settles(x, s) /\ Found(x, s) => Settles(x, s)' /\ Found(x, s)'
    BY DEF Found
<1>2. \A x \in Task : Alarms(x, s)' => (Alarms(x, s) /\ (Found(x, s)' <=> Found(x, s))) \/ ~Found(x, s)'
    BY DEF Found
<1>6. \A x \in Task : ~(Settles(x, s) /\ Alarms(x, s))
    BY DEF Settles, Alarms
<1>3. file'[s].path \in dir'[s] \/ \E t \in Task : Settles(t, s)' /\ Found(t, s)'
    BY <1>1 DEF WordInv
<1>4. file'[s].status # "ready" => \E t \in Task : (Settles(t, s)' /\ Found(t, s)') \/ Strayed(t, s)'
    BY <1>1 DEF WordInv
<1>5. ASSUME NEW x \in Task, Settles(x, s)' \/ Alarms(x, s)',
             ~(Settles(x, s)' /\ Found(x, s)'), ~(Alarms(x, s)' /\ ~Found(x, s)')
      PROVE  \E t \in Task : Settles(t, s)' /\ Found(t, s)' /\ Behind(x, t)'
    <2>1. PICK t \in Task : Settles(t, s) /\ Found(t, s) /\ Behind(x, t)
        BY <1>1, <1>2, <1>5, <1>6 DEF WordInv
    <2> QED
        BY <1>1, <1>5, <2>1
<1> QED
    BY <1>3, <1>4, <1>5

\* A source that somebody works on owes nothing else.
LEMMA WorkedOn ==
    ASSUME NEW s \in Source, NEW t \in Task, Works(t, s)' PROVE WordInv(s)'
BY DEF WordInv, Quiet

\* A request ends its work on a source by a job in the queue, behind every alarm.
LEMMA RequestLast ==
    ASSUME Inv, LastInv, NEW t \in Task, Request(t)
    PROVE  LastInv'
<1> USE DEF Inv
<1>1. /\ UNCHANGED <<file, readable, faults>>
      /\ pc[t] \notin {"queued", "loaded", "over", "cleaning"} \/ CleanUp(t)
      /\ \A x \in Task \ {t} : pc'[x] = pc[x] /\ job'[x] = job[x] /\ target'[x] = target[x]
    BY DEF TypeOK, Request, Ask, AskAdd, AskChange, AskRefresh, AskList, Read, ReadFails, Clear,
           Extract, Index, DownloadFails, CleanUp, LookJoins, LookFinds, LookFails, Enqueue
<1>2. ~Pending(t) /\ pc'[t] # "cleaning" /\ pc[t] # "over" /\ job[t] # "error"
    BY <1>1 DEF CleanUp, Pending, TypeOK, Request, Ask, AskAdd, AskChange, AskRefresh, AskList,
           Read, ReadFails, Clear, Extract, Index, DownloadFails, LookJoins, LookFinds, LookFails, Enqueue,
           LastInv, SideInv
<1>3. \/ queue' = queue /\ ~Pending(t)'
      \/ queue' = Append(queue, t) /\ Pending(t)'
    BY DEF TypeOK, Pending, Request, Ask, AskAdd, AskChange, AskRefresh, AskList, Read, ReadFails,
           Clear, Extract, Index, DownloadFails, CleanUp, LookJoins, LookFinds, LookFails, Enqueue
<1>4. \A x \in Task \ {t} : Pending(x)' <=> Pending(x)
    BY <1>1 DEF Pending
<1>5. LineInv' /\ \A a, x \in Task : Behind(a, x) => Behind(a, x)'
    <2>1. CASE queue' = queue /\ ~Pending(t)'
        <3>1. \A x \in Task : Pending(x)' <=> Pending(x)
            BY <1>2, <1>4, <2>1
        <3>2. \A i \in 1..Len(queue) : queue[i] \in Task
            BY DEF TypeOK
        <3> QED
            BY <2>1, <3>1, <3>2 DEF LastInv, LineInv, Behind, Pending
    <2>2. CASE queue' = Append(queue, t) /\ Pending(t)'
        BY <1>2, <1>4, <2>2, Joins DEF LastInv, TypeOK
    <2> QED
        BY <1>3, <2>1, <2>2
<1>6. SideInv'
    <2>1. \A x \in Task : pc'[x] = "cleaning" => file'[target'[x]] = Absent
        BY <1>1, <1>2 DEF LastInv, SideInv
    <2>2. \A x \in Task : job'[x] = "error" => Pending(x)' \/ pc'[x] = "over"
        <3>1. job'[t] = "error" => Pending(t)'
            BY <1>2 DEF TypeOK, Pending, Request, Ask, AskAdd, AskChange, AskRefresh, AskList, Read,
                   ReadFails, Clear, Extract, Index, DownloadFails, CleanUp, LookJoins, LookFinds, LookFails, Enqueue
        <3> QED
            BY <1>1, <1>4, <3>1 DEF LastInv, SideInv
    <2>3. ASSUME NEW y \in Task, NEW x \in Task,
                 Pending(y)', job'[y] = "add", target'[x] = target'[y]
          PROVE  x = y
        <3>1. \/ \E s \in Source : AskAdd(t, s)
              \/ \E s \in Source : file[s] # Absent /\ target'[t] = s /\ job'[t] # "add"
              \/ \E s \in Source : file[s] # Absent /\ target'[t] = s /\ ~Pending(t)'
              \/ target'[t] = target[t] /\ (job'[t] # "add" \/ ~Pending(t)')
            BY DEF TypeOK, Pending, Request, Ask, AskChange, AskRefresh, AskList, Read, ReadFails,
                   Clear, Extract, Index, DownloadFails, CleanUp, LookJoins, LookFinds, LookFails, Enqueue
        <3>2. CASE \E s \in Source : AskAdd(t, s)
            <4>1. PICK s \in Source : AskAdd(t, s)
                BY <3>2
            <4>2. target'[t] = s /\ \A z \in Task : target[z] # s
                BY <4>1 DEF AskAdd, Ask, TypeOK
            <4> QED
                BY <1>1, <1>4, <2>3, <4>2 DEF LastInv, SideInv
        <3>3. CASE \/ \E s \in Source : file[s] # Absent /\ target'[t] = s /\ job'[t] # "add"
                   \/ \E s \in Source : file[s] # Absent /\ target'[t] = s /\ ~Pending(t)'
            <4>1. y # t /\ Pending(y) /\ job[y] = "add" /\ target'[y] = target[y]
                BY <1>1, <1>4, <2>3, <3>3
            <4>2. x # t
                BY <2>3, <3>3, <4>1 DEF AddInv
            <4> QED
                BY <1>1, <2>3, <4>1, <4>2 DEF LastInv, SideInv
        <3>4. CASE target'[t] = target[t] /\ (job'[t] # "add" \/ ~Pending(t)')
            BY <1>1, <1>4, <2>3, <3>4 DEF LastInv, SideInv
        <3> QED
            BY <3>1, <3>2, <3>3, <3>4
    <2> QED
        BY <1>1, <2>1, <2>2, <2>3 DEF LastInv, SideInv
<1>7. ASSUME NEW s \in Source PROVE WordInv(s)'
    <2>1. WordInv(s)
        BY DEF LastInv
    <2>2. \A x \in Task \ {t} : /\ Works(x, s)' <=> Works(x, s)
                                /\ Settles(x, s)' <=> Settles(x, s)
                                /\ Alarms(x, s)' <=> Alarms(x, s)
        BY <1>1 DEF Works, Settles, Alarms, Pending
    <2>3. ~Settles(t, s) /\ ~Alarms(t, s)
        BY <1>2 DEF Settles, Alarms
    <2>4. CASE Works(t, s)'
        BY <2>4, WorkedOn
    <2>5. CASE Index(t) /\ target[t] = s
        <3>1. /\ Settles(t, s)' /\ ~Alarms(t, s)' /\ Found(t, s)'
              /\ queue' = Append(queue, t) /\ Pending(t)'
            BY <2>5 DEF Index, Enqueue, Settles, Alarms, Found, Pending, TypeOK
        <3>2. \A a \in Task : Pending(a) => Behind(a, t)'
            BY <1>2, <1>4, <3>1, Joins DEF LastInv, TypeOK
        <3>3. \A a \in Task \ {t} : Alarms(a, s)' \/ Settles(a, s)' => Behind(a, t)'
            BY <2>2, <3>1, <3>2 DEF Alarms, Settles
        <3> QED
            BY <3>1, <3>3 DEF WordInv
    <2>6. CASE ~Works(t, s)' /\ ~(Index(t) /\ target[t] = s)
        <3> SUFFICES ASSUME Quiet(s)' PROVE WordInv(s)'
            BY DEF WordInv
        <3>1. faults = 0 /\ file[s] # Absent /\ readable
            BY <1>1 DEF LastInv, SideInv, Quiet
        <3>2. ~Works(t, s)
            <4> SUFFICES ASSUME target[t] = s,
                                pc[t] \in {"reading", "downloading", "extracting", "indexing"}
                         PROVE  FALSE
                BY <1>2 DEF Works
            <4>1. Read(t) \/ ReadFails(t) \/ Clear(t) \/ Extract(t) \/ Index(t) \/ DownloadFails(t)
                BY DEF Request, Ask, AskAdd, AskChange, AskRefresh, AskList, CleanUp, LookJoins,
                       LookFinds, LookFails
            <4>2. ~ReadFails(t)
                BY <3>1 DEF ReadFails
            <4>3. Read(t) \/ Clear(t) \/ Extract(t) \/ DownloadFails(t) => Works(t, s)'
                BY DEF Read, Clear, Extract, DownloadFails, Enqueue, Works, Pending, TypeOK
            <4> QED
                BY <2>6, <4>1, <4>2, <4>3
        <3>3. dir'[s] = dir[s]
            <4>1. dir' = dir \/ Clear(t) \/ Extract(t) \/ CleanUp(t)
                BY DEF Request, Ask, AskAdd, AskChange, AskRefresh, AskList, Read, ReadFails, Index,
                       DownloadFails, LookJoins, LookFinds, LookFails
            <4>2. CASE Clear(t) \/ Extract(t)
                <5>1. target[t] # s
                    BY <2>6, <4>2 DEF Clear, Extract, Works, TypeOK
                <5> QED
                    BY <4>2, <5>1 DEF Clear, Extract, TypeOK
            <4>3. CASE CleanUp(t)
                <5>1. target[t] # s
                    BY <3>1, <4>3 DEF CleanUp, LastInv, SideInv
                <5> QED
                    BY <4>3, <5>1 DEF CleanUp, TypeOK
            <4> QED
                BY <4>1, <4>2, <4>3
        <3>4. Alarms(t, s)' => ~Found(t, s)'
            BY <1>2 DEF Alarms, Found, Pending, TypeOK, Request, Ask, AskAdd, AskChange, AskRefresh,
                   AskList, Read, ReadFails, Clear, Extract, Index, DownloadFails, CleanUp, LookJoins,
                   LookFinds, LookFails, Enqueue
        <3>5. ~Settles(t, s)'
            <4>1. Index(t) \/ ~(pc'[t] = "queued" /\ job'[t] = "ready")
                BY DEF TypeOK, Request, Ask, AskAdd, AskChange, AskRefresh, AskList, Read, ReadFails,
                       Clear, Extract, DownloadFails, CleanUp, LookJoins, LookFinds, LookFails, Enqueue
            <4>2. pc'[t] # "loaded"
                BY <1>2 DEF TypeOK, Request, Ask, AskAdd, AskChange, AskRefresh, AskList, Read, ReadFails,
                       Clear, Extract, Index, DownloadFails, CleanUp, LookJoins, LookFinds, LookFails, Enqueue
            <4>3. Index(t) => target'[t] = target[t]
                BY DEF Index
            <4> QED
                BY <2>6, <4>1, <4>2, <4>3 DEF Settles, Pending
        <3>6. \A x \in Task \ {t} : seen'[x] = seen[x] /\ (Strayed(x, s) => Strayed(x, s)')
            <4>1. \A x \in Task \ {t} : seen'[x] = seen[x]
                BY DEF TypeOK, Request, Ask, AskAdd, AskChange, AskRefresh, AskList, Read, ReadFails,
                       Clear, Extract, Index, DownloadFails, CleanUp, LookJoins, LookFinds, LookFails, Enqueue
            <4> QED
                BY <1>1, <3>3, <4>1 DEF Strayed, Found
        <3>7. ~Strayed(t, s)
            BY <1>2 DEF Strayed
        <3>8. Quiet(s)
            BY <2>2, <3>1, <3>2 DEF Quiet
        <3> QED
            BY <1>1, <1>5, <2>1, <2>2, <2>3, <3>3, <3>4, <3>5, <3>6, <3>7, <3>8, Carries
    <2> QED
        BY <2>4, <2>5, <2>6
<1> QED
    BY <1>5, <1>6, <1>7 DEF LastInv

\* A job that is refused concerns a source that is gone.
LEMMA QuietJobLast ==
    ASSUME Inv, LastInv, NEW t \in Task, Load(t) \/ LoadFails(t) \/ Refuse(t) \/ PersistFails(t)
    PROVE  LastInv'
<1> USE DEF Inv
<1>1. /\ UNCHANGED <<file, target, job, seen, dir, readable>>
      /\ HasTurn(t) /\ Pending(t)
    BY DEF Load, LoadFails, Refuse, PersistFails, Pending
<1>2. CASE Load(t)
    <2>1. UNCHANGED <<queue, faults>> /\ pc' = [pc EXCEPT ![t] = "loaded"]
        BY <1>2 DEF Load
    <2>2. \A x \in Task : (Pending(x)' <=> Pending(x)) /\ (x # t => pc'[x] = pc[x])
        BY <1>1, <2>1 DEF Pending, TypeOK
    <2>3. LineInv' /\ \A a, x \in Task : Behind(a, x)' <=> Behind(a, x)
        <3>1. \A i \in 1..Len(queue) : queue[i] \in Task
            BY DEF TypeOK
        <3> QED
            BY <2>1, <2>2, <3>1 DEF LastInv, LineInv, Behind, Pending
    <2>4. pc'[t] = "loaded" /\ pc[t] \in {"queued", "loaded"}
        BY <1>1, <2>1 DEF Pending, TypeOK
    <2>5. SideInv'
        BY <1>1, <2>1, <2>2, <2>4 DEF LastInv, SideInv
    <2>6. ASSUME NEW s \in Source PROVE WordInv(s)'
        <3>1. \A x \in Task : /\ Works(x, s)' <=> Works(x, s)
                              /\ Settles(x, s)' <=> Settles(x, s)
                              /\ Alarms(x, s)' <=> Alarms(x, s)
                              /\ Strayed(x, s)' <=> Strayed(x, s)
            BY <1>1, <2>2, <2>4 DEF Works, Settles, Alarms, Strayed, Found
        <3>2. (Quiet(s)' => Quiet(s)) /\ \A x \in Task : Found(x, s)' <=> Found(x, s)
            BY <1>1, <2>1, <3>1 DEF Quiet, Found
        <3> QED
            BY <1>1, <2>1, <2>3, <3>1, <3>2, Carries DEF LastInv
    <2> QED
        BY <2>3, <2>5, <2>6 DEF LastInv
<1>3. CASE LoadFails(t) \/ Refuse(t) \/ PersistFails(t)
    <2>1. /\ queue' = Tail(queue) /\ pc' = [pc EXCEPT ![t] = "over"]
          /\ faults \in Nat
        BY <1>3, RegistryAssumption
        DEF LoadFails, Refuse, PersistFails, Rejected, Leave, TypeOK, RegistryAssumption
    <2>2. pc'[t] = "over" /\ ~Pending(t)'
          /\ \A x \in Task \ {t} : pc'[x] = pc[x] /\ (Pending(x)' <=> Pending(x))
        BY <2>1 DEF Pending, TypeOK
    <2>3. LineInv' /\ \A a, x \in Task : a # t /\ Behind(a, x) => Behind(a, x)'
        BY <1>1, <2>1, <2>2, Leaves DEF LastInv, TypeOK
    <2>4. SideInv'
        <3>1. faults' = 0 => readable'
            BY <1>1, <1>3 DEF LoadFails, Refuse, PersistFails, LastInv, SideInv, TypeOK
        <3> QED
            BY <1>1, <2>2, <3>1 DEF LastInv, SideInv
    <2>5. ASSUME NEW s \in Source PROVE WordInv(s)'
        <3> SUFFICES ASSUME Quiet(s)' PROVE WordInv(s)'
            BY DEF WordInv
        <3>0. faults' = 0 /\ file'[s] # Absent
            BY DEF Quiet
        <3>1. faults = 0 /\ readable
            BY <1>3, <3>0, RegistryAssumption
            DEF LoadFails, Refuse, PersistFails, TypeOK, RegistryAssumption, LastInv, SideInv
        <3>2. Refuse(t)
            BY <1>3, <3>0, <3>1, RegistryAssumption
            DEF LoadFails, PersistFails, TypeOK, RegistryAssumption
        <3>3. file[target[t]] = Absent
            <4>1. pc[t] = "loaded" /\ Refused(t, file)
                BY <3>2 DEF Refuse, TurnInv
            <4> QED
                BY <1>1, <4>1 DEF Refused, AddInv
        <3>4. target[t] # s
            BY <1>1, <3>0, <3>3
        <3>5. \A x \in Task : /\ Works(x, s)' <=> Works(x, s)
                              /\ Settles(x, s)' <=> Settles(x, s)
                              /\ Alarms(x, s)' <=> Alarms(x, s)
                              /\ Strayed(x, s)' <=> Strayed(x, s)
            BY <1>1, <2>2, <3>4 DEF Works, Settles, Alarms, Strayed, Found
        <3>6. \A a \in Task : Alarms(a, s)' \/ Settles(a, s)' => a # t
            BY <1>1, <3>4 DEF Alarms, Settles
        <3>7. Quiet(s)
            BY <1>1, <3>0, <3>1, <3>5 DEF Quiet
        <3> QED
            BY <1>1, <2>3, <3>5, <3>6, <3>7, Carries DEF LastInv
    <2> QED
        BY <2>3, <2>4, <2>5 DEF LastInv
<1> QED
    BY <1>2, <1>3

\* A write makes its source ready, or leaves somebody who will.
LEMMA PersistLast ==
    ASSUME Inv, LastInv, NEW t \in Task, Persist(t)
    PROVE  LastInv'
<1> USE DEF Inv
<1>1. HasTurn(t) /\ pc[t] = "loaded" /\ Pending(t) /\ target[t] \in Source /\ job[t] \in Jobs
    BY DEF Persist, Pending, WorkInv
<1>2. ~Refused(t, file) /\ file' = Mutated(t, file)
    BY PersistStep
<1>3. /\ queue' = Tail(queue) /\ readable' = TRUE
      /\ UNCHANGED <<target, job, seen, dir, faults>>
      /\ pc' = [pc EXCEPT ![t] = CASE job[t] = "add"     -> "reading"
                                   [] job[t] = "syncing" -> "downloading"
                                   [] job[t] = "remove"  -> "cleaning"
                                   [] OTHER              -> "over"]
    BY DEF Persist, Resolved, Leave
<1>4. /\ pc'[t] \in {"reading", "downloading", "cleaning", "over"} /\ ~Pending(t)'
      /\ pc'[t] = "cleaning" => job[t] = "remove"
      /\ job[t] = "add" => pc'[t] = "reading"
      /\ job[t] = "syncing" => pc'[t] = "downloading"
      /\ job[t] \in {"error", "alarm"} => pc'[t] = "over"
      /\ \A x \in Task \ {t} : pc'[x] = pc[x] /\ (Pending(x)' <=> Pending(x))
    BY <1>3 DEF Pending, TypeOK
<1>5. /\ LineInv' /\ \A a, x \in Task : a # t /\ Behind(a, x) => Behind(a, x)'
      /\ \A a \in Task : ~Behind(a, t)
    BY <1>1, <1>3, <1>4, Leaves DEF LastInv, TypeOK
<1>6. /\ file \in [Source -> Entry \cup {Absent}]
      /\ file'[target[t]] = Changed(t, file[target[t]])
      /\ \A s \in Source \ {target[t]} : file'[s] = file[s]
    BY <1>1, <1>2 DEF Mutated, TypeOK
<1>7. SideInv'
    <2>1. ASSUME NEW x \in Task, pc'[x] = "cleaning" PROVE file'[target'[x]] = Absent
        <3>1. CASE x = t
            BY <1>3, <1>4, <1>6, <2>1, <3>1 DEF Changed
        <3>2. CASE x # t
            <4>1. pc[x] = "cleaning" /\ file[target[x]] = Absent /\ target[x] \in Source
                BY <1>4, <2>1, <3>2 DEF LastInv, SideInv, WorkInv
            <4>2. target[x] # target[t]
                BY <1>1, <1>2, <3>2, <4>1 DEF Refused, LastInv, SideInv
            <4> QED
                BY <1>3, <1>6, <4>1, <4>2
        <3> QED
            BY <3>1, <3>2
    <2> QED
        BY <1>3, <1>4, <2>1 DEF LastInv, SideInv
<1>8. ASSUME NEW s \in Source PROVE WordInv(s)'
    <2>1. WordInv(s)
        BY DEF LastInv
    <2>2. \A x \in Task \ {t} : /\ Works(x, s)' <=> Works(x, s)
                                /\ Settles(x, s)' <=> Settles(x, s)
                                /\ Alarms(x, s)' <=> Alarms(x, s)
                                /\ Strayed(x, s)' <=> Strayed(x, s)
        BY <1>3, <1>4 DEF Works, Settles, Alarms, Strayed, Found
    <2>3. ~Alarms(t, s)' /\ ~Settles(t, s)' /\ ~Strayed(t, s)
        BY <1>1, <1>4 DEF Alarms, Settles, Strayed
    <2>f. \A x \in Task : Found(x, s)' <=> Found(x, s)
        BY <1>3 DEF Found
    <2>4. CASE target[t] # s
        <3>1. /\ ~Works(t, s) /\ ~Settles(t, s)
              /\ file'[s] = file[s]
            BY <1>6, <2>4 DEF Works, Settles
        <3>2. Quiet(s)' => Quiet(s)
            BY <1>3, <2>2, <3>1 DEF Quiet
        <3> QED
            BY <1>3, <1>5, <2>1, <2>2, <2>3, <2>f, <3>1, <3>2, Carries
    <2>5. CASE target[t] = s /\ job[t] \in {"add", "syncing", "error"}
        <3>1. Works(t, s)'
            BY <1>3, <1>4, <2>5 DEF Works
        <3> QED
            BY <3>1, WorkedOn
    <2>6. CASE target[t] = s /\ job[t] = "remove"
        BY <1>6, <2>6 DEF Changed, WordInv, Quiet
    <2>7. CASE target[t] = s /\ job[t] \in {"enable", "disable"}
        <3>1. ~Works(t, s) /\ ~Settles(t, s)
            BY <1>1, <2>7 DEF Works, Settles
        <3>2. /\ file[s] # Absent /\ file'[s].status = file[s].status
              /\ file'[s].path = file[s].path
            BY <1>2, <1>6, <2>7 DEF Refused, Changed, WithEnabled
        <3>3. Quiet(s)' => Quiet(s)
            BY <1>3, <2>2, <3>1, <3>2 DEF Quiet
        <3> QED
            BY <1>3, <1>5, <2>1, <2>2, <2>3, <2>f, <3>1, <3>2, <3>3, Carries
    <2>8. CASE target[t] = s /\ job[t] \in {"ready", "alarm"}
        <3> SUFFICES ASSUME Quiet(s)'
                     PROVE  /\ file'[s].path \in dir'[s] \/ \E x \in Task : Settles(x, s)' /\ Found(x, s)'
                            /\ file'[s].status # "ready" =>
                                  \E x \in Task : (Settles(x, s)' /\ Found(x, s)') \/ Strayed(x, s)'
                            /\ \A a \in Task : Settles(a, s)' \/ Alarms(a, s)' =>
                                  \/ Settles(a, s)' /\ Found(a, s)'
                                  \/ Alarms(a, s)' /\ ~Found(a, s)'
                                  \/ \E x \in Task : Settles(x, s)' /\ Found(x, s)' /\ Behind(a, x)'
            BY DEF WordInv
        <3>1. Quiet(s) /\ ~Works(t, s)
            BY <1>1, <1>2, <1>3, <2>2, <2>8 DEF Refused, Works, Quiet
        <3>2. ASSUME NEW a \in Task, Settles(a, s)' \/ Alarms(a, s)'
              PROVE  \/ Settles(a, s)' /\ Found(a, s)'
                     \/ Alarms(a, s)' /\ ~Found(a, s)'
                     \/ \E x \in Task : Settles(x, s)' /\ Found(x, s)' /\ Behind(a, x)'
            <4>1. a # t /\ (Settles(a, s) \/ Alarms(a, s))
                BY <2>2, <2>3, <3>2
            <4>2. CASE \E x \in Task : Settles(x, s) /\ Found(x, s) /\ Behind(a, x)
                <5>1. PICK x \in Task : Settles(x, s) /\ Found(x, s) /\ Behind(a, x)
                    BY <4>2
                <5>2. x # t
                    BY <1>5, <5>1
                <5> QED
                    BY <1>5, <2>2, <2>f, <4>1, <5>1, <5>2
            <4>3. CASE (Settles(a, s) /\ Found(a, s)) \/ (Alarms(a, s) /\ ~Found(a, s))
                BY <2>2, <2>f, <4>1, <4>3
            <4> QED
                BY <2>1, <3>1, <4>1, <4>2, <4>3 DEF WordInv
        <3>3. CASE job[t] = "ready"
            <4>1. Settles(t, s)
                BY <1>1, <2>8, <3>3 DEF Settles
            <4>2. file'[s].status = "ready" /\ file'[s].path = seen[t].path
                BY <1>6, <2>8, <3>3 DEF Changed, WithStatus, NewStatus, NewPath
            <4>3. Found(t, s) \/ \E x \in Task : Settles(x, s) /\ Found(x, s) /\ Behind(t, x)
                <5>1. ~Alarms(t, s)
                    BY <3>3 DEF Alarms
                <5> QED
                    BY <2>1, <3>1, <4>1, <5>1 DEF WordInv
            <4>4. CASE Found(t, s)
                BY <1>3, <3>2, <4>2, <4>4 DEF Found
            <4>5. CASE \E x \in Task : Settles(x, s) /\ Found(x, s) /\ Behind(t, x)
                <5>1. PICK x \in Task : Settles(x, s) /\ Found(x, s) /\ Behind(t, x)
                    BY <4>5
                <5>2. x # t
                    BY <1>5, <5>1
                <5> QED
                    BY <2>2, <2>f, <3>2, <4>2, <5>1, <5>2
            <4> QED
                BY <4>3, <4>4, <4>5
        <3>4. CASE job[t] = "alarm"
            <4>1. Alarms(t, s) /\ ~Settles(t, s)
                BY <1>1, <2>8, <3>4 DEF Alarms, Settles
            <4>2. file'[s].path = file[s].path
                BY <1>6, <2>8, <3>4 DEF Changed, WithStatus, NewPath
            <4>3. file'[s].path \in dir'[s] \/ \E x \in Task : Settles(x, s)' /\ Found(x, s)'
                BY <1>3, <2>1, <2>2, <2>f, <3>1, <4>1, <4>2 DEF WordInv
            <4>4. CASE ~Found(t, s)
                <5>1. Strayed(t, s)'
                    BY <1>3, <1>4, <2>8, <2>f, <3>4, <4>4 DEF Strayed
                <5> QED
                    BY <3>2, <4>3, <5>1
            <4>5. CASE Found(t, s)
                <5>1. PICK x \in Task : Settles(x, s) /\ Found(x, s)
                    BY <2>1, <3>1, <4>1, <4>5 DEF WordInv
                <5>2. Settles(x, s)' /\ Found(x, s)'
                    BY <2>2, <2>f, <4>1, <5>1
                <5> QED
                    BY <3>2, <5>2
            <4> QED
                BY <4>4, <4>5
        <3> QED
            BY <2>8, <3>3, <3>4
    <2> QED
        BY <1>1, <2>4, <2>5, <2>6, <2>7, <2>8 DEF Jobs
<1> QED
    BY <1>5, <1>7, <1>8 DEF LastInv

\* After a fault nothing is claimed, and nobody is at work after a restart.
LEMMA WorldLast ==
    ASSUME Inv, LastInv, World
    PROVE  LastInv'
<1> USE DEF Inv, requests
<1>1. faults \in Nat
    BY RegistryAssumption DEF RegistryAssumption, TypeOK
<1>2. CASE Spoil \/ Mend
    <2>1. /\ UNCHANGED <<file, queue, pc, target, job, seen, dir>>
          /\ faults' = faults \/ faults' = faults + 1
          /\ faults' = 0 => readable' /\ faults = 0
        BY <1>1, <1>2 DEF Spoil, Mend
    <2>2. LineInv' /\ SideInv'
        BY <1>1, <2>1 DEF LastInv, LineInv, SideInv, Pending
    <2>3. \A s \in Source : WordInv(s)'
        BY <2>1 DEF LastInv, WordInv, Quiet, Works, Settles, Alarms, Strayed, Found, Behind,
                    Pending
    <2> QED
        BY <2>2, <2>3 DEF LastInv
<1>3. CASE Restart
    <2>1. faults' # 0 /\ queue' = <<>> /\ UNCHANGED <<file, target, job>>
          /\ \A t \in Task : pc'[t] = IF pc[t] = "idle" THEN "idle" ELSE "over"
        BY <1>1, <1>3 DEF Restart
    <2>2. \A t \in Task : ~Pending(t)' /\ pc'[t] # "cleaning"
        BY <2>1 DEF Pending
    <2>3. Len(queue') = 0
        BY <2>1
    <2>4. LineInv'
        BY <2>2, <2>3 DEF LineInv
    <2>5. SideInv'
        BY <2>1, <2>2 DEF LastInv, SideInv, Pending
    <2> QED
        BY <2>1, <2>4, <2>5 DEF LastInv, WordInv, Quiet
<1> QED
    BY <1>2, <1>3 DEF World

\* The sources there are at first are ready.
LEMMA InitLast == Init => LastInv
<1> SUFFICES ASSUME Init PROVE LastInv
    OBVIOUS
<1>1. Len(queue) = 0
    BY DEF Init
<1>2. LineInv /\ SideInv
    BY <1>1 DEF Init, LineInv, SideInv, Pending
<1>3. ASSUME NEW s \in Source PROVE WordInv(s)
    <2>1. /\ \A t \in Task : ~Alarms(t, s)
          /\ \A t \in Task : ~Settles(t, s)
          /\ file[s] # Absent => file[s].path \in dir[s] /\ file[s].status = "ready"
        BY DEF Init, Alarms, Settles, Pending, NewEntry
    <2> QED
        BY <2>1 DEF WordInv, Quiet
<1> QED
    BY <1>2, <1>3 DEF LastInv

\* The inductive invariant holds in every reachable state, with the first one.
LEMMA LastWordInv == Spec => [](Inv /\ LastInv)
<1>1. Inv /\ LastInv /\ [Next]_vars => LastInv'
    <2> SUFFICES ASSUME Inv, LastInv, [Next]_vars PROVE LastInv'
        OBVIOUS
    <2>1. CASE UNCHANGED vars
        BY <2>1 DEF vars, requests, LastInv, LineInv, SideInv, WordInv, Quiet, Works, Settles, Alarms,
                    Strayed, Found, Behind, Pending
    <2> QED
        BY <2>1, StepKinds, RequestLast, QuietJobLast, PersistLast, WorldLast
<1> QED
    BY <1>1, InitLast, Invariance, PTL DEF Spec

\* As long as nothing fails, the catalog of a source nobody is at work on lies where the
\* registry says, and it is ready, unless a listing looked for it at another path: only such
\* a one has the last word over a sync (loadEnabledSourceSnapshots).
THEOREM SyncsHaveLastWord == Spec => []SyncHasLastWord
<1>1. ASSUME LastInv, faults = 0, NEW s \in Source, file[s] # Absent,
             \A t \in Task : target[t] = s => pc[t] \in {"idle", "over"} /\ job[t] # "error"
      PROVE  /\ file[s].path \in dir[s]
             /\ \/ file[s].status = "ready"
                \/ \E t \in Task : target[t] = s /\ job[t] = "alarm" /\ seen[t].path # file[s].path
    <2>1. \A t \in Task : ~Works(t, s) /\ ~Settles(t, s)
        BY <1>1 DEF Works, Settles, Pending
    <2>2. Quiet(s) /\ WordInv(s)
        BY <1>1, <2>1 DEF Quiet, LastInv
    <2> QED
        BY <2>1, <2>2 DEF WordInv, Strayed, Found
<1>2. LastInv => SyncHasLastWord
    BY <1>1 DEF SyncHasLastWord
<1> QED
    BY <1>2, LastWordInv, PTL

-------------------------------------------------------------------------------
(* The safety behind JobsAnswered: what is left of a wait shrinks with every step *)
(* of the queue, and no other step lengthens it.                                  *)

\* Whoever waits is in line, only the first has loaded, and the first has a job to do.
LineGoesOn ==
    /\ \A t \in Task : pc[t] \in {"queued", "loaded"} =>
           \E i \in 1..Len(queue) : queue[i] = t /\ (pc[t] = "loaded" => i = 1)
    /\ queue # <<>> => pc[Head(queue)] \in {"queued", "loaded"}

\* Steps of the queue until the one in place i has its answer.
Left(i) == 2 * i - (IF pc[Head(queue)] = "loaded" THEN 1 ELSE 0)

TurnsComeCloser ==
    [][\A t \in Task, i \in 1..Len(queue) : queue[i] = t /\ pc'[t] \in {"queued", "loaded"} =>
          \E j \in 1..Len(queue') :
              /\ queue'[j] = t /\ Left(j)' <= Left(i)
              /\ (\E x \in Task : JobStep(x)) => Left(j)' < Left(i)]_vars

LEMMA OneLess ==
    ASSUME NEW i \in Int, NEW a \in 0..1, NEW b \in 0..1
    PROVE  2 * (i - 1) - a < 2 * i - b /\ 2 * i - 1 < 2 * i - 0
OBVIOUS

\* A step of the queue serves its first, and everybody behind is closer to an answer.
LEMMA JobBringsCloser ==
    ASSUME Inv, LastInv, NEW x \in Task, JobStep(x),
           NEW t \in Task, NEW i \in 1..Len(queue), queue[i] = t, pc'[t] \in {"queued", "loaded"}
    PROVE  \E j \in 1..Len(queue') : queue'[j] = t /\ Left(j)' < Left(i)
<1> USE DEF Inv
<1>1. /\ queue \in Seq(Task) /\ Len(queue) \in Nat \ {0} /\ queue[1] = Head(queue)
      /\ Head(queue) = x /\ i \in Int
    BY DEF JobStep, Load, LoadFails, Refuse, Persist, PersistFails, HasTurn, TypeOK
<1>2. CASE Load(x)
    <2>1. queue' = queue /\ pc[x] = "queued" /\ pc'[x] = "loaded"
        BY <1>2 DEF Load, TypeOK
    <2>2. Left(i)' = 2 * i - 1 /\ Left(i) = 2 * i - 0
        BY <1>1, <2>1 DEF Left
    <2> QED
        BY <1>1, <2>1, <2>2, OneLess
<1>3. CASE ~Load(x)
    <2>1. queue' = Tail(queue) /\ pc'[x] \notin {"queued", "loaded"}
        <3>1. CASE LoadFails(x) \/ Refuse(x) \/ PersistFails(x)
            BY <3>1 DEF LoadFails, Refuse, PersistFails, Rejected, Leave, TypeOK
        <3>2. CASE Persist(x)
            BY <3>2 DEF Persist, Resolved, Leave, TypeOK
        <3> QED
            BY <1>3, <3>1, <3>2 DEF JobStep
    <2>2. t # x /\ i # 1
        BY <1>1, <2>1
    <2>3. i - 1 \in 1..Len(queue') /\ queue'[i - 1] = t
        <3>1. /\ Len(queue') = Len(queue) - 1
              /\ \A k \in 1..Len(queue') : queue'[k] = queue[k + 1]
            BY <1>1, <2>1
        <3>2. i - 1 \in 1..Len(queue') /\ (i - 1) + 1 = i
            BY <1>1, <2>2, <3>1
        <3> QED
            BY <3>1, <3>2
    <2>4. \E a, b \in 0..1 : Left(i - 1)' = 2 * (i - 1) - a /\ Left(i) = 2 * i - b
        BY DEF Left
    <2> QED
        BY <1>1, <2>3, <2>4, OneLess
<1> QED
    BY <1>2, <1>3

\* Nothing else takes a place in the queue away, or the turn from its first.
LEMMA OthersDoNotDelay ==
    ASSUME Inv, LastInv, [Next]_vars, \A x \in Task : ~JobStep(x),
           NEW t \in Task, NEW i \in 1..Len(queue), queue[i] = t, pc'[t] \in {"queued", "loaded"}
    PROVE  i \in 1..Len(queue') /\ queue'[i] = t /\ Left(i)' = Left(i)
<1> USE DEF Inv
<1>1. /\ queue \in Seq(Task) /\ Len(queue) \in Nat \ {0} /\ queue[1] = Head(queue) /\ i \in Int
      /\ Head(queue) \in Task
    BY DEF TypeOK
<1>2. Pending(Head(queue))
    BY <1>1 DEF LastInv, LineInv
<1>3. ASSUME NEW x \in Task, Request(x) PROVE i \in 1..Len(queue') /\ queue'[i] = t /\ Left(i)' = Left(i)
    <2>1. pc[x] \notin {"queued", "loaded"} /\ \A y \in Task \ {x} : pc'[y] = pc[y]
        BY <1>3
        DEF TypeOK, Request, Ask, AskAdd, AskChange, AskRefresh, AskList, Read, ReadFails, Clear,
            Extract, Index, DownloadFails, CleanUp, LookJoins, LookFinds, LookFails, Enqueue
    <2>2. queue' = queue \/ queue' = Append(queue, x)
        BY <1>3
        DEF Request, Ask, AskAdd, AskChange, AskRefresh, AskList, Read, ReadFails, Clear, Extract, Index,
            DownloadFails, CleanUp, LookJoins, LookFinds, LookFails, Enqueue
    <2>3. /\ \A k \in 1..Len(queue) : k \in 1..Len(queue') /\ queue'[k] = queue[k]
          /\ Head(queue') = Head(queue)
        BY <1>1, <2>2
    <2>4. pc'[Head(queue)] = pc[Head(queue)]
        BY <1>1, <1>2, <2>1 DEF Pending
    <2> QED
        BY <2>3, <2>4 DEF Left
<1>4. CASE World
    <2>1. ~Restart
        BY DEF Restart, TypeOK
    <2>2. UNCHANGED <<queue, pc>>
        BY <1>4, <2>1 DEF World, Spoil, Mend, requests
    <2> QED
        BY <2>2 DEF Left
<1>5. CASE UNCHANGED vars
    BY <1>5 DEF vars, requests, Left
<1> QED
    BY <1>3, <1>4, <1>5, StepKinds DEF JobStep

\* runExclusive: whoever waits is in line, the first of the line has a step to take, every step
\* of the queue brings everybody in it closer to an answer and nothing puts anybody back, so that
\* JobsAnswered asks no more than that the first takes its steps. A restart answers nobody: it
\* ends the requests.
THEOREM TurnsCome == Spec => []LineGoesOn /\ TurnsComeCloser
<1> DEFINE P == \A t \in Task, i \in 1..Len(queue) :
                   queue[i] = t /\ pc'[t] \in {"queued", "loaded"} =>
                      \E j \in 1..Len(queue') :
                         /\ queue'[j] = t /\ Left(j)' <= Left(i)
                         /\ (\E x \in Task : JobStep(x)) => Left(j)' < Left(i)
<1>1. Inv /\ LastInv => LineGoesOn
    <2> SUFFICES ASSUME Inv, LastInv PROVE LineGoesOn
        OBVIOUS
    <2>1. \A t \in Task : pc[t] = "loaded" => HasTurn(t)
        BY DEF Inv, TurnInv
    <2>2. queue \in Seq(Task) /\ queue # <<>> => 1 \in 1..Len(queue) /\ queue[1] = Head(queue)
        OBVIOUS
    <2> QED
        BY <2>1, <2>2 DEF Inv, TypeOK, LastInv, LineInv, Pending, LineGoesOn, HasTurn
<1>2. Inv /\ LastInv /\ [Next]_vars => [P]_vars
    <2> SUFFICES ASSUME Inv, LastInv, Next,
                        NEW t \in Task, NEW i \in 1..Len(queue), queue[i] = t,
                        pc'[t] \in {"queued", "loaded"}
                 PROVE  \E j \in 1..Len(queue') :
                           /\ queue'[j] = t /\ Left(j)' <= Left(i)
                           /\ (\E x \in Task : JobStep(x)) => Left(j)' < Left(i)
        OBVIOUS
    <2>1. CASE \E x \in Task : JobStep(x)
        <3>1. PICK j \in 1..Len(queue') : queue'[j] = t /\ Left(j)' < Left(i)
            BY <2>1, JobBringsCloser
        <3>2. Left(i) \in Int /\ Left(j)' \in Int
            BY DEF Left
        <3> QED
            BY <3>1, <3>2
    <2>2. CASE ~ \E x \in Task : JobStep(x)
        <3>1. i \in 1..Len(queue') /\ queue'[i] = t /\ Left(i)' = Left(i)
            BY <2>2, OthersDoNotDelay
        <3>2. Left(i) \in Int
            BY DEF Left
        <3> QED
            BY <2>2, <3>1, <3>2
    <2> QED
        BY <2>1, <2>2
<1>3. [][P]_vars <=> TurnsComeCloser
    BY DEF TurnsComeCloser
<1> QED
    BY <1>1, <1>2, <1>3, LastWordInv, PTL DEF Spec
================================================================================
