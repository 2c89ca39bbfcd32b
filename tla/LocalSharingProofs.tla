---------------------------- MODULE LocalSharingProofs ----------------------------
(***************************************************************************)
(* Local sharing for any number of requests, folders, names and faults.    *)
(* LockInv: a lock has one holder, and those who wait for it stand once    *)
(* each in its queue.  ShareInv: as long as nothing went wrong with a      *)
(* name, what is mounted there follows from where the one request at work  *)
(* on it stands.                                                           *)
(***************************************************************************)
EXTENDS LocalSharing, SequenceTheorems, TLAPS

Undoing    == Releasing \cup {"deleting"}
Removing   == Undoing \cup {"verifying"}
Unreserved == {"idle", "waiting", "looking", "reserving"}
AtShare    == Removing \cup (Adding \ Unreserved)

\* Requests at work: their lock, and the name they are at work on.
WorkOf(t) ==
    /\ pc[t] \in Working \cup {"waiting"} => key[t] \in Key
    /\ pc[t] \in Adding => key[t] \in Source
    /\ pc[t] \in {"reading", "verifying"} => key[t] \in Task
    /\ pc[t] \in Adding \cup Removing => name[t] \in Name
    /\ pc[t] = "waiting" /\ key[t] \in Source => name[t] \in Name

WorkInv == \A t \in Task : WorkOf(t)

\* Those who wait stand in the queue of their lock, each in one place.
QueueInv ==
    \A k \in Key : \A i \in 1..Len(waiters[k]) :
        /\ pc[waiters[k][i]] = "waiting" /\ key[waiters[k][i]] = k
        /\ \A j \in 1..Len(waiters[k]) : waiters[k][i] = waiters[k][j] => i = j

LockInv ==
    /\ \A t \in Task : pc[t] \in Working => key[t] \in held
    /\ OneHolder
    /\ QueueInv

\* Rows belong to additions that have come so far, and have names of their own;
\* a request knows the name its share has, if it has one.
RowInv ==
    /\ \A t \in Task : row[t] # 0 => key[t] \in Source /\ pc[t] \notin Unreserved
    /\ \A t, u \in Task : row[t] # 0 /\ row[t] = row[u] => t = u
    /\ \A t \in Task : pc[t] \in AtShare =>
           row[ShareOf(t)] \in {0, name[t]} /\ pc[ShareOf(t)] \notin Unreserved

\* A request has the row of its name, and a removal is alone with it.
OwnRow(t) ==
    /\ row[ShareOf(t)] = name[t]
    /\ key[t] \notin Source => pc[key[t]] \in Outcome

\* What a request has made certain of the mount.
OwnMount(t) ==
    /\ pc[t] \in {"making", "probing", "mounting", "wiping", "deleting"} => mount[name[t]] = <<>>
    /\ pc[t] \in {"checking", "exporting"} => mount[name[t]] = <<key[t]>>

OwnInv ==
    \A t \in Task : pc[t] \in AtShare => name[t] \in tainted \/ (OwnRow(t) /\ OwnMount(t))

ShareInv == OwnInv /\ MountsHaveRows /\ WipedOnlyWhenTainted

Inv == TypeOK /\ WorkInv /\ LockInv /\ RowInv /\ SourceFree /\ ShareInv

-------------------------------------------------------------------------------
(* The lock *)

\* A request that answers wakes the first who waits for its lock, and nobody else.
LEMMA EndWakes ==
    ASSUME TypeOK, WorkInv, LockInv, NEW t \in Task, pc[t] \in Working,
           NEW o \in Outcome, End(t, o)
    PROVE  /\ pc' \in [Task -> {"idle", "waiting"} \cup Working \cup Outcome]
           /\ pc'[t] = o
           /\ \A u \in Task \ {t} :
                  \/ pc'[u] = pc[u]
                  \/ /\ pc[u] = "waiting" /\ pc'[u] = First(key[u]) /\ key[u] = key[t]
                     /\ waiters[key[t]] # <<>> /\ u = Head(waiters[key[t]])
<1> DEFINE k == key[t]
           ws == waiters[k]
<1>1. k \in Key /\ ws \in Seq(Task)
    BY DEF WorkInv, WorkOf, TypeOK
<1>2. CASE ws = <<>>
    BY <1>2 DEF End, TypeOK
<1>3. CASE ws # <<>>
    <2>1. Head(ws) \in Task /\ Len(ws) \in Nat /\ 1 \in 1..Len(ws) /\ Head(ws) = ws[1]
        BY <1>1, <1>3, HeadTailProperties, EmptySeq
    <2>2. pc[Head(ws)] = "waiting" /\ key[Head(ws)] = k
        BY <1>1, <2>1 DEF LockInv, QueueInv
    <2>3. Head(ws) # t /\ First(k) \in Working
        BY <2>2 DEF Working, First, Adding, Releasing
    <2>4. pc' = [pc EXCEPT ![t] = o, ![Head(ws)] = First(k)]
        BY <1>3 DEF End
    <2> QED
        BY <2>1, <2>2, <2>3, <2>4, <1>3 DEF TypeOK
<1> QED
    BY <1>2, <1>3

LEMMA EndKeepsLock ==
    ASSUME TypeOK, WorkInv, LockInv, NEW t \in Task, pc[t] \in Working,
           NEW o \in Outcome, End(t, o), UNCHANGED key
    PROVE  LockInv' /\ held' \subseteq Key /\ waiters' \in [Key -> Seq(Task)]
<1> DEFINE k == key[t]
           ws == waiters[k]
<1>1. k \in Key /\ ws \in Seq(Task) /\ k \in held
    BY DEF WorkInv, WorkOf, TypeOK, LockInv
<1>2. /\ o \notin Working /\ o # "waiting" /\ "waiting" \notin Working
      /\ pc[t] # "waiting"
    BY DEF Outcome, Working, Adding, Releasing
<1>3. CASE ws = <<>>
    <2>1. held' = held \ {k} /\ waiters' = waiters /\ pc' = [pc EXCEPT ![t] = o]
        BY <1>3 DEF End
    <2>2. \A u \in Task \ {t} : pc'[u] = pc[u]
        BY <2>1 DEF TypeOK
    <2>3. \A u \in Task : pc'[u] \in Working => u # t /\ pc[u] \in Working /\ key[u] # k
        BY <1>2, <2>1, <2>2 DEF TypeOK, LockInv, OneHolder
    <2>4. QueueInv'
        BY <1>2, <2>1, <2>2 DEF LockInv, QueueInv, TypeOK
    <2> QED
        BY <2>1, <2>3, <2>4 DEF LockInv, OneHolder, TypeOK
<1>4. CASE ws # <<>>
    <2> DEFINE h == Head(ws)
    <2>1. /\ h \in Task /\ Len(ws) \in Nat \ {0} /\ h = ws[1]
          /\ Tail(ws) \in Seq(Task) /\ Len(Tail(ws)) = Len(ws) - 1
          /\ \A i \in 1..Len(Tail(ws)) : Tail(ws)[i] = ws[i + 1]
        BY <1>1, <1>4, HeadTailProperties, EmptySeq
    <2>2. pc[h] = "waiting" /\ key[h] = k /\ h # t
        BY <1>1, <1>2, <2>1 DEF LockInv, QueueInv
    <2>3. /\ held' = held
          /\ waiters' = [waiters EXCEPT ![k] = Tail(ws)]
          /\ pc' = [pc EXCEPT ![t] = o, ![h] = First(k)]
        BY <1>4 DEF End
    <2>4. /\ pc'[t] = o /\ pc'[h] = First(k)
          /\ \A u \in Task \ {t, h} : pc'[u] = pc[u]
        BY <2>1, <2>2, <2>3 DEF TypeOK
    <2>5. \A u \in Task \ {h} : pc'[u] \in Working => pc[u] \in Working /\ key[u] # k
        BY <1>2, <2>4 DEF LockInv, OneHolder
    <2>6. waiters' \in [Key -> Seq(Task)]
        BY <2>1, <2>3, <1>1 DEF TypeOK
    <2>7. QueueInv'
        <3> SUFFICES ASSUME NEW q \in Key, NEW i \in 1..Len(waiters'[q])
                     PROVE  /\ pc'[waiters'[q][i]] = "waiting" /\ key[waiters'[q][i]] = q
                            /\ \A j \in 1..Len(waiters'[q]) :
                                   waiters'[q][i] = waiters'[q][j] => i = j
            BY DEF QueueInv
        <3>1. CASE q # k
            <4>1. waiters'[q] = waiters[q]
                BY <3>1, <2>3 DEF TypeOK
            <4>2. /\ pc[waiters[q][i]] = "waiting" /\ key[waiters[q][i]] = q
                  /\ waiters[q][i] \in Task
                BY <4>1 DEF LockInv, QueueInv, TypeOK
            <4>3. waiters[q][i] \notin {t, h}
                BY <4>2, <3>1, <2>2, <1>2
            <4> QED
                BY <4>1, <4>2, <4>3, <2>4 DEF LockInv, QueueInv
        <3>2. CASE q = k
            <4>1. waiters'[q] = Tail(ws)
                BY <3>2, <2>3, <1>1 DEF TypeOK
            <4>2. /\ i \in Int /\ i + 1 \in 1..Len(ws) /\ i + 1 # 1 /\ Tail(ws)[i] = ws[i + 1]
                  /\ 1 \in 1..Len(ws)
                BY <4>1, <2>1
            <4>3. /\ pc[ws[i + 1]] = "waiting" /\ key[ws[i + 1]] = k
                  /\ ws[i + 1] \in Task /\ ws[i + 1] # h
                BY <4>2, <1>1, <2>1 DEF LockInv, QueueInv
            <4>4. pc'[ws[i + 1]] = "waiting"
                BY <4>3, <2>4, <1>2
            <4>5. ASSUME NEW j \in 1..Len(waiters'[q]), waiters'[q][i] = waiters'[q][j]
                  PROVE  i = j
                <5>1. j \in Int /\ j + 1 \in 1..Len(ws) /\ Tail(ws)[j] = ws[j + 1]
                    BY <4>1, <2>1
                <5>2. i + 1 = j + 1
                    BY <5>1, <4>1, <4>2, <4>5, <1>1 DEF LockInv, QueueInv
                <5> QED
                    BY <5>1, <5>2, <4>2
            <4> QED
                BY <4>1, <4>2, <4>3, <4>4, <4>5, <3>2
        <3> QED
            BY <3>1, <3>2
    <2>8. \A u \in Task : pc'[u] \in Working => key[u] \in held'
        BY <2>2, <2>3, <2>5, <1>1 DEF LockInv
    <2>9. OneHolder'
        BY <2>2, <2>5 DEF LockInv, OneHolder
    <2> QED
        BY <2>3, <2>6, <2>7, <2>8, <2>9 DEF LockInv, TypeOK
<1> QED
    BY <1>3, <1>4

\* Going on, or staying, leaves the lock alone.
LEMMA MoveKeepsLock ==
    ASSUME TypeOK, LockInv, NEW t \in Task, pc[t] \in Working, UNCHANGED <<key, locks>>,
           pc' = pc \/ (\E p \in Working : pc' = [pc EXCEPT ![t] = p])
    PROVE  LockInv'
<1>1. \A u \in Task : pc'[u] = pc[u] \/ (u = t /\ pc'[u] \in Working)
    BY DEF TypeOK
<1>2. QueueInv'
    <2>1. "waiting" \notin Working
        BY DEF Working, Adding, Releasing
    <2>2. \A k \in Key : \A i \in 1..Len(waiters[k]) : waiters[k][i] \in Task
        BY DEF TypeOK
    <2> QED
        BY <1>1, <2>1, <2>2 DEF LockInv, QueueInv, locks
<1> QED
    BY <1>1, <1>2 DEF LockInv, OneHolder, locks

\* A request that comes in takes a free lock, or the last place in the queue.
LEMMA AcquireKeepsLock ==
    ASSUME TypeOK, LockInv, NEW t \in Task, pc[t] = "idle", NEW k \in Key, Acquire(t, k)
    PROVE  /\ LockInv' /\ held' \subseteq Key /\ waiters' \in [Key -> Seq(Task)]
           /\ key' = [key EXCEPT ![t] = k]
           /\ pc' = [pc EXCEPT ![t] = "waiting"] \/ pc' = [pc EXCEPT ![t] = First(k)]
<1>1. /\ "idle" \notin Working /\ "waiting" \notin Working
      /\ First(k) \in Working /\ First(k) # "waiting"
    BY DEF Working, Adding, Releasing, First
<1>2. key' = [key EXCEPT ![t] = k] /\ \A u \in Task \ {t} : key'[u] = key[u]
    BY DEF Acquire, TypeOK
<1>3. CASE k \in held
    <2> DEFINE ws == waiters[k]
               a  == Append(ws, t)
    <2>1. /\ waiters' = [waiters EXCEPT ![k] = a] /\ pc' = [pc EXCEPT ![t] = "waiting"]
          /\ held' = held
        BY <1>3 DEF Acquire
    <2>2. /\ ws \in Seq(Task) /\ Len(ws) \in Nat /\ a \in Seq(Task) /\ Len(a) = Len(ws) + 1
          /\ a[Len(ws) + 1] = t /\ \A i \in 1..Len(ws) : a[i] = ws[i]
        BY AppendProperties DEF TypeOK
    <2>3. pc'[t] = "waiting" /\ key'[t] = k /\ \A u \in Task \ {t} : pc'[u] = pc[u]
        BY <2>1, <1>2 DEF TypeOK
    <2>4. waiters' \in [Key -> Seq(Task)]
        BY <2>1, <2>2 DEF TypeOK
    <2>5. QueueInv'
        <3> SUFFICES ASSUME NEW q \in Key, NEW i \in 1..Len(waiters'[q])
                     PROVE  /\ pc'[waiters'[q][i]] = "waiting" /\ key'[waiters'[q][i]] = q
                            /\ \A j \in 1..Len(waiters'[q]) :
                                   waiters'[q][i] = waiters'[q][j] => i = j
            BY DEF QueueInv
        <3>1. ASSUME NEW p \in Key, NEW j \in 1..Len(waiters[p])
              PROVE  /\ waiters[p][j] \in Task \ {t}
                     /\ pc'[waiters[p][j]] = "waiting" /\ key'[waiters[p][j]] = p
            <4>1. waiters[p][j] \in Task /\ pc[waiters[p][j]] = "waiting" /\ key[waiters[p][j]] = p
                BY DEF LockInv, QueueInv, TypeOK
            <4>2. waiters[p][j] # t
                BY <4>1
            <4> QED
                BY <4>1, <4>2, <2>3, <1>2
        <3>2. CASE q # k
            <4>1. waiters'[q] = waiters[q]
                BY <3>2, <2>1 DEF TypeOK
            <4> QED
                BY <4>1, <3>1 DEF LockInv, QueueInv
        <3>3. CASE q = k
            <4>1. waiters'[q] = a
                BY <3>3, <2>1 DEF TypeOK
            <4>2. \A j \in 1..Len(a) : j \in 1..Len(ws) \/ j = Len(ws) + 1
                BY <2>2
            <4>3. \A j \in 1..Len(ws) : a[j] # t /\ pc'[a[j]] = "waiting" /\ key'[a[j]] = k
                BY <3>1, <2>2
            <4>4. pc'[a[i]] = "waiting" /\ key'[a[i]] = k
                BY <4>1, <4>2, <4>3, <2>2, <2>3
            <4>5. ASSUME NEW j \in 1..Len(a), a[i] = a[j] PROVE i = j
                BY <4>1, <4>2, <4>3, <4>5, <2>2 DEF LockInv, QueueInv
            <4> QED
                BY <4>1, <4>4, <4>5, <3>3
        <3> QED
            BY <3>2, <3>3
    <2>6. \A u \in Task : pc'[u] \in Working => u # t /\ pc[u] \in Working /\ key'[u] = key[u]
        BY <1>1, <1>2, <2>3
    <2> QED
        BY <1>2, <2>1, <2>4, <2>5, <2>6 DEF LockInv, OneHolder, TypeOK
<1>4. CASE k \notin held
    <2>1. held' = held \cup {k} /\ pc' = [pc EXCEPT ![t] = First(k)] /\ waiters' = waiters
        BY <1>4 DEF Acquire
    <2>2. key'[t] = k /\ \A u \in Task \ {t} : pc'[u] = pc[u]
        BY <2>1, <1>2 DEF TypeOK
    <2>3. \A p \in Key : \A j \in 1..Len(waiters[p]) : waiters[p][j] \in Task \ {t}
        BY DEF LockInv, QueueInv, TypeOK
    <2>4. QueueInv'
        BY <1>2, <2>1, <2>2, <2>3 DEF LockInv, QueueInv
    <2>5. \A u \in Task \ {t} : pc'[u] \in Working => key'[u] \in held /\ key'[u] # k
        BY <1>2, <1>4, <2>2 DEF LockInv
    <2>6. OneHolder'
        BY <1>2, <2>2, <2>5 DEF LockInv, OneHolder
    <2> QED
        BY <1>2, <2>1, <2>2, <2>4, <2>5, <2>6 DEF LockInv, TypeOK
<1> QED
    BY <1>3, <1>4

-------------------------------------------------------------------------------
(* What a step of a request does *)

\* It goes on with its lock, tries again, or answers; locks change with answers only.
LEMMA StepMoves ==
    ASSUME NEW t \in Task, Step(t)
    PROVE  /\ pc[t] \in Working /\ UNCHANGED key
           /\ \/ /\ UNCHANGED locks
                 /\ pc' = pc \/ \E p \in Working : pc' = [pc EXCEPT ![t] = p]
              \/ \E o \in Outcome : End(t, o)
<1> USE DEF Working, Adding, Releasing, Outcome
<1>1. CASE Look(t) \/ Reserve(t) \/ MakeDir(t) \/ Probe(t) \/ Mount(t) \/ StepFails(t)
    BY <1>1 DEF Look, Reserve, MakeDir, Probe, Mount, StepFails, Goto
<1>2. CASE Check(t) \/ Export(t) \/ Read(t)
    BY <1>2 DEF Check, Export, Read, Goto
<1>3. CASE AskExport(t) \/ AskMount(t) \/ Unexport(t)
    BY <1>3 DEF AskExport, AskMount, Unexport, AfterUnexport, Goto
<1>4. CASE UnexportFails(t) \/ Unmount(t) \/ UnmountFails(t) \/ Recheck(t)
    BY <1>4 DEF UnexportFails, Unmount, UnmountFails, Recheck, Throws, Goto
<1>5. CASE Wipe(t) \/ WipeFails(t) \/ Verify(t) \/ Delete(t)
    BY <1>5 DEF Wipe, WipeFails, Verify, Delete, Throws, Goto
<1>6. CASE QueryFails(t) \/ MountProbeMisled(t) \/ ExportProbeMisled(t)
    BY <1>6 DEF QueryFails, MountProbeMisled, ExportProbeMisled, Goto
<1> QED
    BY <1>1, <1>2, <1>3, <1>4, <1>5, <1>6 DEF Step

DataOK ==
    /\ name \in [Task -> 0..MaxName]
    /\ sawExport \in [Task -> BOOLEAN] /\ sawMount \in [Task -> BOOLEAN]
    /\ row \in [Task -> 0..MaxName]
    /\ mount \in [Name -> Seq(Source)]
    /\ exported \subseteq Name /\ dirs \subseteq Name
    /\ wiped \subseteq Name /\ tainted \subseteq Name
    /\ faults \in 0..MaxFaults

\* Taking away the visible mount leaves a stack of mounts.
LEMMA UncoveredType ==
    ASSUME DataOK, NEW n
    PROVE  Uncovered(n) \in [Name -> Seq(Source)]
<1>1. ASSUME n \in Name, mount[n] # <<>>
      PROVE  SubSeq(mount[n], 1, Len(mount[n]) - 1) \in Seq(Source)
    <2>1. mount[n] \in Seq(Source) /\ Len(mount[n]) \in Nat \ {0}
        BY <1>1, EmptySeq DEF DataOK
    <2>2. \A i \in 1..(Len(mount[n]) - 1) : mount[n][i] \in Source
        BY <2>1
    <2> QED
        BY <2>1, <2>2, SubSeqProperties
<1> QED
    BY <1>1 DEF Uncovered, DataOK

\* Names, rows and mounts it leaves alone.
LEMMA StepFrame ==
    ASSUME TypeOK, WorkInv, NEW t \in Task, Step(t)
    PROVE  /\ ~Read(t) => name' = name \/ (Reserve(t) /\ UNCHANGED row)
           /\ \A u \in Task \ {t} : name'[u] = name[u]
           /\ ~Reserve(t) /\ ~Delete(t) => row' = row
           /\ \A n \in Name : n # name[t] \/ ~(Mount(t) \/ Unmount(t)) => mount'[n] = mount[n]
           /\ tainted \subseteq tainted'
           /\ wiped' = wiped \/ (Wipe(t) /\ Mounted(name[t]) /\ wiped' = wiped \cup {name[t]})
<1>1. CASE Look(t) \/ Reserve(t) \/ MakeDir(t) \/ Probe(t) \/ Mount(t) \/ StepFails(t)
    BY <1>1 DEF Look, Reserve, MakeDir, Probe, Mount, StepFails, TypeOK, host
<1>2. CASE Check(t) \/ Export(t) \/ Read(t)
    BY <1>2 DEF Check, Export, Read, TypeOK, Taint, host
<1>3. CASE AskExport(t) \/ AskMount(t) \/ Unexport(t)
    BY <1>3 DEF AskExport, AskMount, Unexport, host
<1>4. CASE UnexportFails(t) \/ Unmount(t) \/ UnmountFails(t) \/ Recheck(t)
    BY <1>4 DEF UnexportFails, Unmount, UnmountFails, Recheck, Throws, Taint, TypeOK, Uncovered, host
<1>5. CASE Wipe(t) \/ WipeFails(t) \/ Verify(t) \/ Delete(t)
    BY <1>5 DEF Wipe, WipeFails, Verify, Delete, Throws, Taint, host
<1>6. CASE QueryFails(t) \/ MountProbeMisled(t) \/ ExportProbeMisled(t)
    BY <1>6 DEF QueryFails, MountProbeMisled, ExportProbeMisled, Taint, host
<1> QED
    BY <1>1, <1>2, <1>3, <1>4, <1>5, <1>6 DEF Step

\* The variables the lock has nothing to do with keep their types.
LEMMA StepTypes ==
    ASSUME TypeOK, WorkInv, NEW t \in Task, Step(t)
    PROVE  DataOK'
<1>1. DataOK
    BY DEF TypeOK, DataOK
<1>2. pc[t] \in Adding \cup Removing => name[t] \in Name
    BY DEF WorkInv, WorkOf
<1>3. ASSUME NEW f, Fault(f) PROVE faults' \in 0..MaxFaults
    BY <1>1, <1>3, SharingAssumption DEF Fault, DataOK, SharingAssumption
<1>4. /\ tainted' = tainted \/ (Taint(name[t]) /\ pc[t] \in Adding \cup Removing)
      /\ wiped' = wiped \/ (wiped' = wiped \cup {name[t]} /\ pc[t] \in Adding \cup Removing)
      /\ dirs' = dirs \/ dirs' = dirs \ {name[t]} \/ (dirs' = dirs \cup {name[t]} /\ pc[t] \in Adding)
      /\ exported' = exported \/ exported' = exported \ {name[t]}
             \/ (exported' = exported \cup {name[t]} /\ pc[t] \in Adding)
      \/ Read(t)
    <2> USE DEF Adding, Removing, Undoing, Releasing, host
    <2>1. CASE Look(t) \/ Reserve(t) \/ MakeDir(t) \/ Probe(t) \/ Mount(t) \/ StepFails(t)
        BY <2>1 DEF Look, Reserve, MakeDir, Probe, Mount, StepFails
    <2>2. CASE Check(t) \/ Export(t) \/ Read(t) \/ AskExport(t) \/ AskMount(t) \/ Unexport(t)
        BY <2>2 DEF Check, Export, AskExport, AskMount, Unexport
    <2>3. CASE UnexportFails(t) \/ Unmount(t) \/ UnmountFails(t) \/ Recheck(t)
        BY <2>3 DEF UnexportFails, Unmount, UnmountFails, Recheck, Throws
    <2>4. CASE Wipe(t) \/ WipeFails(t) \/ Verify(t) \/ Delete(t)
        BY <2>4 DEF Wipe, WipeFails, Verify, Delete, Throws
    <2>5. CASE QueryFails(t) \/ MountProbeMisled(t) \/ ExportProbeMisled(t)
        BY <2>5 DEF QueryFails, MountProbeMisled, ExportProbeMisled
    <2> QED
        BY <2>1, <2>2, <2>3, <2>4, <2>5 DEF Step
<1>5. /\ exported' \subseteq Name /\ dirs' \subseteq Name
      /\ wiped' \subseteq Name /\ tainted' \subseteq Name
    <2>1. CASE ~Read(t)
        BY <1>1, <1>2, <1>4, <2>1 DEF DataOK, Taint
    <2>2. CASE Read(t)
        <3>1. key[t] \in Task /\ ShareOf(t) = key[t]
            BY <2>2, SharingAssumption DEF Read, WorkInv, WorkOf, ShareOf, Adds, SharingAssumption
        <3>2. row[key[t]] # 0 => row[key[t]] \in Name
            BY <1>1, <3>1, SharingAssumption DEF DataOK, Name, SharingAssumption
        <3> QED
            BY <1>1, <2>2, <3>1, <3>2 DEF Read, Taint, host, DataOK
    <2> QED
        BY <2>1, <2>2
<1>6. faults' \in 0..MaxFaults
    <2>1. faults' = faults \/ \E f \in FaultKinds : Fault(f)
        BY DEF Step, Look, Reserve, MakeDir, Probe, Mount, StepFails, Check, Export, Read, AskExport,
               AskMount, Unexport, UnexportFails, Unmount, UnmountFails, Recheck, Wipe, WipeFails,
               Verify, Delete, QueryFails, MountProbeMisled, ExportProbeMisled, FaultKinds
    <2> QED
        BY <1>1, <1>3, <2>1 DEF DataOK
<1>7. sawExport' \in [Task -> BOOLEAN] /\ sawMount' \in [Task -> BOOLEAN]
    <2>1. CASE AskExport(t)
        <3>1. (name[t] \in exported) \in BOOLEAN
            OBVIOUS
        <3> QED
            BY <1>1, <2>1, <3>1 DEF AskExport, DataOK
    <2>2. CASE AskMount(t)
        <3>1. Mounted(name[t]) \in BOOLEAN
            BY DEF Mounted
        <3> QED
            BY <1>1, <2>2, <3>1 DEF AskMount, DataOK
    <2>3. CASE ExportProbeMisled(t)
        BY <1>1, <2>3 DEF ExportProbeMisled, DataOK, seen
    <2>4. CASE MountProbeMisled(t)
        <3>1. UNCHANGED seen \/ (sawMount' = [sawMount EXCEPT ![t] = FALSE] /\ UNCHANGED sawExport)
            BY <2>4 DEF MountProbeMisled
        <3> QED
            BY <1>1, <3>1 DEF DataOK, seen
    <2>5. UNCHANGED seen \/ AskExport(t) \/ AskMount(t) \/ ExportProbeMisled(t) \/ MountProbeMisled(t)
        BY DEF Step, Look, Reserve, MakeDir, Probe, Mount, StepFails, Check, Export, Read, Unexport,
               UnexportFails, Unmount, UnmountFails, Recheck, Wipe, WipeFails, Verify, Delete,
               QueryFails, seen
    <2> QED
        BY <1>1, <2>1, <2>2, <2>3, <2>4, <2>5 DEF DataOK, seen
<1>8. name' \in [Task -> 0..MaxName] /\ row' \in [Task -> 0..MaxName]
    <2>1. CASE Reserve(t)
        <3>1. name[t] \in 1..MaxName /\ MaxName \in Nat
            BY <2>1, <1>2, SharingAssumption DEF Reserve, Adding, Name, SharingAssumption
        <3>2. name' = name \/ (name[t] < MaxName /\ name' = [name EXCEPT ![t] = name[t] + 1])
            BY <2>1 DEF Reserve
        <3>3. row' = row \/ row' = [row EXCEPT ![t] = name[t]]
            BY <2>1 DEF Reserve
        <3>4. name[t] < MaxName => name[t] + 1 \in 0..MaxName
            BY <3>1
        <3>5. name[t] \in 0..MaxName
            BY <3>1
        <3> QED
            BY <1>1, <3>2, <3>3, <3>4, <3>5 DEF DataOK
    <2>2. CASE Read(t)
        <3>1. ShareOf(t) \in Task
            BY <2>2, SharingAssumption DEF Read, WorkInv, WorkOf, ShareOf, SharingAssumption
        <3> QED
            BY <1>1, <2>2, <3>1 DEF Read, DataOK
    <2>3. CASE Delete(t)
        <3>1. 0 \in 0..MaxName
            BY SharingAssumption DEF SharingAssumption
        <3>2. row' = [row EXCEPT ![ShareOf(t)] = 0] /\ name' = name
            BY <2>3 DEF Delete
        <3> QED
            BY <1>1, <3>1, <3>2 DEF DataOK
    <2>4. CASE ~Reserve(t) /\ ~Read(t) /\ ~Delete(t)
        BY <1>1, <2>4, StepFrame DEF DataOK
    <2> QED
        BY <2>1, <2>2, <2>3, <2>4
<1>9. mount' \in [Name -> Seq(Source)]
    <2>1. CASE Mount(t)
        <3>1. name[t] \in Name /\ key[t] \in Source
            BY <2>1 DEF Mount, WorkInv, WorkOf, Adding
        <3>2. Append(mount[name[t]], key[t]) \in Seq(Source)
            BY <1>1, <3>1 DEF DataOK
        <3> QED
            BY <1>1, <2>1, <3>2 DEF Mount, DataOK
    <2>2. CASE Unmount(t)
        BY <1>1, <2>2, UncoveredType DEF Unmount, DataOK
    <2>3. CASE ~Mount(t) /\ ~Unmount(t)
        <3>1. mount' = mount
            BY <2>3 DEF Step, Look, Reserve, MakeDir, Probe, StepFails, Check, Export, Read, AskExport,
               AskMount, Unexport, UnexportFails, UnmountFails, Recheck, Wipe, WipeFails,
               Verify, Delete, QueryFails, MountProbeMisled, ExportProbeMisled, host
        <3> QED
            BY <1>1, <3>1 DEF DataOK
    <2> QED
        BY <2>1, <2>2, <2>3
<1> QED
    BY <1>5, <1>6, <1>7, <1>8, <1>9 DEF DataOK

\* Nobody else moves, but for the one who is woken.
LEMMA StepOthers ==
    ASSUME TypeOK, WorkInv, LockInv, NEW t \in Task, Step(t)
    PROVE  /\ pc' \in [Task -> {"idle", "waiting"} \cup Working \cup Outcome]
           /\ pc'[t] \in Working \cup Outcome
           /\ \A u \in Task \ {t} :
                  pc'[u] = pc[u] \/ (pc[u] = "waiting" /\ pc'[u] = First(key[u]))
<1>1. pc[t] \in Working
    BY StepMoves
<1>2. ASSUME NEW o \in Outcome, End(t, o)
      PROVE  /\ pc' \in [Task -> {"idle", "waiting"} \cup Working \cup Outcome]
             /\ pc'[t] = o
             /\ \A u \in Task \ {t} :
                    pc'[u] = pc[u] \/ (pc[u] = "waiting" /\ pc'[u] = First(key[u]))
    BY <1>1, <1>2, EndWakes
<1>3. CASE pc' = pc \/ \E p \in Working : pc' = [pc EXCEPT ![t] = p]
    BY <1>1, <1>3 DEF TypeOK
<1> QED
    BY <1>2, <1>3, StepMoves

LEMMA StepKeepsLock ==
    ASSUME TypeOK, WorkInv, LockInv, NEW t \in Task, Step(t)
    PROVE  TypeOK' /\ LockInv'
<1>1. pc[t] \in Working /\ UNCHANGED key
    BY StepMoves
<1>2. LockInv' /\ held' \subseteq Key /\ waiters' \in [Key -> Seq(Task)]
    <2>1. CASE UNCHANGED locks /\ (pc' = pc \/ \E p \in Working : pc' = [pc EXCEPT ![t] = p])
        <3>1. LockInv'
            BY <1>1, <2>1, MoveKeepsLock
        <3> QED
            BY <2>1, <3>1 DEF TypeOK, locks
    <2>2. ASSUME NEW o \in Outcome, End(t, o)
          PROVE  LockInv' /\ held' \subseteq Key /\ waiters' \in [Key -> Seq(Task)]
        BY <1>1, <2>2, EndKeepsLock
    <2> QED
        BY <2>1, <2>2, StepMoves
<1>3. DataOK'
    BY StepTypes
<1>4. pc' \in [Task -> {"idle", "waiting"} \cup Working \cup Outcome]
    BY StepOthers
<1>5. key' \in [Task -> Key \cup {None}]
    BY <1>1 DEF TypeOK
<1> QED
    BY <1>2, <1>3, <1>4, <1>5 DEF TypeOK, DataOK

\* Where a request can get to.
LEMMA StepSelf ==
    ASSUME TypeOK, WorkInv, LockInv, NEW t \in Task, Step(t)
    PROVE  /\ pc'[t] \in Adding => pc[t] \in Adding /\ pc'[t] # "looking"
           /\ pc'[t] # "reading"
           /\ pc'[t] = "reserving" => pc[t] = "reserving" \/ ~SourceTaken(t)
           /\ pc'[t] = "verifying" => ~Adds(t)
           /\ pc'[t] \in Unreserved => pc[t] \in Unreserved
           /\ pc'[t] \in AtShare =>
                  \/ pc[t] \in AtShare
                  \/ Reserve(t) /\ row' # row
                  \/ Read(t) /\ row[ShareOf(t)] # 0
<1>1. ASSUME NEW p, Goto(t, p)
      PROVE  pc'[t] = p
    BY <1>1 DEF Goto, TypeOK
<1>2. \/ pc'[t] \in Outcome
      \/ /\ pc[t] = "reserving" \/ (pc[t] = "looking" /\ ~SourceTaken(t))
         /\ pc'[t] = "reserving"
      \/ Reserve(t) /\ row' # row /\ pc'[t] = "making"
      \/ /\ pc[t] \in Adding \ Unreserved
         /\ pc'[t] \in (Adding \cup Removing) \ (Unreserved \cup {"verifying"})
      \/ pc[t] \in Removing /\ pc'[t] \in Undoing
      \/ pc[t] \in Removing /\ pc'[t] = "verifying" /\ ~Adds(t)
      \/ Read(t) /\ row[ShareOf(t)] # 0 /\ pc'[t] = "askExport"
    <2> USE DEF Adding, Removing, Undoing, Releasing, Unreserved
    <2>1. ASSUME NEW o \in Outcome, End(t, o) PROVE pc'[t] \in Outcome
        <3>1. pc[t] \in Working
            BY StepMoves
        <3> QED
            BY <2>1, <3>1, EndWakes
    <2>2. {"rejected", "shared", "removed"} \subseteq Outcome
        BY DEF Outcome
    <2>3. CASE Look(t) \/ MakeDir(t) \/ Probe(t) \/ Mount(t) \/ StepFails(t)
        BY <1>1, <2>1, <2>2, <2>3 DEF Look, MakeDir, Probe, Mount, StepFails
    <2>4. CASE Reserve(t) \/ Check(t) \/ Export(t)
        <3>1. ASSUME Reserve(t), row' = [row EXCEPT ![t] = name[t]], ~NameTaken(name[t]) PROVE row' # row
            BY <3>1 DEF NameTaken, TypeOK
        <3> QED
            BY <1>1, <2>1, <2>2, <2>4, <3>1 DEF Reserve, Check, Export
    <2>5. CASE Read(t)
        BY <1>1, <2>1, <2>2, <2>5 DEF Read
    <2>6. CASE AskExport(t) \/ AskMount(t) \/ Unexport(t) \/ UnexportFails(t)
        BY <1>1, <2>6 DEF AskExport, AskMount, Unexport, UnexportFails, AfterUnexport, Throws
    <2>7. CASE Unmount(t) \/ UnmountFails(t) \/ Recheck(t) \/ Wipe(t) \/ WipeFails(t)
        BY <1>1, <2>7 DEF Unmount, UnmountFails, Recheck, Wipe, WipeFails, Throws
    <2>8. CASE Verify(t) \/ Delete(t) \/ QueryFails(t)
        BY <1>1, <2>1, <2>2, <2>8 DEF Verify, Delete, QueryFails
    <2>9. CASE MountProbeMisled(t) \/ ExportProbeMisled(t)
        BY <1>1, <2>9 DEF MountProbeMisled, ExportProbeMisled
    <2> QED
        BY <2>3, <2>4, <2>5, <2>6, <2>7, <2>8, <2>9 DEF Step
<1> QED
    BY <1>2 DEF Adding, Removing, Undoing, Releasing, Outcome, Unreserved, AtShare, Reserve

LEMMA StepKeepsWork ==
    ASSUME TypeOK, WorkInv, LockInv, NEW t \in Task, Step(t)
    PROVE  WorkInv'
<1>1. UNCHANGED key /\ \A u \in Task \ {t} : name'[u] = name[u]
    BY StepMoves, StepFrame
<1>2. ASSUME NEW u \in Task \ {t}
      PROVE  WorkOf(u)'
    <2>1. CASE pc'[u] = pc[u]
        BY <1>1, <2>1 DEF WorkInv, WorkOf
    <2>2. CASE pc[u] = "waiting" /\ pc'[u] = First(key[u])
        BY <1>1, <2>2 DEF WorkInv, WorkOf, First, Key, Adding, Removing, Undoing, Releasing, Working
    <2> QED
        BY <2>1, <2>2, StepOthers
<1>3. WorkOf(t)'
    <2>1. pc[t] \in Working /\ key[t] \in Key
        BY StepMoves DEF WorkInv, WorkOf
    <2>2. ~Adds(t) => key[t] \in Task
        BY <2>1 DEF Adds, Key
    <2>3. pc[t] \in Adding \cup Removing => name[t] \in Name
        BY DEF WorkInv, WorkOf
    <2>4. pc[t] \in Adding \cup Removing /\ ~Read(t) => name'[t] \in Name
        <3>1. CASE Reserve(t)
            BY <3>1, <2>3, SharingAssumption DEF Reserve, Name, SharingAssumption, TypeOK, Adding
        <3>2. CASE ~Reserve(t)
            BY <3>2, <2>3, StepFrame
        <3> QED
            BY <3>1, <3>2
    <2>5. Read(t) /\ row[ShareOf(t)] # 0 => name'[t] \in Name
        <3>1. ShareOf(t) \in Task
            BY <2>2 DEF ShareOf
        <3> QED
            BY <3>1, SharingAssumption DEF Read, Name, TypeOK, SharingAssumption
    <2>6. pc'[t] \in Adding \cup Removing => name'[t] \in Name
        BY <2>4, <2>5, StepSelf DEF Read, Reserve, AtShare, Adding, Removing, Undoing, Releasing
    <2>7. pc'[t] # "waiting"
        BY StepOthers DEF Working, Outcome, Adding, Releasing
    <2>8. pc'[t] \in Adding => key[t] \in Source
        BY StepSelf DEF WorkInv, WorkOf
    <2> QED
        BY <1>1, <2>1, <2>2, <2>6, <2>7, <2>8, StepSelf DEF WorkOf
<1> QED
    BY <1>2, <1>3 DEF WorkInv, WorkOf

-------------------------------------------------------------------------------
(* Rows *)

\* Two requests at work on one name that is all right are one.
LEMMA Alone ==
    ASSUME TypeOK, WorkInv, LockInv, RowInv, OwnInv, NEW t \in Task, NEW u \in Task,
           pc[t] \in AtShare, pc[u] \in AtShare, name[t] = name[u], name[t] \notin tainted
    PROVE  t = u
<1>1. /\ OwnRow(t) /\ OwnRow(u) /\ pc[t] \in Working /\ pc[u] \in Working
      /\ pc[t] \notin Outcome /\ pc[u] \notin Outcome
    BY DEF OwnInv, AtShare, Removing, Undoing, Working, Releasing, Adding, Outcome
<1>2. /\ key[t] \in Key /\ key[u] \in Key
      /\ name[t] # 0 /\ ShareOf(t) \in Task /\ ShareOf(u) \in Task
    BY <1>1, SharingAssumption
       DEF WorkInv, WorkOf, AtShare, Name, SharingAssumption, ShareOf, Adds, Key
<1>3. ShareOf(t) = ShareOf(u)
    BY <1>1, <1>2 DEF OwnRow, RowInv
<1>4. CASE key[t] \in Source /\ key[u] \in Source
    BY <1>3, <1>4 DEF ShareOf, Adds
<1>5. CASE key[t] \notin Source /\ key[u] \notin Source
    BY <1>1, <1>3, <1>5 DEF ShareOf, Adds, LockInv, OneHolder
<1>6. CASE key[t] \in Source /\ key[u] \notin Source
    BY <1>1, <1>3, <1>6 DEF ShareOf, Adds, OwnRow
<1>7. CASE key[t] \notin Source /\ key[u] \in Source
    BY <1>1, <1>3, <1>7 DEF ShareOf, Adds, OwnRow
<1> QED
    BY <1>4, <1>5, <1>6, <1>7

\* A step writes at most one row: an addition its own, or the end of a share its.
LEMMA StepRows ==
    ASSUME TypeOK, WorkInv, LockInv, NEW t \in Task, Step(t)
    PROVE  /\ ShareOf(t) \in Task
           /\ \/ row' = row
              \/ /\ Reserve(t) /\ pc[t] = "reserving" /\ pc'[t] = "making"
                 /\ key[t] \in Source /\ ShareOf(t) = t /\ name' = name
                 /\ ~NameTaken(name[t]) /\ row' = [row EXCEPT ![t] = name[t]]
              \/ /\ Delete(t) /\ pc[t] = "deleting" /\ pc'[t] \in Outcome /\ name' = name
                 /\ row' = [row EXCEPT ![ShareOf(t)] = 0]
<1>1. pc[t] \in Working /\ key[t] \in Key
    BY StepMoves DEF WorkInv, WorkOf
<1>2. ShareOf(t) \in Task
    BY <1>1 DEF ShareOf, Adds, Key
<1>3. CASE Reserve(t)
    <2>1. key[t] \in Source
        BY <1>3 DEF Reserve, WorkInv, WorkOf, Adding
    <2> QED
        BY <1>2, <1>3, <2>1 DEF Reserve, Goto, TypeOK, ShareOf, Adds
<1>4. CASE Delete(t)
    <2>1. PICK o \in Outcome : End(t, o)
        BY <1>4 DEF Delete, Outcome
    <2>2. pc'[t] = o
        BY <1>1, <2>1, EndWakes
    <2> QED
        BY <1>2, <1>4, <2>2 DEF Delete
<1> QED
    BY <1>2, <1>3, <1>4, StepFrame

LEMMA StepKeepsRows ==
    ASSUME TypeOK, WorkInv, LockInv, RowInv, NEW t \in Task, Step(t)
    PROVE  RowInv'
<1>1. /\ UNCHANGED key /\ pc[t] \in Working
      /\ \A u \in Task \ {t} : name'[u] = name[u]
    BY StepMoves, StepFrame
<1>2. ASSUME NEW u \in Task, pc[u] \notin Unreserved PROVE pc'[u] \notin Unreserved
    <2>1. CASE u = t
        BY <1>2, <2>1, StepSelf
    <2>2. CASE u # t
        BY <1>2, <2>2, StepOthers DEF Unreserved
    <2> QED
        BY <2>1, <2>2
<1>3. ASSUME NEW u \in Task, row'[u] # 0
      PROVE  key'[u] \in Source /\ pc'[u] \notin Unreserved
    <2>1. CASE row[u] # 0
        BY <1>1, <1>2, <2>1 DEF RowInv
    <2>2. CASE row[u] = 0
        BY <1>1, <1>3, <2>2, StepRows DEF TypeOK, Unreserved
    <2> QED
        BY <2>1, <2>2
<1>4. ASSUME NEW u \in Task, NEW v \in Task, row'[u] # 0, row'[u] = row'[v] PROVE u = v
    <2>1. CASE row' = row
        BY <1>4, <2>1 DEF RowInv
    <2>2. CASE row' = [row EXCEPT ![t] = name[t]] /\ ~NameTaken(name[t])
        <3>1. \A i \in Task : row[i] # name[t]
            BY <2>2 DEF NameTaken
        <3>2. row'[t] = name[t] /\ \A i \in Task \ {t} : row'[i] = row[i]
            BY <2>2 DEF TypeOK
        <3> QED
            BY <1>4, <3>1, <3>2 DEF RowInv
    <2>3. CASE row' = [row EXCEPT ![ShareOf(t)] = 0]
        <3>1. row'[u] = row[u] /\ row'[v] = row[v]
            BY <1>4, <2>3, StepRows DEF TypeOK
        <3> QED
            BY <1>4, <3>1 DEF RowInv
    <2> QED
        BY <2>1, <2>2, <2>3, StepRows
<1>5. ASSUME NEW u \in Task, pc'[u] \in AtShare
      PROVE  row'[ShareOf(u)] \in {0, name'[u]} /\ pc'[ShareOf(u)] \notin Unreserved
    <2>0. ASSUME pc[u] \in AtShare, name'[u] = name[u]
          PROVE  row'[ShareOf(u)] \in {0, name'[u]} /\ pc'[ShareOf(u)] \notin Unreserved
        <3>1. row[ShareOf(u)] \in {0, name[u]} /\ pc[ShareOf(u)] \notin Unreserved
            BY <2>0 DEF RowInv
        <3>2. ShareOf(u) \in Task
            BY <2>0 DEF ShareOf, Adds, WorkInv, WorkOf, Key, AtShare, Removing, Undoing, Working
        <3>3. row'[ShareOf(u)] \in {0, name[u]}
            BY <3>1, <3>2, StepRows DEF TypeOK, Unreserved
        <3> QED
            BY <2>0, <3>1, <3>2, <3>3, <1>2
    <2>1. CASE u # t
        <3>1. pc[u] \in AtShare
            BY <1>5, <2>1, StepOthers
               DEF First, AtShare, Removing, Undoing, Releasing, Adding, Unreserved
        <3> QED
            BY <1>1, <2>0, <2>1, <3>1
    <2>2. CASE u = t /\ pc[t] \in AtShare
        <3>1. ~Read(t) /\ ~Reserve(t)
            BY <2>2 DEF Read, Reserve, AtShare, Removing, Undoing, Releasing, Adding, Unreserved
        <3> QED
            BY <2>0, <2>2, <3>1, StepFrame
    <2>3. CASE u = t /\ Reserve(t) /\ row' # row
        <3>1. Reserve(t) /\ ~Delete(t)
            BY <2>3 DEF Reserve, Delete
        <3> QED
            BY <2>3, <3>1, <1>5, StepRows DEF TypeOK, Unreserved
    <2>4. CASE u = t /\ Read(t) /\ row[ShareOf(t)] # 0
        <3>1. row' = row /\ name'[t] = row[ShareOf(t)] /\ ShareOf(t) \in Task
            BY <2>4, StepRows DEF Read, TypeOK
        <3>2. pc[ShareOf(t)] \notin Unreserved
            BY <2>4, <3>1 DEF RowInv
        <3> QED
            BY <2>4, <3>1, <3>2, <1>2
    <2> QED
        BY <1>5, <2>1, <2>2, <2>3, <2>4, StepSelf
<1>6. \A u \in Task : ShareOf(u)' = ShareOf(u)
    BY <1>1 DEF ShareOf, Adds
<1> QED
    BY <1>3, <1>4, <1>5, <1>6 DEF RowInv

\* A folder found free stays free until the row is there.
LEMMA StepKeepsFree ==
    ASSUME TypeOK, WorkInv, LockInv, RowInv, SourceFree, NEW t \in Task, Step(t)
    PROVE  SourceFree'
<1> SUFFICES ASSUME NEW u \in Task, pc'[u] = "reserving"
             PROVE  ~SourceTaken(u)'
    BY DEF SourceFree
<1>1. UNCHANGED key /\ pc[t] \in Working
    BY StepMoves
<1>2. CASE u # t
    <2>1. pc[u] = "reserving"
        BY <1>2, StepOthers DEF First
    <2>2. ~SourceTaken(u)
        BY <2>1 DEF SourceFree
    <2>3. key[t] # key[u]
        BY <1>1, <1>2, <2>1 DEF LockInv, OneHolder, Working, Adding
    <2> QED
        BY <1>1, <2>2, <2>3, StepRows DEF SourceTaken, TypeOK
<1>3. CASE u = t
    <2>1. ~SourceTaken(t)
        BY <1>3, StepSelf DEF SourceFree
    <2>2. row' = row
        BY <1>3, StepRows DEF Outcome
    <2> QED
        BY <1>1, <1>3, <2>1, <2>2 DEF SourceTaken
<1> QED
    BY <1>2, <1>3

-------------------------------------------------------------------------------
(* Mounts *)

\* A step of one request leaves what another is certain of.
LEMMA StepKeepsOwnOfOthers ==
    ASSUME TypeOK, WorkInv, LockInv, RowInv, OwnInv, NEW t \in Task, Step(t),
           NEW u \in Task, u # t, pc'[u] \in AtShare, name'[u] \notin tainted'
    PROVE  (OwnRow(u) /\ OwnMount(u))'
<1>1. /\ UNCHANGED key /\ pc[t] \in Working /\ name'[u] = name[u] /\ ShareOf(u)' = ShareOf(u)
      /\ ShareOf(t) \in Task
    BY StepMoves, StepFrame, StepRows DEF ShareOf, Adds
<1>2. pc[u] \in AtShare /\ pc'[u] = pc[u]
    BY StepOthers DEF First, AtShare, Removing, Undoing, Releasing, Adding, Unreserved
<1>3. name[u] \notin tainted /\ OwnRow(u) /\ OwnMount(u)
    BY <1>1, <1>2, StepFrame DEF OwnInv
<1>4. /\ name[u] \in Name /\ name[u] # 0 /\ ShareOf(u) \in Task
      /\ key[u] \notin Source => key[u] \in Task
    BY <1>2, SharingAssumption
       DEF WorkInv, WorkOf, AtShare, Name, SharingAssumption, ShareOf, Adds, Key,
           Removing, Undoing, Working
<1>5. ~(pc[t] \in AtShare /\ name[t] = name[u])
    BY <1>2, <1>3, Alone
<1>6. row'[ShareOf(u)] = name[u]
    <2>1. CASE row' = row
        BY <1>3, <2>1 DEF OwnRow
    <2>2. CASE pc[t] = "reserving" /\ row' = [row EXCEPT ![t] = name[t]]
        <3>1. row[t] = 0
            BY <2>2 DEF RowInv, Unreserved
        <3> QED
            BY <1>3, <1>4, <2>2, <3>1 DEF OwnRow, TypeOK
    <2>3. CASE pc[t] = "deleting" /\ row' = [row EXCEPT ![ShareOf(t)] = 0]
        <3>1. pc[t] \in AtShare
            BY <2>3 DEF AtShare, Removing, Undoing
        <3>2. row[ShareOf(t)] \in {0, name[t]}
            BY <3>1 DEF RowInv
        <3>3. ShareOf(u) # ShareOf(t)
            BY <1>3, <1>4, <1>5, <3>1, <3>2 DEF OwnRow
        <3> QED
            BY <1>1, <1>3, <1>4, <2>3, <3>3 DEF OwnRow, TypeOK
    <2> QED
        BY <2>1, <2>2, <2>3, StepRows
<1>7. key[u] \notin Source => pc'[key[u]] \in Outcome
    BY <1>1, <1>3, <1>4, StepOthers DEF OwnRow, Outcome, Working, Adding, Releasing
<1>8. mount'[name[u]] = mount[name[u]]
    <2>1. Mount(t) \/ Unmount(t) => pc[t] \in AtShare
        BY DEF Mount, Unmount, AtShare, Removing, Undoing, Releasing, Adding, Unreserved
    <2> QED
        BY <1>4, <1>5, <2>1, StepFrame
<1> QED
    BY <1>1, <1>2, <1>3, <1>6, <1>7, <1>8 DEF OwnRow, OwnMount

\* A request that goes on with a share makes certain of what it needs next.
LEMMA StepKeepsOwnMount ==
    ASSUME TypeOK, WorkInv, LockInv, NEW t \in Task, Step(t),
           pc[t] \in AtShare, pc'[t] \in AtShare, name[t] \notin tainted', OwnMount(t)
    PROVE  OwnMount(t)'
<1>1. UNCHANGED key /\ name' = name /\ name[t] \in Name
    <2>1. ~Read(t) /\ ~Reserve(t)
        BY DEF Read, Reserve, AtShare, Removing, Undoing, Releasing, Adding, Unreserved
    <2> QED
        BY <2>1, StepMoves, StepFrame DEF WorkInv, WorkOf, AtShare
<1>2. ASSUME NEW p, Goto(t, p)
      PROVE  pc'[t] = p
    BY <1>2 DEF Goto, TypeOK
<1>3. ASSUME NEW o \in Outcome, End(t, o)
      PROVE  FALSE
    <2>1. pc'[t] \in Outcome
        BY <1>3, StepMoves, EndWakes
    <2> QED
        BY <2>1 DEF Outcome, AtShare, Removing, Undoing, Releasing, Adding
<1>4. {"rejected", "shared", "removed"} \subseteq Outcome
    BY DEF Outcome
<1>5. Taint(name[t]) => name[t] \in tainted'
    BY DEF Taint
<1>6. CASE Look(t) \/ Reserve(t) \/ Read(t)
    BY <1>6 DEF Look, Reserve, Read, AtShare, Removing, Undoing, Releasing, Adding, Unreserved
<1>7. CASE MakeDir(t) \/ Probe(t) \/ StepFails(t)
    BY <1>1, <1>2, <1>7 DEF MakeDir, Probe, StepFails, Mounted, OwnMount, host
<1>8. CASE Mount(t)
    <2>1. Append(<<>>, key[t]) = <<key[t]>>
        OBVIOUS
    <2> QED
        BY <1>1, <1>2, <1>8, <2>1 DEF Mount, OwnMount, TypeOK
<1>9. CASE Check(t) \/ Export(t)
    BY <1>1, <1>2, <1>3, <1>4, <1>9 DEF Check, Export, OwnMount, host
<1>10. CASE AskExport(t) \/ AskMount(t) \/ Unexport(t) \/ Unmount(t)
    BY <1>2, <1>10 DEF AskExport, AskMount, Unexport, Unmount, AfterUnexport, OwnMount
<1>11. CASE UnexportFails(t) \/ UnmountFails(t) \/ Recheck(t)
    BY <1>1, <1>2, <1>5, <1>11
       DEF UnexportFails, UnmountFails, Recheck, Throws, Mounted, OwnMount, host
<1>12. CASE Wipe(t) \/ WipeFails(t)
    BY <1>1, <1>2, <1>5, <1>12 DEF Wipe, WipeFails, Throws, Mounted, OwnMount, host
<1>13. CASE Verify(t) \/ Delete(t) \/ QueryFails(t)
    BY <1>1, <1>2, <1>3, <1>4, <1>13 DEF Verify, Delete, QueryFails, Mounted, OwnMount, host
<1>14. CASE MountProbeMisled(t) \/ ExportProbeMisled(t)
    BY <1>1, <1>2, <1>5, <1>14 DEF MountProbeMisled, ExportProbeMisled, OwnMount, host
<1> QED
    BY <1>6, <1>7, <1>8, <1>9, <1>10, <1>11, <1>12, <1>13, <1>14 DEF Step

\* What the request that takes the step is certain of afterwards.
LEMMA StepKeepsOwn ==
    ASSUME TypeOK, WorkInv, LockInv, RowInv, ShareInv, NEW t \in Task, Step(t),
           pc'[t] \in AtShare, name'[t] \notin tainted'
    PROVE  (OwnRow(t) /\ OwnMount(t))'
<1>1. /\ UNCHANGED key /\ pc[t] \in Working /\ ShareOf(t)' = ShareOf(t) /\ ShareOf(t) \in Task
      /\ tainted \subseteq tainted'
    BY StepMoves, StepFrame, StepRows DEF ShareOf, Adds
<1>2. CASE pc[t] \in AtShare
    <2>1. name' = name
        BY <1>2, StepFrame
           DEF Read, Reserve, AtShare, Removing, Undoing, Releasing, Adding, Unreserved
    <2>2. OwnRow(t) /\ OwnMount(t)
        BY <1>1, <1>2, <2>1 DEF ShareInv, OwnInv
    <2>3. row' = row
        BY <1>2, StepRows DEF AtShare, Removing, Undoing, Releasing, Adding, Unreserved, Outcome
    <2>4. key[t] \notin Source => pc'[key[t]] \in Outcome
        <3>1. key[t] \notin Source => key[t] \in Task /\ key[t] # t
            BY <1>1, <2>2 DEF OwnRow, WorkInv, WorkOf, Key, Outcome, Working, Adding, Releasing
        <3> QED
            BY <2>2, <3>1, StepOthers DEF OwnRow, Outcome
    <2>5. OwnMount(t)'
        BY <1>2, <2>1, <2>2, StepKeepsOwnMount
    <2> QED
        BY <1>1, <2>1, <2>2, <2>3, <2>4, <2>5 DEF OwnRow
<1>3. CASE Reserve(t) /\ row' # row
    <2>1. /\ pc[t] = "reserving" /\ pc'[t] = "making" /\ key[t] \in Source /\ ShareOf(t) = t
          /\ name' = name /\ ~NameTaken(name[t]) /\ row' = [row EXCEPT ![t] = name[t]]
        BY <1>3, StepRows DEF Reserve, Delete
    <2>2. OwnRow(t)'
        BY <1>1, <2>1 DEF OwnRow, TypeOK
    <2>3. name[t] \in Name /\ name[t] \notin tainted
        BY <1>1, <2>1 DEF WorkInv, WorkOf, Adding
    <2>4. mount[name[t]] = <<>>
        BY <2>1, <2>3 DEF ShareInv, MountsHaveRows, Mounted, NameTaken
    <2> QED
        BY <1>3, <2>1, <2>2, <2>4 DEF OwnMount, Reserve, host
<1>4. CASE Read(t) /\ row[ShareOf(t)] # 0
    <2>1. pc[t] = "reading" /\ key[t] \in Task /\ ShareOf(t) = key[t]
        BY <1>4, SharingAssumption
           DEF Read, WorkInv, WorkOf, ShareOf, Adds, SharingAssumption
    <2>2. /\ row' = row /\ name'[t] = row[key[t]] /\ pc'[t] = "askExport"
          /\ pc[key[t]] \in Outcome \/ row[key[t]] \in tainted'
        BY <1>4, <2>1 DEF Read, Goto, Taint, TypeOK
    <2>3. pc[key[t]] \in Outcome /\ key[t] # t
        BY <2>1, <2>2 DEF Outcome
    <2>4. pc'[key[t]] \in Outcome
        BY <2>1, <2>3, StepOthers DEF Outcome
    <2> QED
        BY <1>1, <2>1, <2>2, <2>4 DEF OwnRow, OwnMount
<1> QED
    BY <1>2, <1>3, <1>4, StepSelf

\* Mounts keep the rows they had.
LEMMA StepKeepsMounts ==
    ASSUME TypeOK, WorkInv, LockInv, RowInv, ShareInv, NEW t \in Task, Step(t)
    PROVE  MountsHaveRows'
<1> SUFFICES ASSUME NEW n \in Name, n \notin tainted', mount'[n] # <<>>
             PROVE  \E i \in Task : row'[i] = n /\ mount'[n] = <<key'[i]>>
    BY DEF MountsHaveRows, Mounted
<1>1. n \notin tainted /\ UNCHANGED key /\ ShareOf(t) \in Task
    BY StepMoves, StepFrame, StepRows
<1>2. mount[n] # <<>> => \E i \in Task : row[i] = n /\ mount[n] = <<key[i]>>
    BY <1>1 DEF ShareInv, MountsHaveRows, Mounted
<1>3. pc[t] \in AtShare /\ name[t] = n => OwnRow(t) /\ OwnMount(t)
    BY <1>1 DEF ShareInv, OwnInv
<1>4. CASE Mount(t) /\ n = name[t]
    <2>1. /\ pc[t] = "mounting" /\ pc[t] \in AtShare /\ key[t] \in Source
          /\ row' = row
        BY <1>4 DEF Mount, AtShare, Adding, Unreserved, WorkInv, WorkOf
    <2>2. row[t] = n /\ mount[n] = <<>>
        BY <1>3, <1>4, <2>1 DEF OwnRow, OwnMount, ShareOf, Adds
    <2>3. mount'[n] = Append(<<>>, key[t])
        BY <1>4, <2>2 DEF Mount, TypeOK
    <2>4. Append(<<>>, key[t]) = <<key[t]>>
        OBVIOUS
    <2> QED
        BY <1>1, <2>1, <2>2, <2>3, <2>4
<1>5. CASE Unmount(t) /\ n = name[t]
    <2>1. mount' = Uncovered(n)
        BY <1>5 DEF Unmount
    <2>2. mount'[n] = IF mount[n] = <<>> THEN <<>> ELSE SubSeq(mount[n], 1, Len(mount[n]) - 1)
        BY <2>1 DEF Uncovered, TypeOK
    <2>3. PICK i \in Task : mount[n] = <<key[i]>>
        BY <1>2, <2>2
    <2>4. SubSeq(<<key[i]>>, 1, 0) = <<>>
        OBVIOUS
    <2>5. Len(mount[n]) - 1 = 0
        BY <2>3
    <2>6. mount'[n] = <<>>
        BY <2>2, <2>3, <2>4, <2>5
    <2> QED
        BY <2>6
<1>6. CASE n # name[t] \/ ~(Mount(t) \/ Unmount(t))
    <2>1. mount'[n] = mount[n]
        BY <1>6, StepFrame
    <2>2. PICK i \in Task : row[i] = n /\ mount[n] = <<key[i]>>
        BY <1>2, <2>1
    <2>3. n # 0
        BY SharingAssumption DEF Name, SharingAssumption
    <2>4. row'[i] = row[i]
        <3>1. CASE row' = row
            BY <3>1
        <3>2. CASE pc[t] = "reserving" /\ row' = [row EXCEPT ![t] = name[t]]
            <4>1. row[t] = 0
                BY <3>2 DEF RowInv, Unreserved
            <4> QED
                BY <2>2, <2>3, <3>2, <4>1 DEF TypeOK
        <3>3. CASE pc[t] = "deleting" /\ row' = [row EXCEPT ![ShareOf(t)] = 0]
            <4>1. pc[t] \in AtShare
                BY <3>3 DEF AtShare, Removing, Undoing
            <4>2. row[ShareOf(t)] \in {0, name[t]}
                BY <4>1 DEF RowInv
            <4>3. i # ShareOf(t)
                BY <1>3, <2>1, <2>2, <2>3, <3>3, <4>1, <4>2 DEF OwnMount
            <4> QED
                BY <3>3, <4>3 DEF TypeOK
        <3> QED
            BY <3>1, <3>2, <3>3, StepRows
    <2> QED
        BY <1>1, <2>1, <2>2, <2>4
<1> QED
    BY <1>4, <1>5, <1>6

\* A step of a request keeps all of the invariant.
LEMMA StepKeepsInv ==
    ASSUME Inv, NEW t \in Task, Step(t)
    PROVE  Inv'
<1> USE DEF Inv
<1>1. TypeOK' /\ LockInv' /\ WorkInv' /\ RowInv' /\ SourceFree'
    BY StepKeepsLock, StepKeepsWork, StepKeepsRows, StepKeepsFree
<1>2. OwnInv'
    BY StepKeepsOwn, StepKeepsOwnOfOthers DEF OwnInv, ShareInv
<1>3. MountsHaveRows'
    BY StepKeepsMounts
<1>4. WipedOnlyWhenTainted'
    <2>1. Wipe(t) /\ Mounted(name[t]) => name[t] \in tainted
        BY DEF Wipe, Mounted, ShareInv, OwnInv, OwnMount, AtShare, Removing, Undoing, Releasing
    <2> QED
        BY <2>1, StepFrame DEF ShareInv, WipedOnlyWhenTainted
<1> QED
    BY <1>1, <1>2, <1>3, <1>4 DEF ShareInv

-------------------------------------------------------------------------------
(* Requests that come in, and what goes wrong *)

\* A request that comes in disturbs nobody.
LEMMA AskKeepsInv ==
    ASSUME Inv, NEW t \in Task, pc[t] = "idle", NEW k \in Key, Acquire(t, k),
           UNCHANGED <<seen, row, host, tainted, faults>>,
           name' = [name EXCEPT ![t] = 1] \/ (name' = name /\ k \in Task)
    PROVE  Inv'
<1> USE DEF Inv
<1>1. LockInv' /\ held' \subseteq Key /\ waiters' \in [Key -> Seq(Task)]
    BY AcquireKeepsLock
<1>2. /\ key' = [key EXCEPT ![t] = k]
      /\ pc' = [pc EXCEPT ![t] = "waiting"] \/ pc' = [pc EXCEPT ![t] = First(k)]
    BY AcquireKeepsLock
<1>3. /\ key'[t] = k /\ pc'[t] \in {"waiting", First(k)}
      /\ \A u \in Task \ {t} : key'[u] = key[u] /\ pc'[u] = pc[u] /\ name'[u] = name[u]
    BY <1>2 DEF TypeOK
<1>4. row[t] = 0
    BY DEF RowInv, Unreserved
<1>5. TypeOK'
    <2>1. 1 \in 0..MaxName
        BY SharingAssumption DEF SharingAssumption
    <2>2. First(k) \in Working
        BY DEF First, Working, Adding
    <2> QED
        BY <1>1, <1>2, <2>1, <2>2 DEF TypeOK, seen, host
<1>6. WorkInv'
    <2>1. k \in Source => name'[t] \in Name
        BY SharingAssumption DEF SharingAssumption, Name, TypeOK
    <2>2. WorkOf(t)'
        BY <1>3, <2>1 DEF WorkOf, First, Key, Adding, Removing, Undoing, Releasing, Working
    <2>3. \A u \in Task \ {t} : WorkOf(u)'
        BY <1>3 DEF WorkInv, WorkOf
    <2> QED
        BY <2>2, <2>3 DEF WorkInv, WorkOf
<1>7. ASSUME NEW u \in Task, pc'[u] \in AtShare
      PROVE  /\ u # t /\ pc[u] \in AtShare /\ ShareOf(u)' = ShareOf(u)
             /\ ShareOf(u) \in Task \ {t}
    <2>1. u # t
        BY <1>3, <1>7
           DEF First, AtShare, Removing, Undoing, Releasing, Adding, Unreserved
    <2>2. pc[u] \in AtShare /\ key'[u] = key[u]
        BY <1>3, <1>7, <2>1
    <2>3. ShareOf(u) \in Task
        BY <2>2 DEF ShareOf, Adds, WorkInv, WorkOf, Key, AtShare, Removing, Undoing, Working
    <2>4. ShareOf(u) # t
        BY <2>2 DEF RowInv, Unreserved
    <2> QED
        BY <2>1, <2>2, <2>3, <2>4 DEF ShareOf, Adds
<1>8. RowInv'
    <2>1. \A u \in Task : row'[u] # 0 => key'[u] \in Source /\ pc'[u] \notin Unreserved
        BY <1>3, <1>4 DEF RowInv
    <2>2. ASSUME NEW u \in Task, pc'[u] \in AtShare
          PROVE  row'[ShareOf(u)'] \in {0, name'[u]} /\ pc'[ShareOf(u)'] \notin Unreserved
        BY <1>3, <1>7, <2>2 DEF RowInv
    <2> QED
        BY <2>1, <2>2 DEF RowInv
<1>9. SourceFree'
    <2>1. ASSUME NEW u \in Task, pc'[u] = "reserving" PROVE u # t /\ ~SourceTaken(u)
        BY <1>3, <2>1 DEF First, SourceFree
    <2> QED
        BY <1>3, <1>4, <2>1 DEF SourceFree, SourceTaken
<1>10. OwnInv'
    <2> SUFFICES ASSUME NEW u \in Task, pc'[u] \in AtShare, name'[u] \notin tainted'
                 PROVE  (OwnRow(u) /\ OwnMount(u))'
        BY DEF OwnInv
    <2>1. OwnRow(u) /\ OwnMount(u)
        BY <1>3, <1>7 DEF ShareInv, OwnInv
    <2>2. key[u] \notin Source => pc'[key[u]] \in Outcome
        BY <1>3, <1>7, <2>1 DEF OwnRow, ShareOf, Adds
    <2> QED
        BY <1>3, <1>7, <2>1, <2>2 DEF OwnRow, OwnMount, host
<1>11. MountsHaveRows' /\ WipedOnlyWhenTainted'
    <2>1. 0 \notin Name
        BY DEF Name
    <2> QED
        BY <1>3, <1>4, <2>1 DEF ShareInv, MountsHaveRows, WipedOnlyWhenTainted, Mounted, host
<1> QED
    BY <1>1, <1>5, <1>6, <1>8, <1>9, <1>10, <1>11 DEF ShareInv

\* A mount that is taken away while nobody adds a share of that name was the only one.
LEMMA DetachKeepsInv ==
    ASSUME Inv, NEW n \in Name, Detach(n)
    PROVE  Inv'
<1> USE DEF Inv
<1>1. /\ UNCHANGED <<held, waiters, pc, key, name, sawExport, sawMount, row, exported, dirs, wiped>>
      /\ mount' = Uncovered(n) /\ tainted \subseteq tainted' /\ tainted' \subseteq tainted \cup {n}
    BY DEF Detach, locks, seen, Taint
<1>2. /\ \A m \in Name \ {n} : mount'[m] = mount[m]
      /\ mount'[n] = IF mount[n] = <<>> THEN <<>> ELSE SubSeq(mount[n], 1, Len(mount[n]) - 1)
    BY <1>1 DEF Uncovered, TypeOK
<1>3. TypeOK'
    <2>1. faults' \in 0..MaxFaults
        BY SharingAssumption DEF Detach, Fault, TypeOK, SharingAssumption
    <2>2. mount' \in [Name -> Seq(Source)]
        BY <1>1, UncoveredType DEF TypeOK, DataOK
    <2> QED
        BY <1>1, <2>1, <2>2 DEF TypeOK
<1>4. WorkInv' /\ LockInv'
    BY <1>1 DEF WorkInv, WorkOf, LockInv, OneHolder, QueueInv
<1>5. RowInv' /\ SourceFree'
    BY <1>1 DEF RowInv, ShareOf, Adds, SourceFree, SourceTaken
<1>6. OwnInv'
    <2> SUFFICES ASSUME NEW u \in Task, pc[u] \in AtShare, name[u] \notin tainted'
                 PROVE  (OwnRow(u) /\ OwnMount(u))'
        BY <1>1 DEF OwnInv
    <2>1. OwnRow(u) /\ OwnMount(u) /\ name[u] \in Name
        BY <1>1 DEF ShareInv, OwnInv, WorkInv, WorkOf, AtShare
    <2>2. OwnRow(u)'
        BY <1>1, <2>1 DEF OwnRow, ShareOf, Adds
    <2>3. CASE name[u] # n
        BY <1>1, <1>2, <2>1, <2>2, <2>3 DEF OwnMount
    <2>4. CASE name[u] = n
        <3>1. pc[u] \notin Adding
            BY <2>4 DEF Detach, Taint
        <3> QED
            BY <1>1, <1>2, <2>1, <2>2, <2>4, <3>1 DEF OwnMount, Adding
    <2> QED
        BY <2>3, <2>4
<1>7. MountsHaveRows'
    <2> SUFFICES ASSUME NEW m \in Name, m \notin tainted', mount'[m] # <<>>
                 PROVE  \E i \in Task : row[i] = m /\ mount'[m] = <<key[i]>>
        BY <1>1 DEF MountsHaveRows, Mounted
    <2>1. mount[m] # <<>> => \E i \in Task : row[i] = m /\ mount[m] = <<key[i]>>
        BY <1>1 DEF ShareInv, MountsHaveRows, Mounted
    <2>2. CASE m # n
        BY <1>2, <2>1, <2>2
    <2>3. CASE m = n
        <3>1. PICK i \in Task : mount[n] = <<key[i]>>
            BY <1>2, <2>1, <2>3
        <3>2. SubSeq(<<key[i]>>, 1, 0) = <<>> /\ Len(<<key[i]>>) - 1 = 0
            OBVIOUS
        <3> QED
            BY <1>2, <2>3, <3>1, <3>2
    <2> QED
        BY <2>2, <2>3
<1>8. WipedOnlyWhenTainted'
    BY <1>1 DEF ShareInv, WipedOnlyWhenTainted
<1> QED
    BY <1>3, <1>4, <1>5, <1>6, <1>7, <1>8 DEF ShareInv

\* A restart leaves no request at work.
LEMMA RestartKeepsInv ==
    ASSUME Inv, Restart
    PROVE  Inv'
<1> USE DEF Inv
<1>1. /\ UNCHANGED <<key, name, sawExport, sawMount, row, mount, exported, dirs, wiped, tainted>>
      /\ held' = {} /\ waiters' = [k \in Key |-> <<>>]
    BY DEF Restart, seen, host
<1>2. \A u \in Task : /\ pc'[u] \in {"idle"} \cup Outcome
                      /\ pc'[u] # pc[u] => pc'[u] = "lost"
    BY DEF Restart, TypeOK, Outcome
<1>3. \A u \in Task : pc'[u] \notin Working \cup Adding \cup AtShare \cup {"waiting"}
    BY <1>2 DEF Outcome, Working, AtShare, Removing, Undoing, Releasing, Adding
<1>4. TypeOK'
    <2>1. faults' \in 0..MaxFaults
        BY SharingAssumption DEF Restart, Fault, TypeOK, SharingAssumption
    <2>2. pc' \in [Task -> {"idle", "waiting"} \cup Working \cup Outcome]
        BY DEF Restart, TypeOK, Outcome
    <2> QED
        BY <1>1, <2>1, <2>2 DEF TypeOK
<1>5. WorkInv' /\ LockInv'
    <2>1. WorkInv'
        BY <1>3 DEF WorkInv, WorkOf, Working, AtShare, Removing, Adding, Undoing, Releasing, Unreserved
    <2>2. QueueInv'
        BY <1>1 DEF QueueInv
    <2> QED
        BY <1>3, <2>1, <2>2 DEF LockInv, OneHolder
<1>6. RowInv' /\ SourceFree'
    <2>1. \A u \in Task : row'[u] # 0 => key'[u] \in Source /\ pc'[u] \notin Unreserved
        BY <1>1, <1>2 DEF RowInv, Unreserved
    <2>2. \A u \in Task : pc'[u] # "reserving"
        BY <1>2 DEF Outcome
    <2> QED
        BY <1>1, <1>3, <2>1, <2>2 DEF RowInv, SourceFree
<1>7. ShareInv'
    BY <1>1, <1>3 DEF ShareInv, OwnInv, MountsHaveRows, Mounted, WipedOnlyWhenTainted
<1> QED
    BY <1>4, <1>5, <1>6, <1>7

-------------------------------------------------------------------------------
(* The theorems *)

\* Before the first request everything is empty.
LEMMA InvInit == Init => Inv
<1> SUFFICES ASSUME Init PROVE Inv
    OBVIOUS
<1>1. TypeOK
    BY SharingAssumption DEF Init, TypeOK, SharingAssumption
<1>2. \A t \in Task : pc[t] \notin Working \cup Adding \cup AtShare \cup {"waiting"}
    BY DEF Init, Working, AtShare, Removing, Undoing, Releasing, Adding
<1>3. WorkInv /\ LockInv
    <2>1. WorkInv
        BY <1>2 DEF WorkInv, WorkOf, Working, AtShare, Removing, Adding, Undoing, Releasing, Unreserved
    <2>2. QueueInv
        BY DEF Init, QueueInv
    <2> QED
        BY <1>2, <2>1, <2>2 DEF LockInv, OneHolder
<1>4. RowInv /\ SourceFree
    BY <1>2 DEF Init, RowInv, SourceFree
<1>5. ShareInv
    BY <1>2 DEF Init, ShareInv, OwnInv, MountsHaveRows, Mounted, WipedOnlyWhenTainted
<1> QED
    BY <1>1, <1>3, <1>4, <1>5 DEF Inv

\* Every action keeps the invariant.
LEMMA InvNext == Inv /\ [Next]_vars => Inv'
<1> SUFFICES ASSUME Inv, [Next]_vars PROVE Inv'
    OBVIOUS
<1>1. ASSUME NEW t \in Task, Step(t) PROVE Inv'
    BY <1>1, StepKeepsInv
<1>2. ASSUME NEW t \in Task, NEW s \in Source, AskAdd(t, s) PROVE Inv'
    BY <1>2, AskKeepsInv DEF AskAdd, Key
<1>3. ASSUME NEW t \in Task, NEW i \in Task, AskRemove(t, i) PROVE Inv'
    BY <1>3, AskKeepsInv DEF AskRemove, Key
<1>4. ASSUME NEW n \in Name, Detach(n) PROVE Inv'
    BY <1>4, DetachKeepsInv
<1>5. CASE Restart
    BY <1>5, RestartKeepsInv
<1>6. CASE UNCHANGED vars
    BY <1>6 DEF vars, locks, host, seen, Inv, TypeOK, WorkInv, WorkOf, LockInv, OneHolder, QueueInv,
           RowInv, ShareOf, Adds, SourceFree, SourceTaken, ShareInv, OwnInv, OwnRow, OwnMount,
           MountsHaveRows, Mounted, WipedOnlyWhenTainted
<1> QED
    BY <1>1, <1>2, <1>3, <1>4, <1>5, <1>6 DEF Next

\* The inductive invariant holds of every behaviour.
THEOREM SharingInvariant == Spec => []Inv
BY InvInit, InvNext, PTL DEF Spec

\* Every variable keeps its type, whatever fails and whenever the server restarts.
THEOREM SharingTypeCorrect == Spec => []TypeOK
<1>1. Inv => TypeOK
    BY DEF Inv
<1> QED
    BY <1>1, SharingInvariant, PTL

\* withOperationLock: no two requests are at work under one key.
THEOREM LockHasOneHolder == Spec => []OneHolder
<1>1. Inv => OneHolder
    BY DEF Inv, LockInv
<1> QED
    BY <1>1, SharingInvariant, PTL

\* addLocalFolderShare: a folder found unshared stays so until its row is inserted.
THEOREM FolderStaysFree == Spec => []SourceFree
<1>1. Inv => SourceFree
    BY DEF Inv
<1> QED
    BY <1>1, SharingInvariant, PTL

\* What is mounted under a name is the folder of the row of that name, as long as
\* no removal overlapped the addition and nothing misled a probe.
THEOREM MountsKeepTheirRows == Spec => []MountsHaveRows
<1>1. Inv => MountsHaveRows
    BY DEF Inv, ShareInv
<1> QED
    BY <1>1, SharingInvariant, PTL

\* releaseShareExport: a shared folder is emptied only under such a name.
THEOREM FoldersAreNotEmptied == Spec => []WipedOnlyWhenTainted
<1>1. Inv => WipedOnlyWhenTainted
    BY DEF Inv, ShareInv
<1> QED
    BY <1>1, SharingInvariant, PTL

\* Only Check and Export answer an addition with a share.
LEMMA SharedBy ==
    ASSUME TypeOK, WorkInv, LockInv, NEW t \in Task, Step(t), pc'[t] = "shared"
    PROVE  /\ pc[t] \in {"checking", "exporting"}
           /\ name[t] \in exported'
<1>1. ASSUME NEW o \in Outcome, End(t, o) PROVE pc'[t] = o
    BY <1>1, StepMoves, EndWakes
<1>2. ASSUME NEW p, Goto(t, p) PROVE pc'[t] = p
    BY <1>2 DEF Goto, TypeOK
<1>3. {"rejected", "shared", "removed"} \subseteq Outcome
    BY DEF Outcome
<1>4. CASE Look(t) \/ Reserve(t) \/ MakeDir(t) \/ Probe(t) \/ Mount(t) \/ StepFails(t)
    BY <1>1, <1>2, <1>3, <1>4 DEF Look, Reserve, MakeDir, Probe, Mount, StepFails
<1>5. CASE Check(t) \/ Export(t)
    BY <1>1, <1>2, <1>3, <1>5 DEF Check, Export, host
<1>6. CASE Read(t) \/ AskExport(t) \/ AskMount(t) \/ Unexport(t) \/ UnexportFails(t)
    BY <1>1, <1>2, <1>3, <1>6
       DEF Read, AskExport, AskMount, Unexport, UnexportFails, AfterUnexport, Throws
<1>7. CASE Unmount(t) \/ UnmountFails(t) \/ Recheck(t) \/ Wipe(t) \/ WipeFails(t)
    BY <1>2, <1>7 DEF Unmount, UnmountFails, Recheck, Wipe, WipeFails, Throws
<1>8. CASE Verify(t) \/ Delete(t) \/ QueryFails(t)
    BY <1>1, <1>2, <1>3, <1>8 DEF Verify, Delete, QueryFails
<1>9. CASE MountProbeMisled(t) \/ ExportProbeMisled(t)
    BY <1>2, <1>9 DEF MountProbeMisled, ExportProbeMisled
<1> QED
    BY <1>4, <1>5, <1>6, <1>7, <1>8, <1>9 DEF Step

\* addLocalFolderShare: an addition that answers has its row, and its own folder is
\* mounted and exported under the name it answers with.
THEOREM AdditionsShareTheirFolder == Spec => SharedAsAsked
<1> DEFINE P == \A t \in Task : pc[t] # "shared" /\ pc'[t] = "shared" =>
                   \/ name[t] \in tainted
                   \/ row[t] = name[t] /\ mount[name[t]] = <<key[t]>> /\ name[t] \in exported'
<1>1. Inv /\ [Next]_vars => [P]_vars
    <2> SUFFICES ASSUME Inv, Next, NEW t \in Task, pc[t] # "shared", pc'[t] = "shared",
                        name[t] \notin tainted
                 PROVE  row[t] = name[t] /\ mount[name[t]] = <<key[t]>> /\ name[t] \in exported'
        OBVIOUS
    <2> USE DEF Inv
    <2>1. ASSUME NEW u \in Task, Step(u) PROVE Step(t)
        BY <2>1, StepOthers DEF First
    <2>2. ASSUME NEW u \in Task, NEW k \in Key, pc[u] = "idle", Acquire(u, k) PROVE FALSE
        <3>1. pc' = [pc EXCEPT ![u] = "waiting"] \/ pc' = [pc EXCEPT ![u] = First(k)]
            BY <2>2, AcquireKeepsLock
        <3> QED
            BY <3>1 DEF First, TypeOK
    <2>3. ~Restart
        BY DEF Restart, TypeOK
    <2>4. \A n \in Name : ~Detach(n)
        BY DEF Detach
    <2>5. Step(t)
        BY <2>1, <2>2, <2>3, <2>4 DEF Next, AskAdd, AskRemove, Key
    <2>6. pc[t] \in {"checking", "exporting"} /\ name[t] \in exported'
        BY <2>5, SharedBy
    <2>7. pc[t] \in AtShare /\ key[t] \in Source
        BY <2>6 DEF AtShare, Adding, Unreserved, WorkInv, WorkOf
    <2> QED
        BY <2>6, <2>7 DEF ShareInv, OwnInv, OwnRow, OwnMount, ShareOf, Adds
<1>2. [][P]_vars <=> SharedAsAsked
    BY DEF SharedAsAsked
<1> QED
    BY <1>1, <1>2, SharingInvariant, PTL DEF Spec

-------------------------------------------------------------------------------
(* The safety behind EveryRequestEnds *)

\* A lock that is held has a holder, who is at work and not itself waiting for another lock;
\* and whoever waits stands in the queue of a lock that is held.
NobodyForgotten ==
    /\ \A k \in held : \E t \in Task : pc[t] \in Working /\ key[t] = k
    /\ \A t \in Task : pc[t] = "waiting" =>
           key[t] \in held /\ \E i \in 1..Len(waiters[key[t]]) : waiters[key[t]][i] = t

LEMMA EndForgetsNobody ==
    ASSUME TypeOK, WorkInv, LockInv, NobodyForgotten, NEW t \in Task, pc[t] \in Working,
           NEW o \in Outcome, End(t, o), UNCHANGED key
    PROVE  NobodyForgotten'
<1> DEFINE k == key[t]
           ws == waiters[k]
<1>1. k \in Key /\ ws \in Seq(Task) /\ k \in held
    BY DEF WorkInv, WorkOf, TypeOK, LockInv
<1>2. o \notin Working /\ o # "waiting" /\ "waiting" \notin Working
    BY DEF Outcome, Working, Adding, Releasing
<1>3. \A u \in Task \ {t} : pc[u] \in Working => key[u] # k
    BY DEF LockInv, OneHolder
<1>4. \A u \in Task : pc[u] = "waiting" => key[u] \in Key
    BY DEF WorkInv, WorkOf
<1>5. CASE ws = <<>>
    <2>1. held' = held \ {k} /\ waiters' = waiters /\ pc' = [pc EXCEPT ![t] = o]
        BY <1>5 DEF End
    <2>2. pc'[t] = o /\ \A u \in Task \ {t} : pc'[u] = pc[u]
        BY <2>1 DEF TypeOK
    <2>3. \A u \in Task : pc[u] = "waiting" => key[u] # k
        BY <1>5 DEF NobodyForgotten
    <2>4. ASSUME NEW q \in held' PROVE \E u \in Task : pc'[u] \in Working /\ key'[u] = q
        <3>1. PICK u \in Task : pc[u] \in Working /\ key[u] = q
            BY <2>1, <2>4 DEF NobodyForgotten
        <3>2. u # t
            BY <3>1, <2>1
        <3> QED
            BY <3>1, <3>2, <2>2
    <2>5. ASSUME NEW u \in Task, pc'[u] = "waiting"
          PROVE  key'[u] \in held' /\ \E i \in 1..Len(waiters'[key'[u]]) : waiters'[key'[u]][i] = u
        BY <2>1, <2>2, <2>3, <2>5, <1>2 DEF NobodyForgotten
    <2> QED
        BY <2>4, <2>5 DEF NobodyForgotten
<1>6. CASE ws # <<>>
    <2> DEFINE h == Head(ws)
    <2>1. /\ h \in Task /\ Len(ws) \in Nat \ {0} /\ h = ws[1]
          /\ Tail(ws) \in Seq(Task) /\ Len(Tail(ws)) = Len(ws) - 1
          /\ \A i \in 1..Len(Tail(ws)) : Tail(ws)[i] = ws[i + 1]
        BY <1>1, <1>6, HeadTailProperties, EmptySeq
    <2>2. pc[h] = "waiting" /\ key[h] = k /\ h # t
        BY <1>1, <1>2, <2>1 DEF LockInv, QueueInv
    <2>3. /\ held' = held
          /\ waiters' = [waiters EXCEPT ![k] = Tail(ws)]
          /\ pc' = [pc EXCEPT ![t] = o, ![h] = First(k)]
        BY <1>6 DEF End
    <2>4. /\ pc'[t] = o /\ pc'[h] = First(k) /\ First(k) \in Working
          /\ \A u \in Task \ {t, h} : pc'[u] = pc[u]
        BY <2>1, <2>2, <2>3 DEF TypeOK, First, Working, Adding, Releasing
    <2>5. ASSUME NEW q \in held' PROVE \E u \in Task : pc'[u] \in Working /\ key'[u] = q
        <3>1. CASE q = k
            BY <3>1, <2>1, <2>2, <2>4
        <3>2. CASE q # k
            <4>1. PICK u \in Task : pc[u] \in Working /\ key[u] = q
                BY <2>3, <2>5 DEF NobodyForgotten
            <4>2. u \notin {t, h}
                BY <4>1, <3>2, <2>2
            <4> QED
                BY <4>1, <4>2, <2>4
        <3> QED
            BY <3>1, <3>2
    <2>6. ASSUME NEW u \in Task, pc'[u] = "waiting"
          PROVE  key'[u] \in held' /\ \E i \in 1..Len(waiters'[key'[u]]) : waiters'[key'[u]][i] = u
        <3>1. u \notin {t, h} /\ pc[u] = "waiting"
            BY <2>4, <2>6, <1>2
        <3>2. /\ key[u] \in held
              /\ \E i \in 1..Len(waiters[key[u]]) : waiters[key[u]][i] = u
            BY <3>1 DEF NobodyForgotten
        <3>3. CASE key[u] # k
            <4>1. waiters'[key[u]] = waiters[key[u]]
                BY <3>3, <2>3, <1>4, <3>1 DEF TypeOK
            <4> QED
                BY <4>1, <3>2, <2>3
        <3>4. CASE key[u] = k
            <4>1. PICK i \in 1..Len(ws) : ws[i] = u
                BY <3>2, <3>4
            <4>2. i # 1 /\ i \in Int
                BY <4>1, <3>1, <2>1
            <4>3. i - 1 \in 1..Len(Tail(ws)) /\ Tail(ws)[i - 1] = u
                <5>1. i - 1 \in 1..Len(Tail(ws)) /\ (i - 1) + 1 = i
                    BY <4>2, <2>1
                <5> QED
                    BY <5>1, <4>1, <2>1
            <4>4. waiters'[k] = Tail(ws)
                BY <2>3, <1>1 DEF TypeOK
            <4> QED
                BY <4>3, <4>4, <3>2, <3>4, <2>3
        <3> QED
            BY <3>3, <3>4
    <2> QED
        BY <2>5, <2>6 DEF NobodyForgotten
<1> QED
    BY <1>5, <1>6

LEMMA AcquireForgetsNobody ==
    ASSUME TypeOK, LockInv, WorkInv, NobodyForgotten, NEW t \in Task, pc[t] = "idle", NEW k \in Key,
           Acquire(t, k)
    PROVE  NobodyForgotten'
<1>1. /\ "idle" \notin Working /\ "waiting" \notin Working
      /\ First(k) \in Working /\ First(k) # "waiting"
    BY DEF Working, Adding, Releasing, First
<1>2. key'[t] = k /\ \A u \in Task \ {t} : key'[u] = key[u]
    BY DEF Acquire, TypeOK
<1>3. held' = held \cup {k} /\ \A u \in Task \ {t} : pc'[u] = pc[u]
    BY DEF Acquire, TypeOK
<1>4. pc'[t] = IF k \in held THEN "waiting" ELSE First(k)
    BY DEF Acquire, TypeOK
<1>5. /\ waiters[k] \in Seq(Task)
      /\ Len(waiters[k]) \in Nat /\ Len(Append(waiters[k], t)) = Len(waiters[k]) + 1
      /\ Append(waiters[k], t)[Len(waiters[k]) + 1] = t
      /\ \A i \in 1..Len(waiters[k]) : Append(waiters[k], t)[i] = waiters[k][i]
    BY AppendProperties DEF TypeOK
<1>6. /\ \A q \in Key \ {k} : waiters'[q] = waiters[q]
      /\ waiters'[k] = IF k \in held THEN Append(waiters[k], t) ELSE waiters[k]
    BY DEF Acquire, TypeOK
<1>7. ASSUME NEW q \in held' PROVE \E u \in Task : pc'[u] \in Working /\ key'[u] = q
    <2>1. CASE q \in held
        <3>1. PICK u \in Task : pc[u] \in Working /\ key[u] = q
            BY <2>1 DEF NobodyForgotten
        <3>2. u # t
            BY <3>1, <1>1
        <3> QED
            BY <3>1, <3>2, <1>2, <1>3
    <2>2. CASE q \notin held
        BY <2>2, <1>1, <1>2, <1>3, <1>4, <1>7
    <2> QED
        BY <2>1, <2>2
<1>8. ASSUME NEW u \in Task, pc'[u] = "waiting"
      PROVE  key'[u] \in held' /\ \E i \in 1..Len(waiters'[key'[u]]) : waiters'[key'[u]][i] = u
    <2>1. CASE u = t
        <3>1. k \in held
            BY <2>1, <1>8, <1>1, <1>4
        <3>2. Len(waiters[k]) + 1 \in 1..Len(Append(waiters[k], t))
            BY <1>5
        <3> QED
            BY <2>1, <3>1, <3>2, <1>2, <1>3, <1>5, <1>6
    <2>2. CASE u # t
        <3>1. pc[u] = "waiting" /\ key'[u] = key[u]
            BY <2>2, <1>2, <1>3, <1>8
        <3>2. key[u] \in held /\ key[u] \in Key
            BY <3>1 DEF NobodyForgotten, WorkInv, WorkOf
        <3>3. PICK i \in 1..Len(waiters[key[u]]) : waiters[key[u]][i] = u
            BY <3>1 DEF NobodyForgotten
        <3>4. i \in 1..Len(waiters'[key[u]]) /\ waiters'[key[u]][i] = u
            <4>1. CASE key[u] = k
                BY <4>1, <3>2, <3>3, <1>5, <1>6
            <4>2. CASE key[u] # k
                BY <4>2, <3>2, <3>3, <1>6
            <4> QED
                BY <4>1, <4>2
        <3> QED
            BY <3>1, <3>2, <3>4, <1>3
    <2> QED
        BY <2>1, <2>2
<1> QED
    BY <1>7, <1>8 DEF NobodyForgotten

LEMMA MoveForgetsNobody ==
    ASSUME TypeOK, NobodyForgotten, NEW t \in Task, pc[t] \in Working, UNCHANGED <<key, locks>>,
           pc' = pc \/ (\E p \in Working : pc' = [pc EXCEPT ![t] = p])
    PROVE  NobodyForgotten'
<1>1. \A u \in Task : pc'[u] = pc[u] \/ (u = t /\ pc'[u] \in Working)
    BY DEF TypeOK
<1>2. "waiting" \notin Working
    BY DEF Working, Adding, Releasing
<1> QED
    BY <1>1, <1>2 DEF NobodyForgotten, locks

\* withOperationLock: no wake-up is lost and no two requests wait for each other. Whoever waits
\* stands in the queue of a lock whose one holder is at work, so that EveryRequestEnds asks no
\* more than that each request with a lock goes on.
THEOREM NobodyIsForgotten == Spec => [](NobodyForgotten /\ QueueInv /\ OneHolder)
<1>1. Init => NobodyForgotten
    BY DEF Init, NobodyForgotten, Outcome
<1>2. Inv /\ NobodyForgotten /\ [Next]_vars => NobodyForgotten'
    <2> SUFFICES ASSUME Inv, NobodyForgotten, [Next]_vars PROVE NobodyForgotten'
        OBVIOUS
    <2> USE DEF Inv
    <2>1. ASSUME NEW t \in Task, Step(t) PROVE NobodyForgotten'
        BY <2>1, StepMoves, EndForgetsNobody, MoveForgetsNobody
    <2>2. ASSUME NEW t \in Task, NEW s \in Source, AskAdd(t, s) PROVE NobodyForgotten'
        BY <2>2, AcquireForgetsNobody DEF AskAdd, Key
    <2>3. ASSUME NEW t \in Task, NEW i \in Task, AskRemove(t, i) PROVE NobodyForgotten'
        BY <2>3, AcquireForgetsNobody DEF AskRemove, Key
    <2>4. ASSUME NEW n \in Name, Detach(n) PROVE NobodyForgotten'
        BY <2>4 DEF Detach, NobodyForgotten, locks
    <2>5. CASE Restart
        <3>1. held' = {} /\ \A t \in Task : pc'[t] # "waiting"
            BY <2>5 DEF Restart, TypeOK
        <3> QED
            BY <3>1 DEF NobodyForgotten
    <2>6. CASE UNCHANGED vars
        BY <2>6 DEF vars, locks, NobodyForgotten
    <2> QED
        BY <2>1, <2>2, <2>3, <2>4, <2>5, <2>6 DEF Next
<1>3. Inv => QueueInv /\ OneHolder
    BY DEF Inv, LockInv
<1> QED
    BY <1>1, <1>2, <1>3, SharingInvariant, PTL DEF Spec
================================================================================
