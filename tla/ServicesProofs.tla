----------------------------- MODULE ServicesProofs -----------------------------
(***************************************************************************)
(* Scheduled tasks, backups, network shares and the second factor, for any *)
(* number of tasks, edits, restores, requests, codes, faults and reboots.  *)
(* The compare-and-swap of the backup codes is safe because every value of *)
(* their column is written once: a login that finds the value it read      *)
(* finds the codes it read, and takes its own out of them.                 *)
(***************************************************************************)
EXTENDS MCServices, FilesProofs, FiniteSetTheorems, SequenceTheorems, TLAPS

-------------------------------------------------------------------------------
(* ScheduledTasks. *)

\* A row whose next run is computed from its own expression, if from any.
Follows(r) == r # Null /\ r.next # Null /\ r.cron \notin Barren => r.next.of = r.cron

\* What a run or an edit has read is still in the row, or the task is counted as astray.
ReadInv(rows, running, editing, lost) ==
    /\ \A r \in running : r.cron # Null /\ rows[r.task] # Null /\ r.task \notin lost
          => r.cron = rows[r.task].cron
    /\ \A e \in editing : ~e.sets /\ rows[e.task] # Null /\ e.task \notin lost
          => e.cron = rows[e.task].cron

\* Nothing is at work on a task that has not been created.
FreshInv(rows, running, editing, new) ==
    \A t \in new :
        /\ rows[t] = Null
        /\ \A r \in running : r.task = t => r.cron = Null
        /\ \A e \in editing : e.task # t

FollowInv(rows, lost) == \A t \in Task \ lost : Follows(rows[t])

TasksInv ==
    /\ TasksTypeOK
    /\ ReadInv(row, runs, edits, astray)
    /\ FreshInv(row, runs, edits, fresh)
    /\ FollowInv(row, astray)

-------------------------------------------------------------------------------
(* Rows and schedules *)

LEMMA RowFields ==
    ASSUME NEW c \in Cron, NEW on \in BOOLEAN, NEW n \in NextRun \cup {Null},
           NEW r, r = [cron |-> c, enabled |-> on, next |-> n]
    PROVE  r \in Row /\ r.cron = c /\ r.enabled = on /\ r.next = n
BY DEF Row

\* What the scheduler writes is a time of the expression, unless there is none.
LEMMA Rescheduling ==
    ASSUME ScheduledTasksAssumption, NEW old \in NextRun \cup {Null}, NEW c \in Cron
    PROVE  /\ NextCronRun(c) \in NextRun \cup {Null}
           /\ Reschedule(old, c) \in NextRun \cup {Null}
           /\ c \notin Barren => NextCronRun(c).of = c /\ Reschedule(old, c).of = c
<1>1. Null \notin NextRun
  BY DEF ScheduledTasksAssumption
<1>2. [of |-> c, come |-> FALSE] \in NextRun /\ [of |-> c, come |-> FALSE].of = c
  BY DEF NextRun
<1>3. QED
  BY <1>1, <1>2 DEF NextCronRun, Reschedule

\* A run or an edit that is there has a task and an expression.
LEMMA Calls ==
    ASSUME TasksTypeOK
    PROVE  /\ \A t \in Task : row[t] # Null =>
                /\ row[t] \in Row /\ row[t].cron \in Cron /\ row[t].enabled \in BOOLEAN
                /\ row[t].next \in NextRun \cup {Null}
           /\ \A r \in runs : r \in Run /\ r.by \in Starter /\ r.task \in Task /\ r.cron \in Cron \cup {Null}
           /\ \A e \in edits : /\ e \in Edit /\ e.task \in Task /\ e.cron \in Cron
                               /\ e.sets \in BOOLEAN /\ e.enabled \in BOOLEAN \cup {Null}
BY DEF TasksTypeOK, Row, Run, Edit

-------------------------------------------------------------------------------

LEMMA TasksInitInv == ScheduledTasksAssumption /\ TasksInit => TasksInv
BY DEF ScheduledTasksAssumption, TasksInit, TasksInv, TasksTypeOK, ReadInv, FreshInv, FollowInv, Follows

LEMMA TimeComesStep ==
    ASSUME ScheduledTasksAssumption, TasksInv, NEW t \in Task, TimeComes(t)
    PROVE  TasksInv'
<1>1. row[t] # Null /\ row[t].next # Null /\ row' = [row EXCEPT ![t].next.come = TRUE]
  BY DEF TimeComes, Exists
<1>2. /\ row[t] \in Row /\ row[t].next \in NextRun
      /\ row \in [Task -> Row \cup {Null}]
  BY <1>1, Calls DEF TasksInv, TasksTypeOK
<1>3. /\ [row[t].next EXCEPT !.come = TRUE] \in NextRun
      /\ [row[t].next EXCEPT !.come = TRUE].of = row[t].next.of
  BY <1>2 DEF NextRun
<1>4. /\ row'[t] = [row[t] EXCEPT !.next = [row[t].next EXCEPT !.come = TRUE]]
      /\ row'[t] \in Row /\ row'[t].cron = row[t].cron
      /\ row'[t].next = [row[t].next EXCEPT !.come = TRUE]
      /\ \A u \in Task \ {t} : row'[u] = row[u]
      /\ row' \in [Task -> Row \cup {Null}]
  BY <1>1, <1>2, <1>3 DEF Row
<1>5. FollowInv(row', astray)
  BY <1>1, <1>2, <1>3, <1>4 DEF FollowInv, Follows, TasksInv
<1>6. ReadInv(row', runs, edits, astray) /\ FreshInv(row', runs, edits, fresh)
  BY <1>1, <1>4, Calls DEF ReadInv, FreshInv, TasksInv, TasksTypeOK
<1>7. QED
  BY <1>4, <1>5, <1>6 DEF TimeComes, TasksInv, TasksTypeOK

LEMMA CreateStep ==
    ASSUME ScheduledTasksAssumption, TasksInv, NEW t \in Task, Create(t)
    PROVE  TasksInv'
<1>1. PICK w \in Wish[t] :
         row' = [row EXCEPT ![t] = [cron |-> w[1], enabled |-> w[2], next |-> NextCronRun(w[1])]]
  BY DEF Create
<1>2. w[1] \in Cron /\ w[2] \in BOOLEAN
  BY DEF ScheduledTasksAssumption
<1> DEFINE new == [cron |-> w[1], enabled |-> w[2], next |-> NextCronRun(w[1])]
<1>3. /\ new \in Row /\ new.cron = w[1] /\ new.next = NextCronRun(w[1])
      /\ w[1] \notin Barren => new.next.of = w[1]
  BY <1>2, Rescheduling, RowFields
<1> HIDE DEF new
<1>4. /\ row' = [row EXCEPT ![t] = new] /\ row \in [Task -> Row \cup {Null}]
      /\ t \in fresh /\ fresh' = fresh \ {t} /\ fresh \subseteq Task
      /\ UNCHANGED <<tick, due, runs, edits, astray, asked, faults>>
  BY <1>1 DEF new, Create, TasksInv, TasksTypeOK
<1>5. TasksTypeOK'
  BY <1>3, <1>4 DEF TasksInv, TasksTypeOK
<1>6. FollowInv(row', astray)
  BY <1>3, <1>4 DEF FollowInv, Follows, TasksInv
<1>7. ReadInv(row', runs, edits, astray) /\ FreshInv(row', runs, edits, fresh')
  BY <1>4, Calls DEF ReadInv, FreshInv, TasksInv
<1>8. QED
  BY <1>4, <1>5, <1>6, <1>7 DEF TasksInv

LEMMA EditReadStep ==
    ASSUME ScheduledTasksAssumption, TasksInv, NEW t \in Task, EditRead(t)
    PROVE  TasksInv'
<1>1. PICK w \in Wish[t], sets \in BOOLEAN, turns \in BOOLEAN :
         edits' = edits \cup {[task |-> t, sets |-> sets, cron |-> IF sets THEN w[1] ELSE row[t].cron,
                               enabled |-> IF turns THEN w[2] ELSE Null]}
  BY DEF EditRead
<1> DEFINE c == IF sets THEN w[1] ELSE row[t].cron
           on == IF turns THEN w[2] ELSE Null
           new == [task |-> t, sets |-> sets, cron |-> c, enabled |-> on]
<1>2. row[t] # Null /\ row[t].cron \in Cron /\ w[1] \in Cron /\ w[2] \in BOOLEAN
  BY Calls DEF EditRead, Exists, ScheduledTasksAssumption, TasksInv
<1>3. c \in Cron /\ on \in BOOLEAN \cup {Null} /\ (~sets => c = row[t].cron)
  BY <1>2
<1>4. edits' = edits \cup {new}
  BY <1>1
<1> HIDE DEF c, on
<1>5. new \in Edit /\ new.task = t /\ new.cron = c /\ (new.sets <=> sets)
  BY <1>3 DEF Edit
<1> HIDE DEF new
<1>6. /\ UNCHANGED <<row, fresh, tick, due, runs, astray, faults>>
      /\ asked' \in 0..MaxAsked
  BY DEF EditRead, AskedAgain, TasksInv, TasksTypeOK, ScheduledTasksAssumption
<1>7. TasksTypeOK'
  BY <1>4, <1>5, <1>6 DEF TasksInv, TasksTypeOK
<1>8. ReadInv(row, runs, edits', astray)
  BY <1>3, <1>4, <1>5 DEF ReadInv, TasksInv
<1>9. FreshInv(row, runs, edits', fresh)
  BY <1>2, <1>4, <1>5 DEF FreshInv, TasksInv
<1>10. QED
  BY <1>6, <1>7, <1>8, <1>9 DEF TasksInv

\* Unless another call has read the row, it is left to agree with what this one read.
LEMMA EditWriteStep ==
    ASSUME ScheduledTasksAssumption, TasksInv, NEW e \in edits, EditWrite(e)
    PROVE  TasksInv'
<1> DEFINE t == e.task
           c == IF e.sets THEN e.cron ELSE row[t].cron
           on == IF e.enabled = Null THEN row[t].enabled ELSE e.enabled
           next == Reschedule(row[t].next, e.cron)
           new == [cron |-> c, enabled |-> on, next |-> next]
<1>1. /\ t \in Task /\ e.cron \in Cron /\ e.sets \in BOOLEAN /\ e.enabled \in BOOLEAN \cup {Null}
      /\ e \in Edit
  BY Calls DEF TasksInv
<1>2. /\ edits' = edits \ {e} /\ UNCHANGED <<fresh, tick, due, runs, asked, faults>>
  BY DEF EditWrite
<1>3. /\ row \in [Task -> Row \cup {Null}] /\ astray \subseteq Task /\ edits \subseteq Edit
  BY DEF TasksInv, TasksTypeOK
<1>4. CASE ~Exists(t)
  <2>1. UNCHANGED <<row, astray>>
    BY <1>4 DEF EditWrite
  <2>2. TasksTypeOK'
    BY <1>2, <2>1 DEF TasksInv, TasksTypeOK
  <2>3. ReadInv(row, runs, edits', astray) /\ FreshInv(row, runs, edits', fresh)
    BY <1>2 DEF TasksInv, ReadInv, FreshInv
  <2>4. QED
    BY <1>2, <2>1, <2>2, <2>3 DEF TasksInv
<1>5. CASE Exists(t)
  <2>1. /\ row[t] # Null /\ row[t].cron \in Cron /\ row[t].enabled \in BOOLEAN
        /\ row[t].next \in NextRun \cup {Null}
    BY <1>1, <1>5, Calls DEF TasksInv, Exists
  <2>2. c \in Cron /\ on \in BOOLEAN /\ next \in NextRun \cup {Null}
    BY <1>1, <2>1, Rescheduling
  <2>3. e.cron \notin Barren => next.of = e.cron
    BY <1>1, <2>1, Rescheduling
  <2>4. /\ row' = [row EXCEPT ![t] = new]
        /\ astray' = IF Outdated(t, e) THEN astray \cup {t}
                      ELSE IF row'[t].cron = e.cron THEN astray \ {t} ELSE astray
    BY <1>5 DEF EditWrite
  <2>5. e.sets => c = e.cron
    OBVIOUS
  <2>6. ~e.sets => c = row[t].cron
    OBVIOUS
  <2> HIDE DEF c, on, next
  <2>7. new \in Row /\ new.cron = c /\ new.next = next
    BY <2>2, RowFields
  <2> HIDE DEF new
  <2>8. /\ row'[t] = new /\ row' \in [Task -> Row \cup {Null}]
        /\ \A u \in Task \ {t} : row'[u] = row[u] /\ (u \in astray' <=> u \in astray)
        /\ astray' \subseteq Task
    BY <1>1, <1>3, <2>4, <2>7
  <2>9. TasksTypeOK'
    BY <1>2, <1>3, <2>8 DEF TasksInv, TasksTypeOK
  <2>10. t \notin fresh
    BY <2>1 DEF TasksInv, FreshInv
  <2>11. FreshInv(row', runs, edits', fresh)
    BY <1>2, <2>8, <2>10 DEF TasksInv, FreshInv, TasksTypeOK
  <2>12. ASSUME t \notin astray' PROVE ~Outdated(t, e) /\ c = e.cron
    <3>1. ~Outdated(t, e)
      BY <2>4, <2>12
    <3>2. CASE c = e.cron
      BY <3>1, <3>2
    <3>3. CASE c # e.cron
      <4>1. t \notin astray /\ ~e.sets
        BY <2>4, <2>5, <2>7, <2>8, <2>12, <3>1, <3>3
      <4>2. QED
        BY <2>1, <2>6, <3>1, <4>1 DEF TasksInv, ReadInv
    <3>4. QED
      BY <3>2, <3>3
  <2>13. FollowInv(row', astray')
    <3>1. ASSUME NEW u \in Task \ astray', u # t PROVE Follows(row'[u])
      BY <2>8, <3>1 DEF TasksInv, FollowInv
    <3>2. ASSUME t \notin astray' PROVE Follows(row'[t])
      BY <2>3, <2>7, <2>8, <2>12, <3>2 DEF Follows
    <3>3. QED
      BY <3>1, <3>2 DEF FollowInv
  <2>14. ReadInv(row', runs, edits', astray')
    <3>1. ASSUME NEW r \in runs, r.cron # Null, row'[r.task] # Null, r.task \notin astray'
          PROVE  r.cron = row'[r.task].cron
      <4>1. r.task # t
        BY <1>1, <2>12, <3>1, Calls DEF Outdated, TasksInv, Run, Edit
      <4>2. r.task \in Task
        BY Calls DEF TasksInv
      <4>3. QED
        BY <2>8, <3>1, <4>1, <4>2 DEF TasksInv, ReadInv
    <3>2. ASSUME NEW d \in edits', ~d.sets, row'[d.task] # Null, d.task \notin astray'
          PROVE  d.cron = row'[d.task].cron
      <4>1. d.task # t
        BY <1>2, <2>12, <3>2 DEF Outdated
      <4>2. d \in edits /\ d.task \in Task
        BY <1>2, Calls DEF TasksInv
      <4>3. QED
        BY <2>8, <3>2, <4>1, <4>2 DEF TasksInv, ReadInv
    <3>3. QED
      BY <3>1, <3>2 DEF ReadInv
  <2>15. QED
    BY <1>2, <2>9, <2>11, <2>13, <2>14 DEF TasksInv
<1>6. QED
  BY <1>4, <1>5
-------------------------------------------------------------------------------

LEMMA StartStep ==
    ASSUME ScheduledTasksAssumption, TasksInv, NEW r \in runs, Start(r)
    PROVE  TasksInv'
<1> DEFINE c == row[r.task].cron
           new == [r EXCEPT !.cron = c]
<1>1. /\ r \in Run /\ r.task \in Task /\ r.by \in Starter /\ runs \subseteq Run
  BY Calls DEF TasksInv, TasksTypeOK
<1>2. UNCHANGED <<row, fresh, tick, due, edits, astray, asked, faults>>
  BY DEF Start
<1>3. CASE ~Exists(r.task)
  <2>1. runs' = runs \ {r}
    BY <1>3 DEF Start
  <2>2. TasksTypeOK'
    BY <1>2, <2>1 DEF TasksInv, TasksTypeOK
  <2>3. QED
    BY <1>2, <2>1, <2>2 DEF TasksInv, ReadInv, FreshInv
<1>4. CASE Exists(r.task)
  <2>1. runs' = (runs \ {r}) \cup {new} /\ row[r.task] # Null
    BY <1>4 DEF Start, Exists
  <2>2. c \in Cron
    BY <1>1, <2>1, Calls DEF TasksInv
  <2>3. c = row[r.task].cron
    OBVIOUS
  <2> HIDE DEF c
  <2>4. new \in Run /\ new.task = r.task /\ new.cron = c
    BY <1>1, <2>2 DEF Run
  <2> HIDE DEF new
  <2>5. TasksTypeOK'
    BY <1>1, <1>2, <2>1, <2>4 DEF TasksInv, TasksTypeOK
  <2>6. r.task \notin fresh
    BY <2>1 DEF TasksInv, FreshInv
  <2>7. ReadInv(row, runs', edits, astray) /\ FreshInv(row, runs', edits, fresh)
    BY <2>1, <2>3, <2>4, <2>6 DEF TasksInv, ReadInv, FreshInv
  <2>8. QED
    BY <1>2, <2>5, <2>7 DEF TasksInv
<1>5. QED
  BY <1>3, <1>4

\* A run whose expression is no longer that of its task writes to one that is astray.
LEMMA FinishStep ==
    ASSUME ScheduledTasksAssumption, TasksInv, NEW r \in runs, Finish(r)
    PROVE  TasksInv'
<1> DEFINE t == r.task
           next == Reschedule(row[t].next, r.cron)
           new == [row[t] EXCEPT !.next = next]
<1>1. /\ t \in Task /\ r.cron # Null /\ r.cron \in Cron
      /\ row \in [Task -> Row \cup {Null}] /\ astray \subseteq Task
  BY Calls DEF Finish, TasksInv, TasksTypeOK
<1>2. /\ runs' = runs \ {r} /\ UNCHANGED <<fresh, tick, due, edits, asked, faults>>
  BY DEF Finish
<1>3. CASE ~Exists(t)
  <2>1. UNCHANGED <<row, astray>>
    BY <1>3 DEF Finish
  <2>2. TasksTypeOK'
    BY <1>2, <2>1 DEF TasksInv, TasksTypeOK
  <2>3. QED
    BY <1>2, <2>1, <2>2 DEF TasksInv, ReadInv, FreshInv
<1>4. CASE Exists(t)
  <2>1. row[t] # Null /\ row[t] \in Row /\ row[t].cron \in Cron /\ row[t].next \in NextRun \cup {Null}
    BY <1>1, <1>4, Calls DEF TasksInv, Exists
  <2>2. next \in NextRun \cup {Null} /\ (r.cron \notin Barren => next.of = r.cron)
    BY <1>1, <2>1, Rescheduling
  <2>3. /\ row' = [row EXCEPT ![t].next = Reschedule(@, r.cron)]
        /\ astray' = IF row[t].cron = r.cron /\ ~Outdated(t, r) THEN astray \ {t} ELSE astray
    BY <1>4 DEF Finish
  <2>4. row' = [row EXCEPT ![t] = new]
    BY <1>1, <2>3
  <2> HIDE DEF next
  <2>5. new \in Row /\ new.cron = row[t].cron /\ new.next = next
    BY <2>1, <2>2 DEF Row
  <2> HIDE DEF new
  <2>6. /\ row'[t] = new /\ row' \in [Task -> Row \cup {Null}]
        /\ \A u \in Task \ {t} : row'[u] = row[u] /\ (u \in astray' <=> u \in astray)
        /\ astray' \subseteq Task
    BY <1>1, <2>3, <2>4, <2>5
  <2>7. TasksTypeOK'
    BY <1>2, <2>6 DEF TasksInv, TasksTypeOK
  <2>8. t \notin fresh
    BY <2>1 DEF TasksInv, FreshInv
  <2>9. FreshInv(row', runs', edits, fresh)
    BY <1>2, <2>6, <2>8 DEF TasksInv, FreshInv, TasksTypeOK
  <2>10. ASSUME t \notin astray' PROVE row[t].cron = r.cron
    <3>1. CASE t \in astray
      BY <2>3, <2>10, <3>1
    <3>2. CASE t \notin astray
      BY <1>1, <2>1, <3>2 DEF TasksInv, ReadInv
    <3>3. QED
      BY <3>1, <3>2
  <2>11. FollowInv(row', astray')
    <3>1. ASSUME NEW u \in Task \ astray', u # t PROVE Follows(row'[u])
      BY <2>6, <3>1 DEF TasksInv, FollowInv
    <3>2. ASSUME t \notin astray' PROVE Follows(row'[t])
      BY <2>2, <2>5, <2>6, <2>10, <3>2 DEF Follows
    <3>3. QED
      BY <3>1, <3>2 DEF FollowInv
  <2>12. ReadInv(row', runs', edits, astray')
    <3>1. ASSUME NEW s \in runs', s.cron # Null, row'[s.task] # Null, s.task \notin astray'
          PROVE  s.cron = row'[s.task].cron
      <4>1. s \in runs /\ s # r /\ s.task \in Task
        BY <1>2, Calls DEF TasksInv
      <4>2. CASE s.task # t
        BY <2>6, <3>1, <4>1, <4>2 DEF TasksInv, ReadInv
      <4>3. CASE s.task = t /\ t \in astray
        BY <2>3, <3>1, <4>1, <4>3 DEF Outdated
      <4>4. CASE s.task = t /\ t \notin astray
        BY <2>1, <2>5, <2>6, <3>1, <4>1, <4>4 DEF TasksInv, ReadInv
      <4>5. QED
        BY <4>2, <4>3, <4>4
    <3>2. ASSUME NEW e \in edits, ~e.sets, row'[e.task] # Null, e.task \notin astray'
          PROVE  e.cron = row'[e.task].cron
      <4>1. e.task \in Task /\ e # r
        BY Calls DEF TasksInv, Run, Edit
      <4>2. CASE e.task # t
        BY <2>6, <3>2, <4>1, <4>2 DEF TasksInv, ReadInv
      <4>3. CASE e.task = t /\ t \in astray
        BY <2>3, <3>2, <4>1, <4>3 DEF Outdated
      <4>4. CASE e.task = t /\ t \notin astray
        BY <2>1, <2>5, <2>6, <3>2, <4>1, <4>4 DEF TasksInv, ReadInv
      <4>5. QED
        BY <4>2, <4>3, <4>4
    <3>3. QED
      BY <3>1, <3>2 DEF ReadInv
  <2>13. QED
    BY <1>2, <2>7, <2>9, <2>11, <2>12 DEF TasksInv
<1>5. QED
  BY <1>3, <1>4

LEMMA DeleteStep ==
    ASSUME ScheduledTasksAssumption, TasksInv, NEW t \in Task, Delete(t)
    PROVE  TasksInv'
<1>1. /\ row' = [row EXCEPT ![t] = Null] /\ asked' \in 0..MaxAsked
      /\ UNCHANGED <<fresh, tick, due, runs, edits, astray, faults>>
  BY DEF Delete, AskedAgain, TasksInv, TasksTypeOK, ScheduledTasksAssumption
<1>2. TasksTypeOK' /\ \A u \in Task : row'[u] = Null \/ row'[u] = row[u]
  BY <1>1 DEF TasksInv, TasksTypeOK
<1>3. FollowInv(row', astray)
  BY <1>2 DEF FollowInv, Follows, TasksInv
<1>4. ReadInv(row', runs, edits, astray) /\ FreshInv(row', runs, edits, fresh)
  BY <1>1, <1>2, Calls DEF ReadInv, FreshInv, TasksInv, TasksTypeOK
<1>5. QED
  BY <1>1, <1>2, <1>3, <1>4 DEF TasksInv

\* Calls that have read nothing yet, or are gone.
LEMMA RunsStep ==
    ASSUME ScheduledTasksAssumption, TasksInv,
           \A r \in runs' : r \in runs \/ (r \in Run /\ r.cron = Null),
           edits' \subseteq edits, UNCHANGED <<row, fresh, astray>>,
           tick' \in [Tick -> {"idle", "asking", "running"}], due' \in [Tick -> SUBSET Task],
           asked' \in 0..MaxAsked, faults' \in 0..MaxFaults
    PROVE  TasksInv'
<1>1. TasksTypeOK'
  BY DEF TasksInv, TasksTypeOK
<1>2. ReadInv(row, runs', edits', astray) /\ FreshInv(row, runs', edits', fresh)
  BY DEF TasksInv, ReadInv, FreshInv
<1>3. QED
  BY <1>1, <1>2 DEF TasksInv

LEMMA TasksStep ==
    ASSUME ScheduledTasksAssumption, TasksInv, [TasksNext]_tasksVars
    PROVE  TasksInv'
<1> USE DEF Starter
<1>t. /\ asked \in 0..MaxAsked /\ faults \in 0..MaxFaults /\ MaxAsked \in Nat /\ MaxFaults \in Nat
      /\ tick \in [Tick -> {"idle", "asking", "running"}] /\ due \in [Tick -> SUBSET Task]
  BY DEF TasksInv, TasksTypeOK, ScheduledTasksAssumption
<1>1. ASSUME NEW t \in Task, Create(t) \/ EditRead(t) \/ Delete(t) \/ TimeComes(t) PROVE TasksInv'
  BY <1>1, CreateStep, EditReadStep, DeleteStep, TimeComesStep
<1>2. ASSUME NEW t \in Task, RunNow(t) PROVE TasksInv'
  <2>1. [by |-> ByHand, task |-> t, cron |-> Null] \in Run
    BY DEF Run
  <2>2. asked' \in 0..MaxAsked
    BY <1>t, <1>2 DEF RunNow, AskedAgain
  <2>3. QED
    BY <1>t, <1>2, <2>1, <2>2, RunsStep DEF RunNow
<1>3. ASSUME NEW e \in edits, EditWrite(e) PROVE TasksInv'
  BY <1>3, EditWriteStep
<1>4. ASSUME NEW r \in runs, Start(r) \/ Finish(r) PROVE TasksInv'
  BY <1>4, StartStep, FinishStep
<1>5. ASSUME NEW r \in runs, RunFails(r) PROVE TasksInv'
  <2>1. faults' \in 0..MaxFaults
    BY <1>t, <1>5 DEF RunFails
  <2>2. QED
    BY <1>t, <1>5, <2>1, RunsStep DEF RunFails
<1>6. ASSUME NEW k \in Tick, Fire(k) \/ GetDueTasks(k) \/ TickEnds(k) PROVE TasksInv'
  <2>1. tick' \in [Tick -> {"idle", "asking", "running"}] /\ due' \in [Tick -> SUBSET Task]
    BY <1>t, <1>6 DEF Fire, GetDueTasks, TickEnds
  <2>2. QED
    BY <1>t, <1>6, <2>1, RunsStep DEF Fire, GetDueTasks, TickEnds
<1>7. ASSUME NEW k \in Tick, NextBatch(k) PROVE TasksInv'
  <2>1. PICK batch \in SUBSET due[k] :
           /\ due' = [due EXCEPT ![k] = @ \ batch]
           /\ runs' = runs \cup {[by |-> k, task |-> t, cron |-> Null] : t \in batch}
    BY <1>7 DEF NextBatch
  <2>2. \A t \in batch : [by |-> k, task |-> t, cron |-> Null] \in Run
    BY <1>t DEF Run
  <2>3. \A r \in runs' : r \in runs \/ (r \in Run /\ r.cron = Null)
    BY <2>1, <2>2
  <2>4. due' \in [Tick -> SUBSET Task]
    BY <1>t, <2>1
  <2>5. QED
    BY <1>t, <1>7, <2>3, <2>4, RunsStep DEF NextBatch
<1>8. ASSUME NEW k \in Tick, QueryFails(k) PROVE TasksInv'
  <2>1. faults' \in 0..MaxFaults
    BY <1>t, <1>8 DEF QueryFails
  <2>2. QED
    BY <1>t, <1>8, <2>1, RunsStep DEF QueryFails
<1>9. CASE TasksRestart
  <2>1. faults' \in 0..MaxFaults
    BY <1>t, <1>9 DEF TasksRestart
  <2>2. QED
    BY <1>t, <1>9, <2>1, RunsStep DEF TasksRestart
<1>10. CASE UNCHANGED tasksVars
  BY <1>t, <1>10, RunsStep DEF tasksVars
<1>11. QED
  BY <1>1, <1>2, <1>3, <1>4, <1>5, <1>6, <1>7, <1>8, <1>9, <1>10 DEF TasksNext, Requests, Progress, Runs

\* Rows, runs, edits and ticks keep their types.
THEOREM TasksTypeCorrect == ScheduledTasksAssumption => (TasksSpec => []TasksTypeOK)
<1> SUFFICES ASSUME ScheduledTasksAssumption PROVE TasksSpec => []TasksTypeOK
  OBVIOUS
<1>1. TasksInit => TasksInv
  BY TasksInitInv
<1>2. TasksInv /\ [TasksNext]_tasksVars => TasksInv'
  BY TasksStep
<1>3. TasksInv => TasksTypeOK
  BY DEF TasksInv
<1>4. QED
  BY <1>1, <1>2, <1>3, PTL DEF TasksSpec

\* ScheduleFollowsEdit: the next run of a task is one of its own expression.
THEOREM SchedulesFollowEdits == ScheduledTasksAssumption => (TasksSpec => []ScheduleFollowsEdit)
<1> SUFFICES ASSUME ScheduledTasksAssumption PROVE TasksSpec => []ScheduleFollowsEdit
  OBVIOUS
<1>1. TasksInit => TasksInv
  BY TasksInitInv
<1>2. TasksInv /\ [TasksNext]_tasksVars => TasksInv'
  BY TasksStep
<1>3. TasksInv => ScheduleFollowsEdit
  BY DEF TasksInv, FollowInv, Follows, ScheduleFollowsEdit, Exists
<1>4. QED
  BY <1>1, <1>2, <1>3, PTL DEF TasksSpec

-------------------------------------------------------------------------------
(* What DueTaskStarts rests on: a tick that took a task over starts it, a batch at a time. *)

RunsOf(k) == {r \in runs : r.by = k}

\* Only a tick that runs has tasks to start; it has at most Limit runs, one of each task, and
\* none of a task it has still to start.
TickInv ==
    /\ \A k \in Tick : tick[k] # "running" => due[k] = {} /\ RunsOf(k) = {}
    /\ \A r, q \in runs : r.by \in Tick /\ q.by = r.by /\ q.task = r.task => q = r
    /\ \A r \in runs : r.by \in Tick => r.task \notin due[r.by]
    /\ \A k \in Tick : IsFiniteSet(RunsOf(k)) /\ Cardinality(RunsOf(k)) <= Limit

\* What a tick has still to start, it starts or keeps, unless the process ends; every batch
\* brings it closer to its end.
NoTaskDropped ==
    [][\A k \in Tick :
          /\ \A t \in due[k] : t \in due'[k] \/ (\E r \in runs' : r.by = k /\ r.task = t) \/ TasksRestart
          /\ NextBatch(k) => due'[k] \subseteq due[k] /\ due'[k] # due[k]]_tasksVars

\* Runs that end take nothing away from what is to hold of the others.
LEMMA FewerRuns ==
    ASSUME TasksTypeOK, TickInv, ScheduledTasksAssumption, tick' = tick, due' = due,
           NEW over \in SUBSET runs, runs' = runs \ over
    PROVE  TickInv'
<1>1. /\ \A k \in Tick : tick'[k] # "running" => due'[k] = {} /\ RunsOf(k)' = {}
      /\ \A r, q \in runs' : r.by \in Tick /\ q.by = r.by /\ q.task = r.task => q = r
      /\ \A r \in runs' : r.by \in Tick => r.task \notin due'[r.by]
  BY DEF TickInv, RunsOf
<1>2. ASSUME NEW k \in Tick PROVE IsFiniteSet(RunsOf(k)') /\ Cardinality(RunsOf(k)') <= Limit
  <2>1. RunsOf(k)' \in SUBSET RunsOf(k)
    BY DEF RunsOf
  <2>2. IsFiniteSet(RunsOf(k)) /\ Cardinality(RunsOf(k)) <= Limit
    BY DEF TickInv
  <2>3. IsFiniteSet(RunsOf(k)') /\ Cardinality(RunsOf(k)') <= Cardinality(RunsOf(k))
    BY <2>1, <2>2, FS_Subset
  <2>4. Cardinality(RunsOf(k)') \in Nat /\ Cardinality(RunsOf(k)) \in Nat /\ Limit \in Nat
    BY <2>2, <2>3, FS_CardinalityType DEF ScheduledTasksAssumption
  <2>5. QED
    BY <2>2, <2>3, <2>4
<1>3. QED
  BY <1>1, <1>2 DEF TickInv

\* A run that goes on, having read its row, or one asked for by hand.
LEMMA RunReplaced ==
    ASSUME TasksTypeOK, TickInv, ScheduledTasksAssumption, tick' = tick, due' = due,
           NEW over \in SUBSET runs, NEW new \in Run, runs' = (runs \ over) \cup {new},
           new.by \notin Tick \/
             \E r \in runs : over = {r} /\ r.by = new.by /\ r.task = new.task
    PROVE  TickInv'
<1>1. CASE new.by \notin Tick
  <2>1. \A k \in Tick : RunsOf(k)' = {r \in runs \ over : r.by = k}
    BY <1>1 DEF RunsOf
  <2>2. /\ \A k \in Tick : tick'[k] # "running" => due'[k] = {} /\ RunsOf(k)' = {}
        /\ \A r, q \in runs' : r.by \in Tick /\ q.by = r.by /\ q.task = r.task => q = r
        /\ \A r \in runs' : r.by \in Tick => r.task \notin due'[r.by]
    BY <1>1, <2>1 DEF TickInv, RunsOf
  <2>3. ASSUME NEW k \in Tick PROVE IsFiniteSet(RunsOf(k)') /\ Cardinality(RunsOf(k)') <= Limit
    <3>1. RunsOf(k)' \in SUBSET RunsOf(k)
      BY <2>1 DEF RunsOf
    <3>2. IsFiniteSet(RunsOf(k)) /\ Cardinality(RunsOf(k)) <= Limit
      BY DEF TickInv
    <3>3. IsFiniteSet(RunsOf(k)') /\ Cardinality(RunsOf(k)') <= Cardinality(RunsOf(k))
      BY <3>1, <3>2, FS_Subset
    <3>4. Cardinality(RunsOf(k)') \in Nat /\ Cardinality(RunsOf(k)) \in Nat /\ Limit \in Nat
      BY <3>2, <3>3, FS_CardinalityType DEF ScheduledTasksAssumption
    <3>5. QED
      BY <3>2, <3>3, <3>4
  <2>4. QED
    BY <2>2, <2>3 DEF TickInv
<1>2. ASSUME NEW r \in runs, over = {r}, r.by = new.by, r.task = new.task PROVE TickInv'
  <2>1. \A q \in runs' : \E p \in runs : q.by = p.by /\ q.task = p.task /\ (q = new => p = r) /\ (q # new => p = q)
    BY <1>2
  <2>2. \A q \in runs' : q # new => q \in runs /\ q # r
    BY <1>2
  <2>3. \A k \in Tick : tick'[k] # "running" => due'[k] = {} /\ RunsOf(k)' = {}
    BY <2>1 DEF TickInv, RunsOf
  <2>4. \A p, q \in runs' : p.by \in Tick /\ q.by = p.by /\ q.task = p.task => q = p
    BY <1>2, <2>2 DEF TickInv
  <2>5. \A q \in runs' : q.by \in Tick => q.task \notin due'[q.by]
    BY <2>1 DEF TickInv
  <2>6. ASSUME NEW k \in Tick PROVE IsFiniteSet(RunsOf(k)') /\ Cardinality(RunsOf(k)') <= Limit
    <3>1. IsFiniteSet(RunsOf(k)) /\ Cardinality(RunsOf(k)) <= Limit
      BY DEF TickInv
    <3>2. Cardinality(RunsOf(k)) \in Nat /\ Limit \in Nat
      BY <3>1, FS_CardinalityType DEF ScheduledTasksAssumption
    <3>3. CASE r.by # k
      <4>1. RunsOf(k)' = RunsOf(k)
        BY <1>2, <3>3 DEF RunsOf
      <4>2. QED
        BY <3>1, <4>1
    <3>4. CASE r.by = k
      <4>1. r \in RunsOf(k) /\ RunsOf(k)' = (RunsOf(k) \ {r}) \cup {new}
        BY <1>2, <3>4 DEF RunsOf
      <4>2. PICK rest : rest = RunsOf(k) \ {r}
        OBVIOUS
      <4>3. IsFiniteSet(rest) /\ Cardinality(rest) = Cardinality(RunsOf(k)) - 1
        BY <3>1, <4>1, <4>2, FS_RemoveElement
      <4>4. Cardinality(rest) \in Nat
        BY <4>3, FS_CardinalityType
      <4>5. /\ IsFiniteSet(rest \cup {new})
            /\ Cardinality(rest \cup {new}) = IF new \in rest THEN Cardinality(rest) ELSE Cardinality(rest) + 1
        BY <4>3, FS_AddElement
      <4>6. Cardinality(rest \cup {new}) <= Limit
        BY <3>1, <3>2, <4>3, <4>4, <4>5
      <4>7. QED
        BY <4>1, <4>2, <4>5, <4>6
    <3>5. QED
      BY <3>3, <3>4
  <2>7. QED
    BY <2>3, <2>4, <2>5, <2>6 DEF TickInv
<1>3. QED
  BY <1>1, <1>2

\* The runs a batch adds.
Started(k, batch) == {[by |-> k, task |-> t, cron |-> Null] : t \in batch}

LEMMA StartedRuns ==
    ASSUME NEW k, NEW batch, IsFiniteSet(batch)
    PROVE  /\ IsFiniteSet(Started(k, batch)) /\ Cardinality(Started(k, batch)) <= Cardinality(batch)
           /\ \A r \in Started(k, batch) : r.by = k /\ r.task \in batch /\ r.cron = Null
           /\ \A t \in batch : \E r \in Started(k, batch) : r.task = t
           /\ \A r, q \in Started(k, batch) : r.task = q.task => r = q
<1> DEFINE f == [t \in batch |-> [by |-> k, task |-> t, cron |-> Null]]
<1>1. f \in Surjection(batch, Started(k, batch))
  BY DEF Surjection, Started
<1>2. QED
  BY <1>1, FS_Surjection DEF Started

LEMMA NextBatchTick ==
    ASSUME TasksTypeOK, TickInv, ScheduledTasksAssumption, IsFiniteSet(Task), NEW k \in Tick, NextBatch(k)
    PROVE  /\ TickInv'
           /\ due'[k] \subseteq due[k] /\ due'[k] # due[k]
           /\ \A q \in Tick : \A t \in due[q] : t \in due'[q] \/ \E r \in runs' : r.by = q /\ r.task = t
<1>1. PICK batch \in SUBSET due[k] :
         /\ Cardinality(batch) = Limit \/ (batch = due[k] /\ Cardinality(batch) < Limit)
         /\ due' = [due EXCEPT ![k] = @ \ batch]
         /\ runs' = runs \cup Started(k, batch)
  BY DEF NextBatch, Started
<1>2. /\ tick[k] = "running" /\ RunsOf(k) = {} /\ due[k] # {} /\ tick' = tick
  BY DEF NextBatch, BatchDone, RunsOf
<1>3. due \in [Tick -> SUBSET Task] /\ Limit \in Nat \ {0}
  BY DEF TasksTypeOK, ScheduledTasksAssumption
<1>4. IsFiniteSet(batch) /\ Cardinality(batch) \in Nat
  <2>1. batch \in SUBSET Task
    BY <1>3
  <2>2. QED
    BY <2>1, FS_Subset, FS_CardinalityType
<1>5. Cardinality(batch) <= Limit
  BY <1>1, <1>3, <1>4
<1>6. batch # {}
  BY <1>1, <1>2, <1>3, FS_EmptySet
<1>7. due'[k] = due[k] \ batch /\ \A q \in Tick \ {k} : due'[q] = due[q]
  BY <1>1, <1>3
<1>8. \A q \in Tick \ {k} : RunsOf(q)' = RunsOf(q)
  BY <1>1, <1>4, StartedRuns DEF RunsOf
<1>9. RunsOf(k)' = Started(k, batch)
  BY <1>1, <1>2, <1>4, StartedRuns DEF RunsOf
<1>10. \A q \in Tick : tick'[q] # "running" => due'[q] = {} /\ RunsOf(q)' = {}
  BY <1>2, <1>7, <1>8 DEF TickInv
<1>11. \A r \in runs : r.by # k
  BY <1>2 DEF RunsOf
<1>12. \A r, q \in runs' : r.by \in Tick /\ q.by = r.by /\ q.task = r.task => q = r
  BY <1>1, <1>4, <1>11, StartedRuns DEF TickInv
<1>13. \A r \in runs' : r.by \in Tick => r.task \notin due'[r.by]
  BY <1>1, <1>4, <1>7, <1>11, StartedRuns DEF TickInv
<1>14. ASSUME NEW q \in Tick PROVE IsFiniteSet(RunsOf(q)') /\ Cardinality(RunsOf(q)') <= Limit
  <2>1. CASE q = k
    <3>1. IsFiniteSet(Started(k, batch)) /\ Cardinality(Started(k, batch)) <= Cardinality(batch)
      BY <1>4, StartedRuns
    <3>2. Cardinality(Started(k, batch)) \in Nat
      BY <3>1, FS_CardinalityType
    <3>3. QED
      BY <1>3, <1>4, <1>5, <1>9, <2>1, <3>1, <3>2
  <2>2. CASE q # k
    BY <1>8, <2>2 DEF TickInv
  <2>3. QED
    BY <2>1, <2>2
<1>15. TickInv'
  BY <1>10, <1>12, <1>13, <1>14 DEF TickInv
<1>16. \A q \in Tick : \A t \in due[q] : t \in due'[q] \/ \E r \in runs' : r.by = q /\ r.task = t
  BY <1>1, <1>4, <1>7, StartedRuns
<1>17. QED
  BY <1>6, <1>7, <1>15, <1>16

\* A tick moves between its stages.
LEMMA TickMoves ==
    ASSUME TasksTypeOK, TickInv, NEW k \in Tick,
           Fire(k) \/ GetDueTasks(k) \/ QueryFails(k) \/ TickEnds(k)
    PROVE  /\ TickInv'
           /\ \A q \in Tick : due[q] \subseteq due'[q]
<1>1. /\ runs' = runs
      /\ \A q \in Tick \ {k} : tick'[q] = tick[q] /\ due'[q] = due[q]
      /\ tick'[k] \in {"idle", "asking"} => due'[k] = {} /\ due[k] = {} /\ RunsOf(k) = {}
      /\ tick'[k] \in {"idle", "asking", "running"}
      /\ tick'[k] = "running" => due[k] = {} /\ RunsOf(k) = {}
  BY DEF TasksTypeOK, TickInv, Fire, GetDueTasks, QueryFails, TickEnds, BatchDone, RunsOf
<1>2. due[k] = {} /\ RunsOf(k) = {}
  BY <1>1
<1>3. \A q \in Tick : RunsOf(q)' = RunsOf(q)
  BY <1>1 DEF RunsOf
<1>4. \A q \in Tick : tick'[q] # "running" => due'[q] = {} /\ RunsOf(q)' = {}
  BY <1>1, <1>2, <1>3 DEF TickInv
<1>5. \A r \in runs' : r.by \in Tick => r.task \notin due'[r.by]
  BY <1>1, <1>2 DEF TickInv, RunsOf
<1>6. QED
  BY <1>1, <1>2, <1>3, <1>4, <1>5 DEF TickInv

LEMMA TickStep ==
    ASSUME TasksTypeOK, TickInv, ScheduledTasksAssumption, IsFiniteSet(Task), [TasksNext]_tasksVars
    PROVE  /\ TickInv'
           /\ \A k \in Tick : \A t \in due[k] :
                 t \in due'[k] \/ (\E r \in runs' : r.by = k /\ r.task = t) \/ TasksRestart
<1> USE DEF tasksVars
<1>1. CASE UNCHANGED <<tick, due, runs>>
  <2>1. {} \in SUBSET runs /\ runs' = runs \ {}
    BY <1>1
  <2>2. QED
    BY <1>1, <2>1, FewerRuns
<1>2. ASSUME NEW t \in Task, RunNow(t) PROVE TickInv' /\ due' = due
  <2>1. [by |-> ByHand, task |-> t, cron |-> Null] \in Run
    BY DEF Run, Starter
  <2>2. {} \in SUBSET runs /\ runs' = (runs \ {}) \cup {[by |-> ByHand, task |-> t, cron |-> Null]}
    BY <1>2 DEF RunNow
  <2>3. ByHand \notin Tick /\ UNCHANGED <<tick, due>>
    BY <1>2 DEF RunNow, ScheduledTasksAssumption
  <2>4. QED
    BY <2>1, <2>2, <2>3, RunReplaced
<1>3. ASSUME NEW r \in runs, Start(r) PROVE TickInv' /\ due' = due
  <2>1. r \in Run /\ UNCHANGED <<tick, due>>
    BY <1>3 DEF Start, TasksTypeOK
  <2>2. CASE Exists(r.task)
    <3> DEFINE new == [r EXCEPT !.cron = row[r.task].cron]
    <3>1. row[r.task].cron \in Cron
      BY <2>1, <2>2, Calls DEF Exists
    <3>2. new \in Run /\ new.by = r.by /\ new.task = r.task
      BY <2>1, <3>1 DEF Run
    <3>3. {r} \in SUBSET runs /\ runs' = (runs \ {r}) \cup {new}
      BY <1>3, <2>2 DEF Start
    <3> HIDE DEF new
    <3>4. QED
      BY <2>1, <3>2, <3>3, RunReplaced
  <2>3. CASE ~Exists(r.task)
    <3>1. {r} \in SUBSET runs /\ runs' = runs \ {r}
      BY <1>3, <2>3 DEF Start
    <3>2. QED
      BY <2>1, <3>1, FewerRuns
  <2>4. QED
    BY <2>2, <2>3
<1>4. ASSUME NEW r \in runs, Finish(r) \/ RunFails(r) PROVE TickInv' /\ due' = due
  <2>1. {r} \in SUBSET runs /\ runs' = runs \ {r} /\ UNCHANGED <<tick, due>>
    BY <1>4 DEF Finish, RunFails
  <2>2. QED
    BY <2>1, FewerRuns
<1>5. ASSUME NEW k \in Tick, Progress(k) \/ QueryFails(k)
      PROVE  /\ TickInv'
             /\ \A q \in Tick : \A t \in due[q] : t \in due'[q] \/ \E r \in runs' : r.by = q /\ r.task = t
  <2>1. CASE NextBatch(k)
    BY <2>1, NextBatchTick
  <2>2. CASE ~NextBatch(k)
    <3>1. Fire(k) \/ GetDueTasks(k) \/ QueryFails(k) \/ TickEnds(k)
      BY <1>5, <2>2 DEF Progress
    <3>2. QED
      BY <3>1, TickMoves
  <2>3. QED
    BY <2>1, <2>2
<1>6. CASE TasksRestart
  <2>1. /\ \A k \in Tick : due'[k] = {} /\ RunsOf(k)' = {}
        /\ runs' = {}
    BY <1>6 DEF TasksRestart, RunsOf
  <2>2. Limit \in Nat
    BY DEF ScheduledTasksAssumption
  <2>3. QED
    BY <1>6, <2>1, <2>2, FS_EmptySet DEF TickInv
<1>7. ASSUME Requests PROVE TickInv' /\ due' = due
  <2>1. CASE \E t \in Task : RunNow(t)
    BY <1>2, <2>1
  <2>2. CASE ~ \E t \in Task : RunNow(t)
    <3>1. UNCHANGED <<tick, due, runs>>
      BY <1>7, <2>2 DEF Requests, Create, EditRead, Delete, EditWrite
    <3>2. QED
      BY <1>1, <3>1
  <2>3. QED
    BY <2>1, <2>2
<1>8. ASSUME NEW t \in Task, TimeComes(t) PROVE TickInv' /\ due' = due
  BY <1>1, <1>8 DEF TimeComes
<1>9. QED
  BY <1>1, <1>3, <1>4, <1>5, <1>6, <1>7, <1>8 DEF TasksNext, Runs

\* The scheduled-task runner: for any finite number of tasks and any number of ticks, edits and
\* failures, a tick keeps to MAX_CONCURRENT_TASKS and starts every task it found due, each once,
\* unless the process ends.
THEOREM TicksServeTheirTasks ==
    ScheduledTasksAssumption /\ IsFiniteSet(Task) => (TasksSpec => []TickInv /\ NoTaskDropped)
<1> SUFFICES ASSUME ScheduledTasksAssumption, IsFiniteSet(Task) PROVE TasksSpec => []TickInv /\ NoTaskDropped
  OBVIOUS
<1>1. TasksSpec => []TasksTypeOK
  BY TasksTypeCorrect
<1>2. TasksInit => TickInv
  BY FS_EmptySet DEF TasksInit, TickInv, RunsOf, ScheduledTasksAssumption
<1>3. TasksTypeOK /\ TickInv /\ [TasksNext]_tasksVars => TickInv'
  BY TickStep
<1>4. TasksTypeOK /\ TickInv /\ [TasksNext]_tasksVars
      => [\A k \in Tick :
            /\ \A t \in due[k] : t \in due'[k] \/ (\E r \in runs' : r.by = k /\ r.task = t) \/ TasksRestart
            /\ NextBatch(k) => due'[k] \subseteq due[k] /\ due'[k] # due[k]]_tasksVars
  BY TickStep, NextBatchTick
<1>5. QED
  BY <1>1, <1>2, <1>3, <1>4, PTL DEF TasksSpec, NoTaskDropped

-------------------------------------------------------------------------------
(* BackupRestore. *)

\* Nothing was cut off amid a replacement, and no two restores met.
Clean == excuse \cap {"cut", "overlap"} = {}

\* All of one moment.
Sound(c) ==
    /\ c["database"] # Lost /\ c["data"] = c["database"]
    /\ \A p \in has[c["database"]] : c[p] = c["database"]

\* A directory that d has is as d has it.
Given(c, d, p) == d[p] # Lost => c[p] = d[p]

\* The steps that come after the data root has been copied, after the stacks, and the one
\* that puts a directory back.
Copied    == {"clearing", "replacing", "emptying", "refilling", "loading"}
Settled   == {"emptying", "refilling", "loading"}
Refill(p) == IF p = "stacks" THEN "replacing" ELSE "refilling"

\* A backup of one piece has met no restore, and what it has copied is still as it was.
SavingInv ==
    \A b \in Backups : Saving(b) /\ bid[b] \notin spoiled =>
        /\ \A r \in Restores : ~Restoring(r)
        /\ bstep[b] \in {"dumping", "stacks", "store"} => members[b] = {p \in Optional : live[p] # Lost}
        /\ bstep[b] \in {"stacks", "store", "packing"} => gathered[b]["database"] = live["database"]
        /\ bstep[b] \in {"store", "packing"} => gathered[b]["stacks"] = live["stacks"]
        /\ bstep[b] = "packing" => gathered[b]["store"] = live["store"]

\* What a restore has replaced is from its backup, a directory that is gone is about to be put
\* back, and whatever is saved is of one moment.
RestoreInv == Clean =>
    /\ \A r, q \in Restores : Restoring(r) /\ Restoring(q) => r = q
    /\ (\A r \in Restores : rstep[r] \notin Amid) => Sound(live)
    /\ \A i \in Id \ spoiled : /\ archive[i] \in Contents => Sound(archive[i])
                               /\ unpacked[i] \in Contents => Sound(unpacked[i])
    /\ \A p \in has[newest] : live[p] # Lost \/ \E r \in Restores : rstep[r] = Refill(p)
    /\ \A r \in Restores, p \in Optional :
          rstep[r] = Refill(p) => Source(r) \in Contents /\ Source(r)[p] # Lost
    /\ \A r \in Restores : rid[r] \notin spoiled =>
          /\ rstep[r] \in Copied => Source(r) \in Contents /\ live["data"] = Source(r)["data"]
          /\ rstep[r] \in Settled => Given(live, Source(r), "stacks")
          /\ rstep[r] = "loading" => Given(live, Source(r), "store")

\* No two backups of one piece have an id in common; a manifest has an archive, and a backup
\* that is not listed yet no manifest.
IdsInv ==
    /\ \A b, c \in Backups : b # c /\ Saving(b) /\ Saving(c) /\ bid[b] = bid[c] => bid[b] \in spoiled
    /\ \A i \in listing : /\ \E n \in 1..Len(ever) : ever[n] = i
                          /\ i \notin spoiled => archive[i] \in Contents
    /\ \A b \in Backups : bid[b] \notin spoiled =>
          /\ bstep[b] \in {"dumping", "stacks", "store"} => archive[bid[b]] = Absent
          /\ bstep[b] \in {"dumping", "stacks", "store", "packing", "listing"} => bid[b] \notin listing
          /\ bstep[b] = "listing" => archive[bid[b]] \in Contents

BackupInv == BackupTypeOK /\ SavingInv /\ RestoreInv /\ IdsInv /\ NewestCanBeRestored

BStep == {"idle", "dumping", "packing", "listing", "pruning", "done"} \cup Optional
RStep == {"idle", "asking", "done"} \cup Script

-------------------------------------------------------------------------------

\* Versions are of one moment.
LEMMA Versions ==
    ASSUME BackupRestoreAssumption, has \in Layouts, NEW v \in 0..MaxChanges
    PROVE  /\ has[v] \subseteq Optional /\ v # Lost
           /\ Version(v) \in Contents /\ Sound(Version(v)) /\ \A p \in has[v] : Version(v)[p] # Lost
<1>1. has[v] \subseteq Optional /\ v # Lost
  BY DEF BackupRestoreAssumption
<1>2. /\ "database" \notin Optional /\ "data" \notin Optional
      /\ "database" \in Part /\ "data" \in Part /\ Optional \subseteq Part
  BY DEF Part, Optional
<1>3. \A p \in Part : Version(v)[p] = IF p \in Optional \ has[v] THEN Lost ELSE v
  BY DEF Version
<1>4. Version(v)["database"] = v /\ Version(v)["data"] = v /\ \A p \in has[v] : Version(v)[p] = v
  BY <1>1, <1>2, <1>3
<1>5. Version(v) \in Contents
  BY DEF Version, Contents, Content
<1>6. QED
  BY <1>1, <1>4, <1>5 DEF Sound

\* How the steps are grouped.
LEMMA Phases ==
    /\ Copied \subseteq Amid /\ Settled \subseteq Copied /\ Amid \subseteq Script
    /\ \A p : Refill(p) \in Copied /\ Refill(p) \in {"replacing", "refilling"}
    /\ "loading" \in Settled /\ "idle" \notin Script
BY DEF Before, After, Rescue, Copied, Settled, Amid, Script, Refill

LEMMA BackupInitInv == BackupRestoreAssumption /\ BackupInit => BackupInv
<1> SUFFICES ASSUME BackupRestoreAssumption, BackupInit PROVE BackupInv
  OBVIOUS
<1>1. 1 \in Id /\ 0 \in 0..MaxChanges /\ 0 \in 0..MaxOutages /\ 0 # Lost
  BY DEF BackupRestoreAssumption, Id
<1>2. /\ live \in Contents /\ Sound(live) /\ has \in Layouts
      /\ \A p \in has[newest] : live[p] # Lost
  BY <1>1, Versions DEF BackupInit
<1>3. /\ archive \in [Id -> Contents \cup {Absent, Broken}] /\ unpacked \in [Id -> Contents \cup {Absent}]
      /\ \A i \in Id : archive[i] \notin Contents /\ unpacked[i] \notin Contents
  BY DEF BackupInit, BackupRestoreAssumption
<1>4. ever \in Seq(Id) /\ Len(ever) = 0
  BY DEF BackupInit
<1>5. gathered \in [Backups -> Contents]
  <2>1. [p \in Part |-> Lost] \in Contents
    BY DEF Contents, Content
  <2>2. QED
    BY <2>1 DEF BackupInit
<1>6. BackupTypeOK
  <2>1. bid \in [Backups -> Id] /\ rid \in [Restores -> Id] /\ clock \in Id
    BY <1>1 DEF BackupInit
  <2>2. /\ outages \in 0..MaxOutages /\ newest \in 0..MaxChanges
        /\ members \in [Backups -> SUBSET Optional]
    BY <1>1 DEF BackupInit
  <2>3. QED
    BY <1>2, <1>3, <1>4, <1>5, <2>1, <2>2 DEF BackupInit, BackupTypeOK
<1>7. SavingInv /\ IdsInv /\ NewestCanBeRestored
  BY <1>4 DEF BackupInit, SavingInv, IdsInv, NewestCanBeRestored, Saving
<1>8. RestoreInv
  <2>1. \A r \in Restores : rstep[r] = "idle"
    BY DEF BackupInit
  <2>2. "idle" \notin Amid /\ "idle" \notin Copied /\ "idle" \notin Settled /\ \A p : Refill(p) # "idle"
    BY Phases
  <2>3. \A r \in Restores : ~Restoring(r)
    BY <2>1, Phases DEF Restoring
  <2>4. \A i \in Id : archive[i] \notin Contents /\ unpacked[i] \notin Contents
    BY <1>3
  <2>5. Sound(live) /\ \A p \in has[newest] : live[p] # Lost
    BY <1>2
  <2>6. QED
    BY <2>1, <2>2, <2>3, <2>4, <2>5 DEF RestoreInv
<1>9. QED
  BY <1>6, <1>7, <1>8 DEF BackupInv

\* Where the steps lead.
LEMMA GoesOn ==
    ASSUME BackupTypeOK, NEW r \in Restores, NEW s \in RStep, GoOn(r, s)
    PROVE  /\ rstep' \in [Restores -> RStep]
           /\ rstep'[r] = s /\ \A q \in Restores \ {r} : rstep'[q] = rstep[q]
BY DEF BackupTypeOK, GoOn, RStep

LEMMA LivePart ==
    ASSUME BackupTypeOK, NEW p \in Part, NEW v \in Content, live' = [live EXCEPT ![p] = v]
    PROVE  live' \in Contents /\ live'[p] = v /\ \A q \in Part \ {p} : live'[q] = live[q]
BY DEF BackupTypeOK, Contents

LEMMA Dots ==
    ASSUME NEW c \in Contents
    PROVE  /\ c.data = c["data"] /\ c.stacks = c["stacks"] /\ c.database = c["database"]
           /\ c["data"] \in Content /\ c["stacks"] \in Content /\ c["database"] \in Content
           /\ c["store"] \in Content
BY DEF Contents, Part, Optional

LEMMA DotExcepts ==
    ASSUME NEW c \in Contents, NEW v
    PROVE  /\ [c EXCEPT !.data = v] = [c EXCEPT !["data"] = v]
           /\ [c EXCEPT !.database = v] = [c EXCEPT !["database"] = v]
BY DEF Contents, Part

\* The optional directories are parts, and not the data root or the database.
LEMMA Others ==
    ASSUME BackupRestoreAssumption, BackupTypeOK
    PROVE  /\ has[newest] \subseteq Optional /\ Optional = {"stacks", "store"}
           /\ Part = {"database", "data", "stacks", "store"} /\ Lost \in Content
           /\ \A c \in Contents, p \in Part : c[p] \in Content
           /\ \A c \in Contents : c["database"] # Lost => has[c["database"]] \subseteq Optional
<1>1. \A v \in 0..MaxChanges : has[v] \subseteq Optional
  BY Versions DEF BackupTypeOK
<1>2. \A c \in Contents, p \in Part : c[p] \in Content
  BY DEF Contents
<1>3. Part = {"database", "data", "stacks", "store"} /\ Optional = {"stacks", "store"}
  BY DEF Part, Optional
<1>4. \A v \in Content : v # Lost => v \in 0..MaxChanges
  BY DEF Content
<1>5. QED
  BY <1>1, <1>2, <1>3, <1>4 DEF BackupTypeOK, Content

-------------------------------------------------------------------------------
(* The script *)

\* What a step of the script of r has to show: the system is of one moment unless the
\* replacement is under way, and then what is replaced is from the backup.
Replaced(r, s, lives, source) ==
    /\ s \notin Amid => Sound(lives)
    /\ \A p \in has[newest] : lives[p] # Lost \/ s = Refill(p)
    /\ \A p \in Optional : s = Refill(p) => source \in Contents /\ source[p] # Lost
    /\ rid[r] \notin spoiled =>
          /\ source \in Contents => Sound(source)
          /\ s \in Copied => source \in Contents /\ lives["data"] = source["data"]
          /\ s \in Settled => Given(lives, source, "stacks")
          /\ s = "loading" => Given(lives, source, "store")

\* Before the step.
LEMMA Alone ==
    ASSUME BackupInv, Clean, NEW r \in Restores, Restoring(r)
    PROVE  /\ \A q \in Restores \ {r} : rstep[q] \notin Script
           /\ Replaced(r, rstep[r], live, unpacked[rid[r]])
<1>1. \A q \in Restores \ {r} : rstep[q] \notin Script
  BY DEF BackupInv, RestoreInv, Restoring
<1>2. rstep[r] \notin Amid => \A q \in Restores : rstep[q] \notin Amid
  BY <1>1, Phases
<1>3. rid[r] \in Id
  BY DEF BackupInv, BackupTypeOK
<1>4. \A p \in has[newest] : live[p] # Lost \/ rstep[r] = Refill(p)
  BY <1>1, Phases DEF BackupInv, RestoreInv
<1>5. /\ rstep[r] \notin Amid => Sound(live)
      /\ \A p \in Optional : rstep[r] = Refill(p) => Source(r) \in Contents /\ Source(r)[p] # Lost
  BY <1>2 DEF BackupInv, RestoreInv
<1>6. rid[r] \notin spoiled =>
          /\ Source(r) \in Contents => Sound(Source(r))
          /\ rstep[r] \in Copied => Source(r) \in Contents /\ live["data"] = Source(r)["data"]
          /\ rstep[r] \in Settled => Given(live, Source(r), "stacks")
          /\ rstep[r] = "loading" => Given(live, Source(r), "store")
  BY <1>3 DEF BackupInv, RestoreInv, Source
<1>7. QED
  BY <1>1, <1>4, <1>5, <1>6 DEF Replaced, Source

LEMMA ScriptStep ==
    ASSUME BackupRestoreAssumption, BackupInv, NEW r \in Restores, Restoring(r),
           NEW s \in Script \cup {"done"}, GoOn(r, s),
           UNCHANGED <<has, newest, clock, archive, listing, ever, bstep, bid, members, gathered, rid, spoiled>>,
           live' \in Contents, serviceUp' \in BOOLEAN, masked' \in BOOLEAN, stacksUp' \in BOOLEAN,
           unpacked' \in [Id -> Contents \cup {Absent}],
           \A i \in Id \ {rid[r]} : unpacked'[i] = unpacked[i],
           excuse \subseteq excuse', excuse' \subseteq Excuse, outages' \in 0..MaxOutages,
           Clean' => Replaced(r, s, live', unpacked'[rid[r]])
    PROVE  BackupInv'
<1>1. /\ rstep' \in [Restores -> RStep]
      /\ rstep'[r] = s /\ \A q \in Restores \ {r} : rstep'[q] = rstep[q]
  BY GoesOn DEF BackupInv, RStep
<1>2. BackupTypeOK'
  BY <1>1 DEF BackupInv, BackupTypeOK, RStep
<1>3. SavingInv' /\ IdsInv' /\ NewestCanBeRestored'
  <2>1. \A b \in Backups : Saving(b) => bid[b] \in spoiled
    BY DEF BackupInv, SavingInv
  <2>2. SavingInv'
    BY <2>1 DEF SavingInv, Saving
  <2>3. IdsInv' /\ NewestCanBeRestored'
    BY DEF BackupInv, IdsInv, NewestCanBeRestored, Saving
  <2>4. QED
    BY <2>2, <2>3
<1>4. RestoreInv'
  <2> SUFFICES ASSUME Clean' PROVE RestoreInv'
    BY DEF RestoreInv
  <2>1. Clean /\ Amid \subseteq Script
    BY Phases DEF Clean
  <2>2. \A q \in Restores \ {r} : rstep'[q] \notin Script
    BY <1>1, <2>1, Alone
  <2>3. Replaced(r, s, live', unpacked'[rid[r]])
    OBVIOUS
  <2>4. (\A q \in Restores : rstep'[q] \notin Amid) => Sound(live')
    BY <1>1, <2>3 DEF Replaced
  <2>5. ASSUME NEW i \in Id \ spoiled, unpacked'[i] \in Contents PROVE Sound(unpacked'[i])
    <3>1. CASE i = rid[r]
      BY <2>3, <2>5, <3>1 DEF Replaced
    <3>2. CASE i # rid[r]
      BY <2>1, <2>5, <3>2 DEF BackupInv, RestoreInv
    <3>3. QED
      BY <3>1, <3>2
  <2>6. \A i \in Id \ spoiled : archive[i] \in Contents => Sound(archive[i])
    BY <2>1 DEF BackupInv, RestoreInv
  <2>7. ASSUME NEW q \in Restores, rid[q] \notin spoiled
        PROVE  /\ rstep'[q] \in Copied =>
                     unpacked'[rid[q]] \in Contents /\ live'["data"] = unpacked'[rid[q]]["data"]
               /\ rstep'[q] \in Settled => Given(live', unpacked'[rid[q]], "stacks")
               /\ rstep'[q] = "loading" => Given(live', unpacked'[rid[q]], "store")
    <3>1. CASE q = r
      BY <1>1, <2>3, <2>7, <3>1 DEF Replaced
    <3>2. CASE q # r
      BY <2>2, <3>2, Phases
    <3>3. QED
      BY <3>1, <3>2
  <2>8. /\ \A p \in has[newest] : live'[p] # Lost \/ \E q \in Restores : rstep'[q] = Refill(p)
        /\ \A q \in Restores, p \in Optional :
              rstep'[q] = Refill(p) => unpacked'[rid[q]] \in Contents /\ unpacked'[rid[q]][p] # Lost
    BY <1>1, <2>2, <2>3, Phases DEF Replaced
  <2>9. QED
    BY <2>2, <2>4, <2>5, <2>6, <2>7, <2>8 DEF RestoreInv, Restoring, Source, Given, Sound
<1>5. QED
  BY <1>2, <1>3, <1>4 DEF BackupInv

\* A step that leaves the system and what is unpacked as they are, or removes the latter.
LEMMA QuietScript ==
    ASSUME BackupRestoreAssumption, BackupInv, NEW r \in Restores, Restoring(r),
           NEW s \in Script \cup {"done"}, GoOn(r, s), s \notin Amid,
           UNCHANGED <<has, live, newest, clock, archive, listing, ever, bstep, bid, members, gathered, rid, spoiled>>,
           serviceUp' \in BOOLEAN, masked' \in BOOLEAN, stacksUp' \in BOOLEAN,
           unpacked' \in {unpacked, [unpacked EXCEPT ![rid[r]] = Absent]},
           excuse \subseteq excuse', excuse' \subseteq Excuse, rstep[r] \in Amid => "cut" \in excuse',
           outages' \in 0..MaxOutages
    PROVE  BackupInv'
<1>1. /\ live' \in Contents /\ rid[r] \in Id
      /\ unpacked' \in [Id -> Contents \cup {Absent}] /\ Absent \notin Contents
      /\ \A i \in Id \ {rid[r]} : unpacked'[i] = unpacked[i]
      /\ unpacked'[rid[r]] \in {unpacked[rid[r]], Absent}
  BY DEF BackupInv, BackupTypeOK, BackupRestoreAssumption
<1>2. ASSUME Clean' PROVE Replaced(r, s, live', unpacked'[rid[r]])
  <2>1. Clean /\ rstep[r] \notin Amid
    BY <1>2 DEF Clean
  <2>2. Replaced(r, rstep[r], live, unpacked[rid[r]])
    BY <2>1, Alone
  <2>3. \A p \in has[newest] : live[p] # Lost
    BY <2>1, <2>2, Phases DEF Replaced
  <2>4. QED
    BY <1>1, <2>1, <2>2, <2>3, Phases DEF Replaced
<1>3. QED
  BY <1>1, <1>2, ScriptStep

\* The trap takes over.
LEMMA FailsStep ==
    ASSUME BackupRestoreAssumption, BackupInv, NEW r \in Restores, Restoring(r), Fails(r),
           UNCHANGED <<has, live, newest, clock, serviceUp, masked, archive, listing, ever,
                       bstep, bid, members, gathered, rid, unpacked, spoiled>>,
           stacksUp' \in BOOLEAN, outages' \in 0..MaxOutages
    PROVE  BackupInv'
<1>1. "unmasking" \in Script \cup {"done"} /\ "unmasking" \notin Amid
  BY DEF Script, Rescue, Amid
<1>2. serviceUp' \in BOOLEAN /\ masked' \in BOOLEAN /\ excuse \subseteq Excuse
  BY DEF BackupInv, BackupTypeOK
<1>3. /\ GoOn(r, "unmasking") /\ excuse \subseteq excuse' /\ excuse' \subseteq Excuse
      /\ rstep[r] \in Amid => "cut" \in excuse'
  BY <1>2 DEF Fails, Excuse
<1>4. QED
  BY <1>1, <1>2, <1>3, QuietScript

LEMMA Outages ==
    ASSUME BackupRestoreAssumption, BackupTypeOK, Outage PROVE outages' \in 0..MaxOutages
<1>1. outages \in 0..MaxOutages /\ MaxOutages \in Nat
  BY DEF BackupRestoreAssumption, BackupTypeOK
<1>2. QED
  BY <1>1 DEF Outage

\* The steps that are tolerated to fail.
LEMMA Tolerable ==
    /\ DOMAIN Tolerated = {"stopping", "masking", "downing", "raising", "starting", "rescuing"}
    /\ Tolerated["stopping"] = "masking" /\ Tolerated["masking"] = "downing"
    /\ Tolerated["downing"] = "unpacking" /\ Tolerated["raising"] = "rebooting"
    /\ Tolerated["starting"] = "rescuing" /\ Tolerated["rescuing"] = "done"
    /\ \A s : Undone(s) \subseteq {"stranded", "unraised"}
BY DEF Tolerated, Undone

Quiet(r) ==
    Prepare(r) \/ Mask(r) \/ ComposeDown(r) \/ Tidy(r) \/ RestartStacks(r) \/ Unmask(r)
    \/ StartService(r) \/ FailsQuietly(r) \/ RebootFails(r)

LEMMA QuietSteps ==
    ASSUME BackupRestoreAssumption, BackupInv, NEW r \in Restores, Quiet(r) PROVE BackupInv'
<1> USE DEF system, store, backups
<1>t. /\ serviceUp \in BOOLEAN /\ masked \in BOOLEAN /\ stacksUp \in BOOLEAN
      /\ outages \in 0..MaxOutages /\ excuse \subseteq Excuse
  BY DEF BackupInv, BackupTypeOK
<1>s. \A s \in {"preparing", "stopping", "masking", "downing", "unpacking", "tidying", "raising",
                "rebooting", "unmasking", "starting", "rescuing"} : s \in Script /\ s \notin Amid
  BY DEF Script, Before, After, Rescue, Amid
<1>0. CASE FailsQuietly(r) \/ RebootFails(r)
  <2>1. /\ Restoring(r) /\ rstep[r] \notin Amid /\ Outage
        /\ excuse \subseteq excuse' /\ excuse' \subseteq excuse \cup {"stranded", "unraised"}
        /\ UNCHANGED <<system, clock, store, backups, rid, unpacked, spoiled>>
    BY <1>0, <1>s, Tolerable DEF FailsQuietly, RebootFails, Restoring
  <2>2. PICK s \in {"masking", "downing", "unpacking", "rebooting", "rescuing", "done"} : GoOn(r, s)
    BY <1>0, Tolerable DEF FailsQuietly, RebootFails
  <2>3. s \in Script \cup {"done"} /\ s \notin Amid
    BY <1>s DEF Amid
  <2>4. excuse' \subseteq Excuse /\ outages' \in 0..MaxOutages
    BY <1>t, <2>1, Outages DEF Excuse, BackupInv
  <2>5. QED
    BY <1>t, <2>1, <2>2, <2>3, <2>4, QuietScript
<1> SUFFICES ASSUME ~FailsQuietly(r), ~RebootFails(r) PROVE BackupInv'
  BY <1>0
<1>1. Restoring(r) /\ rstep[r] \notin Amid
  BY <1>s DEF Quiet, Restoring, Prepare, Mask, ComposeDown, Tidy, RestartStacks, Unmask, StartService
<1>2. PICK s \in {"stopping", "downing", "unpacking", "raising", "rebooting", "done", "starting", "rescuing"} :
        GoOn(r, s)
  <2>1. CASE RestartStacks(r)
    <3>1. GoOn(r, IF rstep[r] = "raising" THEN "rebooting" ELSE "done")
      BY <2>1 DEF RestartStacks
    <3>2. CASE rstep[r] = "raising"
      BY <3>1, <3>2
    <3>3. CASE rstep[r] # "raising"
      BY <3>1, <3>3
    <3>4. QED
      BY <3>2, <3>3
  <2>2. QED
    BY <2>1 DEF Quiet, Prepare, Mask, ComposeDown, Tidy, Unmask, StartService
<1>3. s \in Script \cup {"done"} /\ s \notin Amid
  BY <1>s DEF Amid
<1>4. /\ UNCHANGED <<has, live, newest, clock, archive, listing, ever, bstep, bid, members, gathered, rid,
                     spoiled, outages>>
      /\ unpacked' \in {unpacked, [unpacked EXCEPT ![rid[r]] = Absent]}
  BY DEF Quiet, Prepare, Mask, ComposeDown, Tidy, RestartStacks, Unmask, StartService
<1>5. serviceUp' \in BOOLEAN /\ masked' \in BOOLEAN /\ stacksUp' \in BOOLEAN
  BY <1>t DEF Quiet, Prepare, Mask, ComposeDown, Tidy, RestartStacks, Unmask, StartService
<1>6. excuse \subseteq excuse' /\ excuse' \subseteq excuse \cup {"stranded"}
  BY DEF Quiet, Prepare, Mask, ComposeDown, Tidy, RestartStacks, Unmask, StartService
<1>7. excuse' \subseteq Excuse
  BY <1>t, <1>6 DEF Excuse
<1>8. QED
  BY <1>t, <1>1, <1>2, <1>3, <1>4, <1>5, <1>6, <1>7, QuietScript

LEMMA UnpackStep ==
    ASSUME BackupRestoreAssumption, BackupInv, NEW r \in Restores, Unpack(r) PROVE BackupInv'
<1> USE DEF system, store, backups
<1>1. /\ rstep[r] = "unpacking" /\ Restoring(r) /\ rid[r] \in Id
      /\ archive \in [Id -> Contents \cup {Absent, Broken}] /\ unpacked \in [Id -> Contents \cup {Absent}]
      /\ live \in Contents /\ excuse \subseteq Excuse
      /\ serviceUp \in BOOLEAN /\ masked \in BOOLEAN /\ stacksUp \in BOOLEAN /\ outages \in 0..MaxOutages
  BY DEF Unpack, Restoring, Script, Before, BackupInv, BackupTypeOK
<1>2. UNCHANGED <<has, live, newest, clock, serviceUp, masked, stacksUp, archive, listing, ever,
                  bstep, bid, members, gathered, rid, spoiled, outages>>
  BY DEF Unpack
<1>3. CASE archive[rid[r]] \in {Absent, Broken}
  BY <1>1, <1>2, <1>3, FailsStep DEF Unpack
<1>4. CASE archive[rid[r]] \notin {Absent, Broken}
  <2>1. /\ unpacked' = [unpacked EXCEPT ![rid[r]] = archive[rid[r]]] /\ archive[rid[r]] \in Contents
        /\ GoOn(r, "wiping") /\ excuse' = excuse
    BY <1>1, <1>4 DEF Unpack
  <2>2. /\ unpacked' \in [Id -> Contents \cup {Absent}] /\ unpacked'[rid[r]] = archive[rid[r]]
        /\ \A i \in Id \ {rid[r]} : unpacked'[i] = unpacked[i]
    BY <1>1, <2>1
  <2>3. /\ "wiping" \in Script \cup {"done"} /\ "wiping" \in Amid /\ "unpacking" \notin Amid
        /\ "wiping" \notin Copied /\ "wiping" \notin Settled
    BY DEF Script, Before, Amid, Copied, Settled
  <2>4. ASSUME Clean' PROVE Replaced(r, "wiping", live', unpacked'[rid[r]])
    <3>1. Clean
      BY <2>1, <2>4 DEF Clean
    <3>2. \A p \in has[newest] : live[p] # Lost
      BY <1>1, <2>3, <3>1, Alone, Phases DEF Replaced
    <3>3. rid[r] \notin spoiled => Sound(archive[rid[r]])
      BY <1>1, <2>1, <3>1 DEF BackupInv, RestoreInv
    <3>4. /\ \A p : "wiping" # Refill(p)
          /\ "wiping" # "loading"
      BY Phases
    <3>5. QED
      BY <1>2, <2>2, <2>3, <3>2, <3>3, <3>4 DEF Replaced
  <2>5. QED
    BY <1>1, <1>2, <2>1, <2>2, <2>3, <2>4, ScriptStep
<1>5. QED
  BY <1>3, <1>4

\* A step that replaces a part of the system by something.
LEMMA ReplacingStep ==
    ASSUME BackupRestoreAssumption, BackupInv, NEW r \in Restores, Restoring(r),
           NEW s \in Script \cup {"done"}, GoOn(r, s),
           NEW p \in Part, NEW v \in Content, live' = [live EXCEPT ![p] = v],
           UNCHANGED <<has, newest, clock, serviceUp, masked, archive, listing, ever,
                       bstep, bid, members, gathered, rid, unpacked, spoiled, outages>>,
           stacksUp' \in BOOLEAN, excuse \subseteq excuse', excuse' \subseteq Excuse,
           Clean' => Replaced(r, s, live', unpacked[rid[r]])
    PROVE  BackupInv'
<1>1. live' \in Contents
  BY LivePart DEF BackupInv
<1>2. /\ serviceUp' \in BOOLEAN /\ masked' \in BOOLEAN
      /\ unpacked' \in [Id -> Contents \cup {Absent}] /\ outages' \in 0..MaxOutages
  BY DEF BackupInv, BackupTypeOK
<1>3. QED
  BY <1>1, <1>2, ScriptStep

LEMMA WipeStep ==
    ASSUME BackupRestoreAssumption, BackupInv, NEW r \in Restores, Wipe(r) PROVE BackupInv'
<1>1. /\ rstep[r] = "wiping" /\ Restoring(r) /\ live \in Contents /\ excuse \subseteq Excuse
      /\ "copying" \in Script \cup {"done"} /\ "copying" \in Amid /\ "copying" \notin Copied
      /\ "wiping" \notin Copied /\ "data" \in Part /\ Lost \in Content /\ stacksUp \in BOOLEAN
  BY DEF Wipe, Restoring, Script, Before, Amid, Copied, Part, Content, BackupInv, BackupTypeOK
<1>2. /\ GoOn(r, "copying") /\ live' = [live EXCEPT !["data"] = Lost]
      /\ UNCHANGED <<has, newest, clock, serviceUp, masked, stacksUp, archive, listing, ever,
                     bstep, bid, members, gathered, rid, unpacked, spoiled, excuse, outages>>
  BY <1>1, DotExcepts DEF Wipe, store, backups
<1>3. ASSUME Clean' PROVE Replaced(r, "copying", live', unpacked[rid[r]])
  <2>1. Clean
    BY <1>2, <1>3 DEF Clean
  <2>2. \A p \in has[newest] : live'[p] = live[p]
    BY <1>1, <1>2, LivePart, Others DEF BackupInv
  <2>3. Replaced(r, "wiping", live, unpacked[rid[r]])
    BY <1>1, <2>1, Alone
  <2>4. QED
    BY <1>1, <2>2, <2>3, Phases DEF Replaced
<1>4. QED
  BY <1>1, <1>2, <1>3, ReplacingStep

LEMMA CopyDataStep ==
    ASSUME BackupRestoreAssumption, BackupInv, NEW r \in Restores, CopyData(r) PROVE BackupInv'
<1>1. /\ rstep[r] = "copying" /\ Restoring(r) /\ live \in Contents /\ excuse \subseteq Excuse
      /\ "clearing" \in Script \cup {"done"} /\ "clearing" \in Amid /\ "clearing" \notin Settled
      /\ "copying" \notin Copied /\ "data" \in Part
      /\ Source(r) \in Contents \cup {Absent} /\ outages \in 0..MaxOutages /\ stacksUp \in BOOLEAN
  BY DEF CopyData, Restoring, Script, Amid, Copied, Settled, Part, BackupInv, BackupTypeOK, Source
<1>2. UNCHANGED <<has, newest, clock, serviceUp, masked, stacksUp, archive, listing, ever,
                  bstep, bid, members, gathered, rid, unpacked, spoiled, outages>>
  BY DEF CopyData, store, backups
<1>3. CASE Source(r) = Absent
  BY <1>1, <1>2, <1>3, FailsStep DEF CopyData
<1>4. CASE Source(r) # Absent
  <2> DEFINE v == Source(r)["data"]
  <2>1. Source(r) \in Contents /\ Source(r).data = v /\ v \in Content
    BY <1>1, <1>4, Dots
  <2>2. GoOn(r, "clearing") /\ live' = [live EXCEPT !["data"] = v] /\ excuse' = excuse
    BY <1>1, <1>4, <2>1, DotExcepts DEF CopyData
  <2>3. live'["data"] = v /\ \A p \in has[newest] : live'[p] = live[p]
    BY <1>1, <2>1, <2>2, LivePart, Others DEF BackupInv
  <2>4. ASSUME Clean' PROVE Replaced(r, "clearing", live', unpacked[rid[r]])
    <3>1. Clean
      BY <2>2, <2>4 DEF Clean
    <3>2. Replaced(r, "copying", live, unpacked[rid[r]])
      BY <1>1, <3>1, Alone
    <3>3. \A q : "copying" # Refill(q) /\ "clearing" # Refill(q)
      BY Phases
    <3>4. "clearing" # "loading" /\ "copying" \in Amid
      BY DEF Amid
    <3>5. QED
      BY <1>1, <2>1, <2>3, <3>2, <3>3, <3>4 DEF Replaced, Source
  <2> HIDE DEF v
  <2>5. QED
    BY <1>1, <1>2, <2>1, <2>2, <2>4, ReplacingStep
<1>5. QED
  BY <1>3, <1>4

\* Where the two directories are replaced.
LEMMA Directories ==
    /\ Directory["clearing"] = "stacks" /\ Directory["replacing"] = "stacks"
    /\ Directory["emptying"] = "store" /\ Directory["refilling"] = "store"
    /\ Refill("stacks") = "replacing" /\ Refill("store") = "refilling"
    /\ {"clearing", "replacing"} \cap Settled = {} /\ {"emptying", "refilling", "loading"} \subseteq Settled
    /\ {"clearing", "replacing", "emptying", "refilling", "loading"} \subseteq Copied
BY DEF Directory, Refill, Settled, Copied

\* What the archive does not have is left alone; what it has is cleared to be put back.
LEMMA ClearAsideStep ==
    ASSUME BackupRestoreAssumption, BackupInv, NEW r \in Restores, ClearAside(r) PROVE BackupInv'
<1> DEFINE p == Directory[rstep[r]]
           next == IF p = "stacks" THEN "emptying" ELSE "loading"
<1>1. /\ rstep[r] \in {"clearing", "emptying"} /\ Restoring(r) /\ live \in Contents
      /\ excuse \subseteq Excuse /\ excuse' = excuse /\ stacksUp \in BOOLEAN
      /\ Source(r) \in Contents \cup {Absent} /\ outages \in 0..MaxOutages
  BY DEF ClearAside, Restoring, Script, Amid, BackupInv, BackupTypeOK, Source
<1>2. UNCHANGED <<has, newest, clock, serviceUp, masked, stacksUp, archive, listing, ever,
                  bstep, bid, members, gathered, rid, unpacked, spoiled, excuse, outages>>
  BY DEF ClearAside, store, backups
<1>3. Clean' => Clean /\ Replaced(r, rstep[r], live, Source(r))
  BY <1>1, Alone DEF Clean, Source
<1>4. /\ p \in {"stacks", "store"} /\ p \in Part /\ Lost \in Content
      /\ rstep[r] = IF p = "stacks" THEN "clearing" ELSE "emptying"
  BY <1>1, Directories, Others DEF BackupInv
<1>5. rstep[r] \in Copied /\ \A q : rstep[r] # Refill(q)
  BY <1>1 DEF Copied, Refill
<1>6. CASE Source(r) = Absent \/ Source(r)[p] = Lost
  <2>1. GoOn(r, next) /\ live' = live
    BY <1>6 DEF ClearAside
  <2>2. live' = [live EXCEPT ![p] = live[p]] /\ live[p] \in Content
    BY <1>1, <1>4, <2>1 DEF Contents
  <2>3. next \in Script \cup {"done"} /\ next \in Amid /\ next \in Copied
    BY Directories, Phases
  <2>4. ASSUME Clean' PROVE Replaced(r, next, live', unpacked[rid[r]])
    <3>1. \A q \in has[newest] : live'[q] # Lost
      BY <1>3, <1>5, <2>1, <2>4 DEF Replaced
    <3>2. ASSUME rid[r] \notin spoiled
          PROVE  /\ Source(r) \in Contents /\ Sound(Source(r)) /\ live'["data"] = Source(r)["data"]
                 /\ Source(r)[p] = Lost
                 /\ rstep[r] = "emptying" => Given(live, Source(r), "stacks")
      BY <1>3, <1>5, <1>6, <2>1, <2>4, <3>2, Directories DEF Replaced, BackupRestoreAssumption
    <3>3. ASSUME rid[r] \notin spoiled
          PROVE  /\ Given(live', Source(r), "stacks")
                 /\ next = "loading" => Given(live', Source(r), "store")
      BY <1>4, <2>1, <3>2, <3>3 DEF Given
    <3>4. \A q : next # Refill(q)
      BY Phases
    <3> HIDE DEF next
    <3>5. QED
      BY <2>3, <3>1, <3>2, <3>3, <3>4 DEF Replaced, Source
  <2> HIDE DEF p, next
  <2>5. QED
    BY <1>1, <1>2, <1>4, <2>1, <2>2, <2>3, <2>4, ReplacingStep
<1>7. CASE ~(Source(r) = Absent \/ Source(r)[p] = Lost)
  <2>1. GoOn(r, Refill(p)) /\ live' = [live EXCEPT ![p] = Lost]
    BY <1>7 DEF ClearAside, Refill
  <2>2. /\ live'["data"] = live["data"] /\ \A q \in Part \ {p} : live'[q] = live[q]
    BY <1>1, <1>4, <2>1, LivePart, Others DEF BackupInv
  <2>3. Refill(p) \in Script \cup {"done"} /\ Refill(p) \in Copied /\ Refill(p) \in Amid
    BY Phases
  <2>4. ASSUME Clean' PROVE Replaced(r, Refill(p), live', unpacked[rid[r]])
    <3>1. \A q \in has[newest] : live'[q] # Lost \/ Refill(p) = Refill(q)
      <4>1. \A q \in has[newest] : live[q] # Lost
        BY <1>3, <1>5, <2>4 DEF Replaced
      <4>2. has[newest] \subseteq Part
        BY Others DEF BackupInv
      <4>3. QED
        BY <1>1, <1>7, <2>2, <4>1, <4>2
    <3>0. \A q \in Optional : Refill(p) = Refill(q) => Source(r) \in Contents /\ Source(r)[q] # Lost
      <4>1. \A q \in Optional : Refill(p) = Refill(q) => p = q
        BY <1>4, Directories, Others DEF BackupInv
      <4>2. QED
        BY <1>1, <1>7, <4>1
    <3>2. ASSUME rid[r] \notin spoiled
          PROVE  /\ Source(r) \in Contents /\ Sound(Source(r)) /\ live'["data"] = Source(r)["data"]
                 /\ rstep[r] = "emptying" => Given(live, Source(r), "stacks")
      BY <1>3, <1>5, <2>2, <2>4, <3>2, Directories DEF Replaced
    <3>3. ASSUME rid[r] \notin spoiled, Refill(p) \in Settled PROVE Given(live', Source(r), "stacks")
      <4>1. p = "store" /\ rstep[r] = "emptying" /\ "stacks" \in Part \ {p}
        BY <1>4, <3>3, Directories, Others DEF BackupInv
      <4>2. QED
        BY <2>2, <3>2, <3>3, <4>1 DEF Given
    <3>4. Refill(p) # "loading"
      BY DEF Refill
    <3>5. QED
      BY <2>3, <3>0, <3>1, <3>2, <3>3, <3>4 DEF Replaced, Source
  <2> HIDE DEF p, next
  <2>5. QED
    BY <1>1, <1>2, <1>4, <2>1, <2>3, <2>4, ReplacingStep
<1>8. QED
  BY <1>6, <1>7

LEMMA CopyBackAsideStep ==
    ASSUME BackupRestoreAssumption, BackupInv, NEW r \in Restores, CopyBackAside(r) PROVE BackupInv'
<1> DEFINE p == Directory[rstep[r]]
           next == IF p = "stacks" THEN "emptying" ELSE "loading"
<1>1. /\ rstep[r] \in {"replacing", "refilling"} /\ Restoring(r) /\ live \in Contents
      /\ excuse \subseteq Excuse /\ stacksUp \in BOOLEAN
      /\ Source(r) \in Contents \cup {Absent} /\ outages \in 0..MaxOutages
  BY DEF CopyBackAside, Restoring, Script, Amid, BackupInv, BackupTypeOK, Source
<1>2. UNCHANGED <<has, newest, clock, serviceUp, masked, archive, listing, ever,
                  bstep, bid, members, gathered, rid, unpacked, spoiled, outages>>
  BY DEF CopyBackAside, store, backups
<1>3. CASE Source(r) = Absent
  BY <1>1, <1>2, <1>3, FailsStep DEF CopyBackAside
<1>4. CASE Source(r) # Absent
  <2> DEFINE v == Source(r)[p]
  <2>0. /\ p \in {"stacks", "store"} /\ p \in Part /\ rstep[r] = Refill(p)
    BY <1>1, Directories, Others DEF BackupInv
  <2>1. Source(r) \in Contents /\ v \in Content
    BY <1>1, <1>4, <2>0, Others DEF BackupInv
  <2>2. /\ GoOn(r, next) /\ live' = [live EXCEPT ![p] = v] /\ excuse' = excuse
        /\ stacksUp' \in BOOLEAN
    BY <1>1, <1>4 DEF CopyBackAside
  <2>3. live'[p] = v /\ live'["data"] = live["data"] /\ \A q \in Part \ {p} : live'[q] = live[q]
    BY <1>1, <2>0, <2>1, <2>2, LivePart, Others DEF BackupInv
  <2>4. next \in Script \cup {"done"} /\ next \in Amid /\ next \in Copied
    BY Directories, Phases
  <2>5. ASSUME Clean' PROVE Replaced(r, next, live', unpacked[rid[r]])
    <3>1. Replaced(r, rstep[r], live, Source(r))
      BY <1>1, <2>2, <2>5, Alone DEF Clean, Source
    <3>2. \A q \in has[newest] : live'[q] # Lost
      <4>1. ASSUME NEW q \in has[newest], q # p PROVE live'[q] # Lost
        <5>1. q \in Part \ {p} /\ q \in {"stacks", "store"}
          BY <4>1, Others DEF BackupInv
        <5>2. Refill(q) # Refill(p)
          BY <2>0, <4>1, <5>1, Directories
        <5>3. QED
          BY <2>0, <2>3, <3>1, <5>1, <5>2 DEF Replaced
      <4>2. live'[p] # Lost
        BY <2>0, <2>3, <3>1, Others DEF Replaced, BackupInv
      <4>3. QED
        BY <4>1, <4>2
    <3>3. ASSUME rid[r] \notin spoiled
          PROVE  /\ Sound(Source(r)) /\ live'["data"] = Source(r)["data"]
                 /\ p = "store" => Given(live, Source(r), "stacks")
      BY <1>1, <2>0, <2>1, <2>3, <3>1, <3>3, Directories DEF Replaced
    <3>4. ASSUME rid[r] \notin spoiled
          PROVE  /\ Given(live', Source(r), "stacks")
                 /\ next = "loading" => Given(live', Source(r), "store")
      <4>1. "stacks" \in Part
        BY Others DEF BackupInv
      <4>2. QED
        BY <2>0, <2>3, <3>3, <3>4, <4>1 DEF Given
    <3>5. \A q : next # Refill(q)
      BY Phases
    <3> HIDE DEF next
    <3>6. QED
      BY <2>1, <2>4, <3>2, <3>3, <3>4, <3>5 DEF Replaced, Source
  <2> HIDE DEF p, next, v
  <2>6. QED
    BY <1>1, <1>2, <2>0, <2>1, <2>2, <2>4, <2>5, ReplacingStep
<1>5. QED
  BY <1>3, <1>4

\* With the database the system is all of the backup.
LEMMA LoadDatabaseStep ==
    ASSUME BackupRestoreAssumption, BackupInv, NEW r \in Restores, LoadDatabase(r) PROVE BackupInv'
<1>1. /\ rstep[r] = "loading" /\ Restoring(r) /\ live \in Contents /\ excuse \subseteq Excuse
      /\ "tidying" \in Script \cup {"done"} /\ "tidying" \notin Amid
      /\ "database" \in Part /\ stacksUp \in BOOLEAN
      /\ Source(r) \in Contents \cup {Absent} /\ outages \in 0..MaxOutages
  BY DEF LoadDatabase, Restoring, Script, Amid, After, Part, BackupInv, BackupTypeOK, Source
<1>2. UNCHANGED <<has, newest, clock, serviceUp, masked, stacksUp, archive, listing, ever,
                  bstep, bid, members, gathered, rid, unpacked, spoiled, outages>>
  BY DEF LoadDatabase, store, backups
<1>3. CASE Source(r) = Absent
  BY <1>1, <1>2, <1>3, FailsStep DEF LoadDatabase
<1>4. CASE Source(r) # Absent
  <2> DEFINE v == Source(r)["database"]
  <2>1. Source(r) \in Contents /\ Source(r).database = v /\ v \in Content
    BY <1>1, <1>4, Dots
  <2>2. /\ GoOn(r, "tidying") /\ live' = [live EXCEPT !["database"] = v]
        /\ excuse' = IF rid[r] \in spoiled THEN excuse \cup {"cut"} ELSE excuse
    BY <1>1, <1>4, <2>1, DotExcepts DEF LoadDatabase
  <2>3. /\ live'["database"] = v /\ \A q \in Part \ {"database"} : live'[q] = live[q]
    BY <1>1, <2>1, <2>2, LivePart DEF BackupInv
  <2>4. ASSUME Clean' PROVE Replaced(r, "tidying", live', unpacked[rid[r]])
    <3>1. Clean /\ rid[r] \notin spoiled
      BY <2>2, <2>4 DEF Clean
    <3>2. Replaced(r, "loading", live, Source(r))
      BY <1>1, <3>1, Alone DEF Source
    <3>3. /\ Sound(Source(r)) /\ live["data"] = Source(r)["data"]
          /\ Given(live, Source(r), "stacks") /\ Given(live, Source(r), "store")
      BY <2>1, <3>1, <3>2, Phases DEF Replaced
    <3>4. /\ has[newest] \subseteq Part \ {"database"} /\ "data" \in Part \ {"database"}
          /\ v # Lost => has[v] \subseteq {"stacks", "store"} /\ has[v] \subseteq Part \ {"database"}
      <4>1. /\ has[newest] \subseteq {"stacks", "store"}
            /\ Source(r)["database"] # Lost => has[Source(r)["database"]] \subseteq {"stacks", "store"}
        BY <2>1, Others DEF BackupInv
      <4>2. Part \ {"database"} = {"data", "stacks", "store"}
        BY Others DEF BackupInv
      <4>3. QED
        BY <4>1, <4>2
    <3>5. Sound(live')
      <4>1. v # Lost /\ live'["data"] = v
        BY <2>3, <3>3, <3>4 DEF Sound
      <4>2. \A q \in has[v] : live'[q] = v
        <5> SUFFICES ASSUME NEW q \in has[v] PROVE live'[q] = v
          OBVIOUS
        <5>1. Source(r)[q] = v /\ q \in {"stacks", "store"}
          BY <3>3, <3>4, <4>1 DEF Sound
        <5>2. live[q] = v
          BY <3>3, <4>1, <5>1 DEF Given
        <5>3. QED
          BY <2>3, <3>4, <4>1, <5>2
      <4>3. QED
        BY <2>3, <4>1, <4>2 DEF Sound
    <3>6. \A q \in has[newest] : live'[q] # Lost
      <4>1. \A q : Refill(q) # "loading"
        BY DEF Refill
      <4>2. QED
        BY <2>3, <3>2, <3>4, <4>1 DEF Replaced
    <3>7. "tidying" \notin Copied /\ "tidying" \notin Settled /\ "tidying" # "loading"
      BY DEF Copied, Settled
    <3>8. \A q : "tidying" # Refill(q)
      BY Phases
    <3>9. QED
      BY <3>3, <3>5, <3>6, <3>7, <3>8 DEF Replaced, Source
  <2>5. excuse \subseteq excuse' /\ excuse' \subseteq Excuse
    BY <1>1, <2>2 DEF Excuse
  <2> HIDE DEF v
  <2>6. QED
    BY <1>1, <1>2, <2>1, <2>2, <2>4, <2>5, ReplacingStep
<1>5. QED
  BY <1>3, <1>4

LEMMA StepFailsStep ==
    ASSUME BackupRestoreAssumption, BackupInv, NEW r \in Restores, StepFails(r) PROVE BackupInv'
<1>1. Restoring(r) /\ Fails(r)
  BY DEF StepFails, Restoring, Script, After
<1>2. outages' \in 0..MaxOutages /\ stacksUp' \in BOOLEAN
  BY Outages DEF StepFails, BackupInv, BackupTypeOK
<1>3. QED
  BY <1>1, <1>2, FailsStep DEF StepFails, system, store, backups

-------------------------------------------------------------------------------
(* What stops or starts the scripts *)

\* Backups and scripts end, one may go on; never amid a replacement without excuse.
LEMMA Interruption ==
    ASSUME BackupRestoreAssumption, BackupInv, BackupTypeOK',
           UNCHANGED <<has, live, newest, clock, archive, listing, ever, bid, members, gathered, rid, unpacked, spoiled>>,
           excuse \subseteq excuse',
           \A b \in Backups : bstep'[b] \in {bstep[b], "done"},
           \A q \in Restores : rstep'[q] \in Script =>
               rstep[q] \in Script /\ (rstep'[q] = rstep[q] \/ rstep'[q] = "masking"),
           Clean' => \A q \in Restores : rstep[q] \in Amid => rstep'[q] = rstep[q]
    PROVE  BackupInv'
<1>1. SavingInv'
  BY DEF BackupInv, SavingInv, Saving, Restoring
<1>2. IdsInv' /\ NewestCanBeRestored'
  BY DEF BackupInv, IdsInv, NewestCanBeRestored, Saving
<1>3. RestoreInv'
  <2> SUFFICES ASSUME Clean' PROVE RestoreInv'
    BY DEF RestoreInv
  <2>1. Clean
    BY DEF Clean
  <2>2. \A q, p \in Restores : rstep'[q] \in Script /\ rstep'[p] \in Script => q = p
    BY <2>1 DEF BackupInv, RestoreInv, Restoring
  <2>3. (\A q \in Restores : rstep'[q] \notin Amid) => Sound(live)
    BY <2>1 DEF BackupInv, RestoreInv
  <2>4. \A i \in Id \ spoiled : /\ archive[i] \in Contents => Sound(archive[i])
                                /\ unpacked[i] \in Contents => Sound(unpacked[i])
    BY <2>1 DEF BackupInv, RestoreInv
  <2>5. \A q \in Restores : rstep'[q] \in Copied => rstep'[q] = rstep[q]
    BY Phases DEF Copied
  <2>6. \A q \in Restores : rstep[q] \in Copied => rstep'[q] = rstep[q]
    BY Phases
  <2>7. /\ \A p \in has[newest] : live[p] # Lost \/ \E q \in Restores : rstep'[q] = Refill(p)
        /\ \A q \in Restores, p \in Optional :
              rstep'[q] = Refill(p) => Source(q) \in Contents /\ Source(q)[p] # Lost
    BY <2>1, <2>5, <2>6, Phases DEF BackupInv, RestoreInv
  <2>8. \A q \in Restores : rid[q] \notin spoiled =>
          /\ rstep'[q] \in Copied => Source(q) \in Contents /\ live["data"] = Source(q)["data"]
          /\ rstep'[q] \in Settled => Given(live, Source(q), "stacks")
          /\ rstep'[q] = "loading" => Given(live, Source(q), "store")
    BY <2>1, <2>5, Phases DEF BackupInv, RestoreInv
  <2>9. QED
    BY <2>2, <2>3, <2>4, <2>7, <2>8 DEF RestoreInv, Restoring, Source, Sound, Given
<1>4. QED
  BY <1>1, <1>2, <1>3 DEF BackupInv

LEMMA StopServiceStep ==
    ASSUME BackupRestoreAssumption, BackupInv, NEW r \in Restores, StopService(r) PROVE BackupInv'
<1>1. /\ rstep[r] = "stopping" /\ Restoring(r) /\ "stopping" \in Script /\ "masking" \in Script
      /\ "done" \notin Script /\ "asking" \notin Amid /\ "stopping" \notin Amid
  BY DEF StopService, Restoring, Script, Before, Amid, After, Rescue
<1>2. /\ serviceUp' = FALSE
      /\ UNCHANGED <<has, live, newest, clock, masked, stacksUp, archive, listing, ever, bid, members, gathered, rid,
                     unpacked, spoiled, excuse, outages>>
  BY DEF StopService, store
<1>3. bstep' = [b \in Backups |-> IF Saving(b) /\ b \notin Timed THEN "done" ELSE bstep[b]]
  BY DEF StopService, Served
<1>4. rstep' = [q \in Restores |-> IF q = r THEN "masking"
                                   ELSE IF rstep[q] = "asking" THEN "done" ELSE rstep[q]]
  BY DEF StopService
<1>5. /\ bstep' \in [Backups -> BStep] /\ \A b \in Backups : bstep'[b] \in {bstep[b], "done"}
  <2>1. bstep \in [Backups -> BStep]
    BY DEF BackupInv, BackupTypeOK, BStep
  <2>2. QED
    BY <1>3, <2>1 DEF BStep
<1>6. rstep' \in [Restores -> RStep]
  BY <1>1, <1>4 DEF BackupInv, BackupTypeOK, RStep
<1>7. \A q \in Restores : /\ rstep'[q] \in Script =>
                                rstep[q] \in Script /\ (rstep'[q] = rstep[q] \/ rstep'[q] = "masking")
                          /\ rstep[q] \in Amid => rstep'[q] = rstep[q]
  BY <1>1, <1>4
<1>8. BackupTypeOK'
  BY <1>2, <1>5, <1>6 DEF BackupInv, BackupTypeOK, BStep, RStep
<1>9. QED
  BY <1>2, <1>5, <1>7, <1>8, Interruption

LEMMA BootStep ==
    ASSUME BackupRestoreAssumption, BackupInv, PowerCut \/ \E r \in Restores : Reboot(r)
    PROVE  BackupInv'
<1>0. "done" \notin Script /\ "idle" \notin Script /\ Amid \subseteq Script
  BY DEF Script, Before, Amid, After, Rescue
<1>1. /\ BootUp
      /\ UNCHANGED <<has, live, newest, clock, stacksUp, archive, listing, ever, bid, members, gathered, rid,
                     unpacked, spoiled>>
  BY DEF PowerCut, Reboot, store
<1>2. bstep' \in [Backups -> BStep] /\ \A b \in Backups : bstep'[b] \in {bstep[b], "done"}
  <2>1. bstep \in [Backups -> BStep]
    BY DEF BackupInv, BackupTypeOK, BStep
  <2>2. QED
    BY <1>1, <2>1 DEF BStep, BootUp
<1>3. rstep' \in [Restores -> RStep] /\ \A q \in Restores : rstep'[q] \notin Script
  BY <1>0, <1>1 DEF BootUp, RStep
<1>4. excuse \subseteq excuse' /\ excuse' \subseteq Excuse /\ outages' \in 0..MaxOutages
  <2>1. CASE PowerCut
    <3>1. outages' \in 0..MaxOutages
      BY <2>1, Outages DEF PowerCut, BackupInv
    <3>2. QED
      BY <2>1, <3>1 DEF PowerCut, BackupInv, BackupTypeOK, Excuse
  <2>2. CASE \E r \in Restores : Reboot(r)
    BY <2>2 DEF Reboot, BackupInv, BackupTypeOK
  <2>3. QED
    BY <2>1, <2>2
<1>5. ASSUME Clean' PROVE \A q \in Restores : rstep[q] \notin Amid
  <2>1. Clean
    BY <1>4, <1>5 DEF Clean
  <2>2. CASE PowerCut
    <3>1. (\E q \in Restores : rstep[q] \in Amid) => "cut" \in excuse'
      BY <2>2 DEF PowerCut
    <3>2. QED
      BY <1>5, <3>1 DEF Clean
  <2>3. CASE \E r \in Restores : Reboot(r)
    <3>1. PICK r \in Restores : rstep[r] = "rebooting"
      BY <2>3 DEF Reboot
    <3>2. Restoring(r) /\ "rebooting" \notin Amid
      BY <3>1 DEF Restoring, Script, After, Amid
    <3>3. QED
      BY <1>0, <2>1, <3>1, <3>2, Alone
  <2>4. QED
    BY <2>2, <2>3
<1>6. BackupTypeOK'
  BY <1>1, <1>2, <1>3, <1>4 DEF BackupInv, BackupTypeOK, BStep, RStep, BootUp
<1>7. QED
  BY <1>1, <1>2, <1>3, <1>4, <1>5, <1>6, Interruption

LEMMA FindBackupStep ==
    ASSUME BackupRestoreAssumption, BackupInv, NEW r \in Restores, FindBackup(r) PROVE BackupInv'
<1>1. /\ UNCHANGED <<has, live, newest, clock, serviceUp, masked, stacksUp, archive, listing, ever,
                     bstep, bid, members, gathered, unpacked, spoiled, excuse, outages>>
      /\ GoOn(r, "asking")
  BY DEF FindBackup, system, store, backups
<1>2. /\ rstep' \in [Restores -> RStep]
      /\ rstep'[r] = "asking" /\ \A q \in Restores \ {r} : rstep'[q] = rstep[q]
  BY <1>1, GoesOn DEF BackupInv, RStep
<1>3. rid' \in [Restores -> Id] /\ \A q \in Restores \ {r} : rid'[q] = rid[q]
  BY DEF FindBackup, BackupInv, BackupTypeOK
<1>4. BackupTypeOK'
  BY <1>1, <1>2, <1>3 DEF BackupInv, BackupTypeOK, RStep
<1>5. "asking" \notin Script /\ "idle" \notin Amid /\ "asking" \notin Copied
  BY DEF Script, Before, Amid, After, Rescue, Copied
<1>6. SavingInv'
  BY <1>1, <1>2, <1>5 DEF BackupInv, SavingInv, Saving, Restoring
<1>7. IdsInv' /\ NewestCanBeRestored'
  BY <1>1 DEF BackupInv, IdsInv, NewestCanBeRestored, Saving
<1>8. ASSUME Clean' PROVE RestoreInv'
  <2>1. Clean
    BY <1>1, <1>8 DEF Clean
  <2>2. rstep[r] = "idle"
    BY DEF FindBackup
  <2>3. (\A q \in Restores : rstep'[q] \notin Amid) => Sound(live)
    BY <1>2, <1>5, <2>1, <2>2 DEF BackupInv, RestoreInv
  <2>4. \A q, p \in Restores : rstep'[q] \in Script /\ rstep'[p] \in Script => q = p
    BY <1>2, <1>5, <2>1 DEF BackupInv, RestoreInv, Restoring
  <2>5. \A q \in Restores : rid'[q] \notin spoiled =>
          /\ rstep'[q] \in Copied =>
                unpacked[rid'[q]] \in Contents /\ live["data"] = unpacked[rid'[q]]["data"]
          /\ rstep'[q] \in Settled => Given(live, unpacked[rid'[q]], "stacks")
          /\ rstep'[q] = "loading" => Given(live, unpacked[rid'[q]], "store")
    BY <1>2, <1>3, <1>5, <2>1, Phases DEF BackupInv, RestoreInv, Source
  <2>8. /\ \A p \in has[newest] : live[p] # Lost \/ \E q \in Restores : rstep'[q] = Refill(p)
        /\ \A q \in Restores, p \in Optional :
              rstep'[q] = Refill(p) => unpacked[rid'[q]] \in Contents /\ unpacked[rid'[q]][p] # Lost
    <3>1. "idle" \notin Copied
      BY DEF Copied
    <3>2. QED
      BY <1>2, <1>3, <1>5, <2>1, <2>2, <3>1, Phases DEF BackupInv, RestoreInv, Source
  <2>6. \A i \in Id \ spoiled : /\ archive[i] \in Contents => Sound(archive[i])
                                /\ unpacked[i] \in Contents => Sound(unpacked[i])
    BY <2>1 DEF BackupInv, RestoreInv
  <2>7. QED
    BY <1>1, <2>3, <2>4, <2>5, <2>6, <2>8 DEF RestoreInv, Restoring, Source, Sound, Given
<1>9. QED
  BY <1>4, <1>6, <1>7, <1>8 DEF BackupInv, RestoreInv

\* The more is spoiled the less has to be shown.
LEMMA Spoiling ==
    ASSUME IdsInv, NewestCanBeRestored, spoiled \subseteq spoiled',
           UNCHANGED <<archive, listing, ever, bstep, bid>>
    PROVE  IdsInv' /\ NewestCanBeRestored'
BY DEF IdsInv, NewestCanBeRestored, Saving

LEMMA ScheduleStep ==
    ASSUME BackupRestoreAssumption, BackupInv, NEW r \in Restores, Schedule(r) PROVE BackupInv'
<1>1. /\ UNCHANGED <<has, live, newest, clock, serviceUp, masked, stacksUp, archive, listing, ever,
                     bstep, bid, members, gathered, rid, unpacked, outages>>
      /\ rstep[r] = "asking"
  BY DEF Schedule, system, store, backups
<1>0. /\ "preparing" \in Script /\ "preparing" \notin Amid /\ "asking" \notin Amid
      /\ "asking" \notin Script /\ "done" \notin Script /\ Amid \subseteq Script
      /\ Copied \subseteq Amid
  BY Phases DEF Script, Before, Amid, After, Rescue
<1>2. PICK s \in {"done", "preparing"} :
        /\ GoOn(r, s) /\ spoiled \subseteq spoiled' /\ spoiled' \subseteq spoiled \cup SavedNow
        /\ excuse \subseteq excuse' /\ excuse' \subseteq excuse \cup {"overlap"}
        /\ s = "preparing" => SavedNow \subseteq spoiled'
        /\ s = "preparing" /\ (\E q \in Restores \ {r} : Restoring(q)) => "overlap" \in excuse'
  <2>1. CASE archive[rid[r]] = Absent
    BY <2>1 DEF Schedule
  <2>2. CASE archive[rid[r]] # Absent
    BY <2>2 DEF Schedule
  <2>3. QED
    BY <2>1, <2>2
<1>3. /\ rstep' \in [Restores -> RStep]
      /\ rstep'[r] = s /\ \A q \in Restores \ {r} : rstep'[q] = rstep[q]
  BY <1>0, <1>2, GoesOn DEF BackupInv, RStep
<1>4. BackupTypeOK'
  <2>1. SavedNow \subseteq Id
    BY DEF SavedNow, BackupInv, BackupTypeOK
  <2>2. QED
    BY <1>1, <1>2, <1>3, <2>1 DEF BackupInv, BackupTypeOK, RStep, Excuse
<1>5. IdsInv' /\ NewestCanBeRestored'
  BY <1>1, <1>2, Spoiling DEF BackupInv
<1>6. SavingInv'
  <2>1. CASE s = "preparing"
    <3>1. \A b \in Backups : Saving(b) => bid[b] \in spoiled'
      BY <1>2, <2>1 DEF SavedNow
    <3>2. QED
      BY <1>1, <3>1 DEF SavingInv, Saving
  <2>2. CASE s = "done"
    BY <1>0, <1>1, <1>2, <1>3, <2>2 DEF BackupInv, SavingInv, Saving, Restoring
  <2>3. QED
    BY <1>2, <2>1, <2>2
<1>7. ASSUME Clean' PROVE RestoreInv'
  <2>1. Clean
    BY <1>2, <1>7 DEF Clean
  <2>2. \A q, p \in Restores : rstep'[q] \in Script /\ rstep'[p] \in Script => q = p
    <3>1. CASE s = "preparing"
      <4>1. \A q \in Restores \ {r} : rstep[q] \notin Script
        BY <1>2, <1>7, <3>1 DEF Clean, Restoring
      <4>2. QED
        BY <1>3, <4>1
    <3>2. CASE s = "done"
      BY <1>0, <1>3, <2>1, <3>2 DEF BackupInv, RestoreInv, Restoring
    <3>3. QED
      BY <1>2, <3>1, <3>2
  <2>3. (\A q \in Restores : rstep'[q] \notin Amid) => Sound(live)
    BY <1>0, <1>1, <1>3, <2>1 DEF BackupInv, RestoreInv
  <2>4. \A i \in Id \ spoiled' : /\ archive[i] \in Contents => Sound(archive[i])
                                 /\ unpacked[i] \in Contents => Sound(unpacked[i])
    BY <1>2, <2>1 DEF BackupInv, RestoreInv
  <2>5. \A q \in Restores : /\ rstep'[q] \in Copied => rstep'[q] = rstep[q]
                            /\ rstep[q] \in Copied => rstep'[q] = rstep[q]
    <3>1. "done" \notin Copied
      BY DEF Copied
    <3>2. QED
      BY <1>0, <1>1, <1>2, <1>3, <3>1
  <2>6. /\ \A p \in has[newest] : live[p] # Lost \/ \E q \in Restores : rstep'[q] = Refill(p)
        /\ \A q \in Restores, p \in Optional :
              rstep'[q] = Refill(p) => Source(q) \in Contents /\ Source(q)[p] # Lost
    <3>1. ASSUME NEW q \in Restores, NEW p PROVE rstep'[q] = Refill(p) <=> rstep[q] = Refill(p)
      <4>1. Refill(p) \in Copied
        BY Phases
      <4>2. rstep'[q] = Refill(p) => rstep'[q] = rstep[q]
        BY <2>5, <4>1
      <4>3. rstep[q] = Refill(p) => rstep'[q] = rstep[q]
        BY <2>5, <4>1
      <4>4. QED
        BY <4>2, <4>3
    <3>2. /\ \A p \in has[newest] : live[p] # Lost \/ \E q \in Restores : rstep[q] = Refill(p)
          /\ \A q \in Restores, p \in Optional :
                rstep[q] = Refill(p) => Source(q) \in Contents /\ Source(q)[p] # Lost
      BY <2>1 DEF BackupInv, RestoreInv
    <3>3. QED
      BY <3>1, <3>2
  <2>7. \A q \in Restores : rid[q] \notin spoiled' =>
          /\ rstep'[q] \in Copied => Source(q) \in Contents /\ live["data"] = Source(q)["data"]
          /\ rstep'[q] \in Settled => Given(live, Source(q), "stacks")
          /\ rstep'[q] = "loading" => Given(live, Source(q), "store")
    <3> SUFFICES ASSUME NEW q \in Restores, rid[q] \notin spoiled'
                 PROVE  /\ rstep'[q] \in Copied => Source(q) \in Contents /\ live["data"] = Source(q)["data"]
                        /\ rstep'[q] \in Settled => Given(live, Source(q), "stacks")
                        /\ rstep'[q] = "loading" => Given(live, Source(q), "store")
      OBVIOUS
    <3>1. rid[q] \notin spoiled
      BY <1>2
    <3>2. /\ rstep[q] \in Copied => Source(q) \in Contents /\ live["data"] = Source(q)["data"]
          /\ rstep[q] \in Settled => Given(live, Source(q), "stacks")
          /\ rstep[q] = "loading" => Given(live, Source(q), "store")
      BY <2>1, <3>1 DEF BackupInv, RestoreInv
    <3>3. CASE rstep'[q] \in Copied
      <4>1. rstep'[q] = rstep[q]
        BY <2>5, <3>3
      <4>2. QED
        BY <3>2, <4>1
    <3>4. CASE rstep'[q] \notin Copied
      BY <3>4, Phases
    <3>5. QED
      BY <3>3, <3>4
  <2>8. QED
    BY <1>1, <2>2, <2>3, <2>4, <2>6, <2>7 DEF RestoreInv, Restoring, Source, Sound, Given
<1>8. QED
  BY <1>4, <1>5, <1>6, <1>7 DEF BackupInv, RestoreInv

-------------------------------------------------------------------------------
(* Changes and backups *)

LEMMA ChangeStep ==
    ASSUME BackupRestoreAssumption, BackupInv, Change PROVE BackupInv'
<1>1. /\ newest < MaxChanges /\ newest' = newest + 1
      /\ live' = Version(newest') /\ spoiled' = spoiled \cup SavedNow
      /\ excuse' = IF \E r \in Restores : rstep[r] \in Amid THEN excuse \cup {"cut"} ELSE excuse
      /\ stacksUp' = (stacksUp \/ live.stacks = Lost)
      /\ UNCHANGED <<has, clock, serviceUp, masked, archive, listing, ever, bstep, bid, members, gathered,
                     rstep, rid, unpacked, outages>>
  BY DEF Change, store, backups, restores
<1>2. newest' \in 0..MaxChanges
  <2>1. newest \in 0..MaxChanges /\ MaxChanges \in Nat
    BY DEF BackupRestoreAssumption, BackupInv, BackupTypeOK
  <2>2. QED
    BY <1>1, <2>1
<1>3. live' \in Contents /\ Sound(live') /\ \A p \in has[newest'] : live'[p] # Lost
  BY <1>1, <1>2, Versions DEF BackupInv, BackupTypeOK
<1>4. SavedNow \subseteq Id /\ \A b \in Backups : Saving(b) => bid[b] \in SavedNow
  BY DEF SavedNow, BackupInv, BackupTypeOK
<1>5. BackupTypeOK'
  <2>1. excuse' \subseteq Excuse /\ stacksUp' \in BOOLEAN
    BY <1>1 DEF BackupInv, BackupTypeOK, Excuse
  <2>2. QED
    BY <1>1, <1>2, <1>3, <1>4, <2>1 DEF BackupInv, BackupTypeOK
<1>6. IdsInv' /\ NewestCanBeRestored'
  BY <1>1, Spoiling DEF BackupInv
<1>7. SavingInv'
  BY <1>1, <1>4 DEF SavingInv, Saving
<1>8. ASSUME Clean' PROVE RestoreInv'
  <2>1. Clean /\ \A r \in Restores : rstep[r] \notin Amid
    BY <1>1, <1>8 DEF Clean
  <2>2. \A i \in Id \ spoiled' : /\ archive[i] \in Contents => Sound(archive[i])
                                 /\ unpacked[i] \in Contents => Sound(unpacked[i])
    BY <1>1, <2>1 DEF BackupInv, RestoreInv
  <2>3. \A r, q \in Restores : Restoring(r) /\ Restoring(q) => r = q
    BY <2>1 DEF BackupInv, RestoreInv
  <2>4. \A r \in Restores : /\ rstep'[r] \notin Copied /\ rstep'[r] \notin Settled
                            /\ rstep'[r] # "loading" /\ \A p \in Optional : rstep'[r] # Refill(p)
    BY <1>1, <2>1, Phases
  <2>5. QED
    BY <1>1, <1>3, <2>2, <2>3, <2>4 DEF RestoreInv, Restoring, Sound
<1>9. QED
  BY <1>5, <1>6, <1>7, <1>8 DEF BackupInv, RestoreInv

\* Backups leave restores as they are, if what they save is of one moment or spoiled.
LEMMA RestoresStay ==
    ASSUME BackupInv, UNCHANGED <<has, live, newest, rstep, rid, unpacked, excuse>>, spoiled \subseteq spoiled',
           Clean => \A i \in Id \ spoiled' :
               archive'[i] \in Contents => archive'[i] = archive[i] \/ Sound(archive'[i])
    PROVE  RestoreInv'
<1> SUFFICES ASSUME Clean' PROVE RestoreInv'
  BY DEF RestoreInv
<1>1. Clean
  BY DEF Clean
<1>2. \A i \in Id \ spoiled' : /\ archive'[i] \in Contents => Sound(archive'[i])
                               /\ unpacked[i] \in Contents => Sound(unpacked[i])
  BY <1>1 DEF BackupInv, RestoreInv
<1>3. QED
  BY <1>1, <1>2 DEF BackupInv, RestoreInv, Restoring, Source, Sound, Given

LEMMA BeginStep ==
    ASSUME BackupRestoreAssumption, BackupInv, NEW b \in Backups, Begin(b) PROVE BackupInv'
<1>1. /\ bstep[b] = "idle" /\ bstep' = [bstep EXCEPT ![b] = "dumping"]
      /\ bid' = [bid EXCEPT ![b] = clock]
      /\ members' = [members EXCEPT ![b] = {p \in Optional : live[p] # Lost}]
      /\ spoiled \subseteq spoiled' /\ spoiled' \subseteq spoiled \cup {clock}
      /\ archive[clock] # Absent \/ clock \in SavedNow \/ (\E r \in Restores : Restoring(r))
            => clock \in spoiled'
      /\ UNCHANGED <<has, live, newest, serviceUp, masked, stacksUp, clock, archive, listing, ever, gathered,
                     rstep, rid, unpacked, excuse, outages>>
  BY DEF Begin, system, store, restores
<1>2. bstep \in [Backups -> BStep] /\ bid \in [Backups -> Id] /\ clock \in Id
  BY DEF BackupInv, BackupTypeOK, BStep
<1>3. /\ bstep' \in [Backups -> BStep] /\ bstep'[b] = "dumping"
      /\ bid' \in [Backups -> Id] /\ bid'[b] = clock
      /\ \A c \in Backups \ {b} : bstep'[c] = bstep[c] /\ bid'[c] = bid[c]
  BY <1>1, <1>2 DEF BStep
<1>0. /\ members' \in [Backups -> SUBSET Optional]
      /\ members'[b] = {p \in Optional : live[p] # Lost}
      /\ \A c \in Backups \ {b} : members'[c] = members[c]
  <2>1. members \in [Backups -> SUBSET Optional]
    BY DEF BackupInv, BackupTypeOK
  <2>2. {p \in Optional : live[p] # Lost} \in SUBSET Optional
    OBVIOUS
  <2> DEFINE m == {p \in Optional : live[p] # Lost}
  <2> HIDE DEF m
  <2>3. m \in SUBSET Optional /\ members' = [members EXCEPT ![b] = m]
    BY <1>1, <2>2 DEF m
  <2>4. members' \in [Backups -> SUBSET Optional] /\ members'[b] = m
        /\ \A c \in Backups \ {b} : members'[c] = members[c]
    BY <2>1, <2>3
  <2>5. QED
    BY <2>4 DEF m
<1>4. BackupTypeOK'
  BY <1>0, <1>1, <1>2, <1>3 DEF BackupInv, BackupTypeOK, BStep
<1>5. SavingInv'
  <2>1. ASSUME NEW c \in Backups, bstep'[c] \notin {"idle", "done"}, bid'[c] \notin spoiled'
        PROVE  /\ \A r \in Restores : rstep[r] \notin Script
               /\ bstep'[c] \in {"dumping", "stacks", "store"} => members'[c] = {p \in Optional : live[p] # Lost}
               /\ bstep'[c] \in {"stacks", "store", "packing"} => gathered[c]["database"] = live["database"]
               /\ bstep'[c] \in {"store", "packing"} => gathered[c]["stacks"] = live["stacks"]
               /\ bstep'[c] = "packing" => gathered[c]["store"] = live["store"]
    <3>1. CASE c = b
      BY <1>0, <1>1, <1>3, <2>1, <3>1 DEF Restoring
    <3>2. CASE c # b
      BY <1>0, <1>1, <1>3, <2>1, <3>2 DEF BackupInv, SavingInv, Saving, Restoring
    <3>3. QED
      BY <3>1, <3>2
  <2>2. QED
    BY <1>1, <2>1 DEF SavingInv, Saving, Restoring
<1>6. RestoreInv'
  BY <1>1, RestoresStay
<1>7. NewestCanBeRestored'
  BY <1>1 DEF BackupInv, NewestCanBeRestored
<1>8. IdsInv'
  <2>1. \A c \in Backups : Saving(c) => bid[c] \in SavedNow
    BY DEF SavedNow
  <2>2. \A c, d \in Backups :
          c # d /\ bstep'[c] \notin {"idle", "done"} /\ bstep'[d] \notin {"idle", "done"}
          /\ bid'[c] = bid'[d] => bid'[c] \in spoiled'
    BY <1>1, <1>3, <2>1 DEF BackupInv, IdsInv, Saving
  <2>3. clock \notin spoiled' => archive[clock] = Absent /\ clock \notin listing
    BY <1>1 DEF BackupInv, IdsInv, BackupRestoreAssumption
  <2>4. \A c \in Backups : bid'[c] \notin spoiled' =>
          /\ bstep'[c] \in {"dumping", "stacks", "store"} => archive[bid'[c]] = Absent
          /\ bstep'[c] \in {"dumping", "stacks", "store", "packing", "listing"} => bid'[c] \notin listing
          /\ bstep'[c] = "listing" => archive[bid'[c]] \in Contents
    BY <1>1, <1>3, <2>3 DEF BackupInv, IdsInv
  <2>5. QED
    BY <1>1, <2>2, <2>4 DEF BackupInv, IdsInv, Saving
<1>9. QED
  BY <1>4, <1>5, <1>6, <1>7, <1>8 DEF BackupInv

\* A backup goes on to its next step.
LEMMA GoesOnSaving ==
    ASSUME BackupTypeOK, NEW b \in Backups, NEW s \in BStep, bstep' = [bstep EXCEPT ![b] = s]
    PROVE  /\ bstep' \in [Backups -> BStep]
           /\ bstep'[b] = s /\ \A c \in Backups \ {b} : bstep'[c] = bstep[c]
BY DEF BackupTypeOK, BStep

\* Nobody else saves under the same id.
LEMMA OwnId ==
    ASSUME BackupInv, NEW b \in Backups, Saving(b), bid[b] \notin spoiled, NEW c \in Backups \ {b},
           bid[c] = bid[b]
    PROVE  bstep[c] \in {"idle", "done"}
BY DEF BackupInv, IdsInv, Saving

LEMMA DumpStep ==
    ASSUME BackupRestoreAssumption, BackupInv, NEW b \in Backups, Dump(b) PROVE BackupInv'
<1>1. /\ bstep[b] = "dumping" /\ bstep' = [bstep EXCEPT ![b] = "stacks"]
      /\ gathered' = [gathered EXCEPT ![b].database = live.database]
      /\ UNCHANGED <<has, live, newest, serviceUp, masked, stacksUp, clock, archive, listing, ever, bid,
                     members, rstep, rid, unpacked, spoiled, excuse, outages>>
  BY DEF Dump, system, store, restores
<1>2. /\ bstep' \in [Backups -> BStep] /\ bstep'[b] = "stacks"
      /\ \A c \in Backups \ {b} : bstep'[c] = bstep[c]
  BY <1>1, GoesOnSaving DEF BStep, BackupInv, Optional
<1>3. /\ gathered' \in [Backups -> Contents] /\ gathered'[b]["database"] = live["database"]
      /\ \A c \in Backups \ {b} : gathered'[c] = gathered[c]
  <2>1. gathered \in [Backups -> Contents] /\ live \in Contents
    BY DEF BackupInv, BackupTypeOK
  <2>2. live.database = live["database"] /\ live["database"] \in Content
    BY <2>1, Dots
  <2>3. [gathered[b] EXCEPT !.database = live.database] = [gathered[b] EXCEPT !["database"] = live["database"]]
    BY <2>1, <2>2, DotExcepts
  <2>4. gathered' = [gathered EXCEPT ![b] = [gathered[b] EXCEPT !["database"] = live["database"]]]
    BY <1>1, <2>1, <2>3
  <2>5. /\ [gathered[b] EXCEPT !["database"] = live["database"]] \in Contents
        /\ [gathered[b] EXCEPT !["database"] = live["database"]]["database"] = live["database"]
    BY <2>1, <2>2 DEF Contents, Part
  <2>6. QED
    BY <2>1, <2>4, <2>5
<1>4. BackupTypeOK'
  BY <1>1, <1>2, <1>3 DEF BackupInv, BackupTypeOK, BStep
<1>5. SavingInv'
  BY <1>1, <1>2, <1>3 DEF BackupInv, SavingInv, Saving, Restoring
<1>6. RestoreInv'
  BY <1>1, RestoresStay
<1>7. NewestCanBeRestored'
  BY <1>1 DEF BackupInv, NewestCanBeRestored
<1>8. IdsInv'
  BY <1>1, <1>2 DEF BackupInv, IdsInv, Saving
<1>9. QED
  BY <1>4, <1>5, <1>6, <1>7, <1>8 DEF BackupInv

LEMMA CopyAsideStep ==
    ASSUME BackupRestoreAssumption, BackupInv, NEW b \in Backups, CopyAside(b) PROVE BackupInv'
<1> DEFINE p == bstep[b]
           v == IF p \in members[b] THEN live[p] ELSE Lost
           next == IF p = "stacks" THEN "store" ELSE "packing"
<1>1. /\ p \in {"stacks", "store"} /\ bstep' = [bstep EXCEPT ![b] = next] /\ Saving(b)
      /\ gathered' = [gathered EXCEPT ![b][p] = v]
      /\ archive' = IF p = "stacks" THEN archive ELSE [archive EXCEPT ![bid[b]] = Broken]
      /\ UNCHANGED <<has, live, newest, serviceUp, masked, stacksUp, clock, listing, ever, bid, members,
                     rstep, rid, unpacked, spoiled, excuse, outages>>
  BY DEF CopyAside, system, restores, Optional, Saving
<1>2. /\ bstep' \in [Backups -> BStep] /\ bstep'[b] = next
      /\ \A c \in Backups \ {b} : bstep'[c] = bstep[c]
  BY <1>1, GoesOnSaving DEF BStep, BackupInv, Optional
<1>3. /\ gathered' \in [Backups -> Contents] /\ gathered'[b][p] = v
      /\ \A q \in Part \ {p} : gathered'[b][q] = gathered[b][q]
      /\ \A c \in Backups \ {b} : gathered'[c] = gathered[c]
  <2>1. gathered \in [Backups -> Contents] /\ live \in Contents
    BY DEF BackupInv, BackupTypeOK
  <2>2. p \in Part /\ v \in Content
    BY <1>1, <2>1, Others DEF BackupInv
  <2>3. gathered' = [gathered EXCEPT ![b] = [gathered[b] EXCEPT ![p] = v]]
    BY <1>1
  <2> HIDE DEF v, p
  <2>4. /\ [gathered[b] EXCEPT ![p] = v] \in Contents /\ [gathered[b] EXCEPT ![p] = v][p] = v
        /\ \A q \in Part \ {p} : [gathered[b] EXCEPT ![p] = v][q] = gathered[b][q]
    BY <2>1, <2>2 DEF Contents
  <2>5. QED
    BY <2>1, <2>3, <2>4
<1>4. /\ archive' \in [Id -> Contents \cup {Absent, Broken}] /\ bid[b] \in Id
      /\ archive'[bid[b]] = IF p = "stacks" THEN archive[bid[b]] ELSE Broken
      /\ \A i \in Id \ {bid[b]} : archive'[i] = archive[i]
      /\ Broken \notin Contents
  BY <1>1 DEF BackupInv, BackupTypeOK, BackupRestoreAssumption
<1>5. BackupTypeOK'
  BY <1>1, <1>2, <1>3, <1>4 DEF BackupInv, BackupTypeOK, BStep
<1>6. SavingInv'
  <2>0. {"database", "stacks", "store"} \subseteq Part
    BY Others DEF BackupInv
  <2>1. ASSUME NEW c \in Backups, bstep'[c] \notin {"idle", "done"}, bid[c] \notin spoiled
        PROVE  /\ \A r \in Restores : rstep[r] \notin Script
               /\ bstep'[c] \in {"dumping", "stacks", "store"} => members[c] = {q \in Optional : live[q] # Lost}
               /\ bstep'[c] \in {"stacks", "store", "packing"} => gathered'[c]["database"] = live["database"]
               /\ bstep'[c] \in {"store", "packing"} => gathered'[c]["stacks"] = live["stacks"]
               /\ bstep'[c] = "packing" => gathered'[c]["store"] = live["store"]
    <3>1. CASE c = b
      <4>1. /\ \A r \in Restores : rstep[r] \notin Script
            /\ members[b] = {q \in Optional : live[q] # Lost}
            /\ gathered[b]["database"] = live["database"]
            /\ p = "store" => gathered[b]["stacks"] = live["stacks"]
        BY <1>1, <2>1, <3>1 DEF BackupInv, SavingInv, Restoring
      <4>2. v = live[p]
        BY <1>1, <4>1, Others DEF BackupInv
      <4>3. gathered'[b]["database"] = live["database"]
        BY <1>1, <1>3, <2>0, <4>1
      <4>4. CASE p = "stacks"
        BY <1>2, <1>3, <3>1, <4>1, <4>2, <4>3, <4>4
      <4>5. CASE p = "store"
        <5>1. gathered'[b]["stacks"] = live["stacks"]
          BY <1>3, <2>0, <4>1, <4>5
        <5>2. QED
          BY <1>2, <1>3, <3>1, <4>1, <4>2, <4>3, <4>5, <5>1
      <4>6. QED
        BY <1>1, <4>4, <4>5
    <3>2. CASE c # b
      BY <1>2, <1>3, <2>1, <3>2 DEF BackupInv, SavingInv, Saving, Restoring
    <3>3. QED
      BY <3>1, <3>2
  <2>2. QED
    BY <1>1, <2>1 DEF SavingInv, Saving, Restoring
<1>7. RestoreInv'
  <2>1. \A i \in Id \ spoiled : archive'[i] \in Contents => archive'[i] = archive[i]
    BY <1>4
  <2>2. QED
    BY <1>1, <2>1, RestoresStay
<1>8. bid[b] \notin spoiled => archive[bid[b]] = Absent /\ bid[b] \notin listing
  BY <1>1 DEF BackupInv, IdsInv
<1>9. NewestCanBeRestored'
  <2> SUFFICES ASSUME \A i \in 1..Len(ever) : ever[i] \notin spoiled, NEW i \in 1..Len(ever), i <= Retention
               PROVE  ever[i] \in listing /\ archive'[ever[i]] \notin {Absent, Broken}
    BY <1>1 DEF NewestCanBeRestored
  <2>1. ever[i] \in listing /\ archive[ever[i]] \notin {Absent, Broken}
    BY DEF BackupInv, NewestCanBeRestored
  <2>2. ever[i] # bid[b] /\ ever[i] \in Id
    BY <1>8, <2>1 DEF BackupInv, BackupTypeOK
  <2>3. QED
    BY <1>4, <2>1, <2>2
<1>10. IdsInv'
  <2>1. \A c, d \in Backups :
          c # d /\ bstep'[c] \notin {"idle", "done"} /\ bstep'[d] \notin {"idle", "done"}
          /\ bid[c] = bid[d] => bid[c] \in spoiled
    BY <1>1, <1>2 DEF BackupInv, IdsInv, Saving
  <2>2. \A i \in listing \ spoiled : i \in Id /\ archive'[i] \in Contents
    BY <1>4, <1>8 DEF BackupInv, IdsInv, BackupTypeOK
  <2>3. ASSUME NEW c \in Backups, bid[c] \notin spoiled
        PROVE  /\ bstep'[c] \in {"dumping", "stacks", "store"} => archive'[bid[c]] = Absent
               /\ bstep'[c] \in {"dumping", "stacks", "store", "packing", "listing"} => bid[c] \notin listing
               /\ bstep'[c] = "listing" => archive'[bid[c]] \in Contents
    <3>1. CASE c = b
      <4>1. CASE p = "stacks"
        BY <1>2, <1>4, <1>8, <2>3, <3>1, <4>1
      <4>2. CASE p = "store"
        BY <1>2, <1>8, <2>3, <3>1, <4>2
      <4>3. QED
        BY <1>1, <4>1, <4>2
    <3>2. CASE c # b /\ bid[c] = bid[b]
      <4>1. bstep[c] \in {"idle", "done"}
        BY <1>1, <2>3, <3>2, OwnId
      <4>2. QED
        BY <1>2, <3>2, <4>1
    <3>3. CASE c # b /\ bid[c] # bid[b]
      BY <1>2, <1>4, <2>3, <3>3 DEF BackupInv, IdsInv, BackupTypeOK
    <3>4. QED
      BY <3>1, <3>2, <3>3
  <2>4. QED
    BY <1>1, <2>1, <2>2, <2>3 DEF BackupInv, IdsInv, Saving
<1>11. QED
  BY <1>5, <1>6, <1>7, <1>9, <1>10 DEF BackupInv

\* What is packed without a restore or a change in between is of one moment.
LEMMA PackStep ==
    ASSUME BackupRestoreAssumption, BackupInv, NEW b \in Backups, Pack(b) PROVE BackupInv'
<1> DEFINE packed == [gathered[b] EXCEPT !.data = live.data]
<1>1. /\ bstep[b] = "packing" /\ bstep' = [bstep EXCEPT ![b] = "listing"] /\ Saving(b)
      /\ gathered' = [gathered EXCEPT ![b] = [p \in Part |-> Lost]]
      /\ archive' = [archive EXCEPT ![bid[b]] = packed]
      /\ UNCHANGED <<has, live, newest, serviceUp, masked, stacksUp, clock, listing, ever, bid,
                     members, rstep, rid, unpacked, spoiled, excuse, outages>>
  BY DEF Pack, Saving, system, restores
<1>2. /\ bstep' \in [Backups -> BStep] /\ bstep'[b] = "listing"
      /\ \A c \in Backups \ {b} : bstep'[c] = bstep[c]
  BY <1>1, GoesOnSaving DEF BStep, BackupInv
<1>3. /\ gathered' \in [Backups -> Contents]
      /\ \A c \in Backups \ {b} : gathered'[c] = gathered[c]
  <2>1. [p \in Part |-> Lost] \in Contents
    BY DEF Contents, Content
  <2>2. QED
    BY <1>1, <2>1 DEF BackupInv, BackupTypeOK
<1>4. /\ packed \in Contents /\ packed["data"] = live["data"]
      /\ \A q \in Part \ {"data"} : packed[q] = gathered[b][q]
  <2>1. gathered[b] \in Contents /\ live \in Contents
    BY DEF BackupInv, BackupTypeOK
  <2>2. live.data = live["data"] /\ live["data"] \in Content
    BY <2>1, Dots
  <2>3. packed = [gathered[b] EXCEPT !["data"] = live["data"]]
    BY <2>1, <2>2, DotExcepts
  <2> HIDE DEF packed
  <2>4. QED
    BY <2>1, <2>2, <2>3 DEF Contents, Part
<1>5. ASSUME Clean, bid[b] \notin spoiled PROVE Sound(packed)
  <2>1. /\ \A r \in Restores : ~Restoring(r)
        /\ gathered[b]["database"] = live["database"] /\ gathered[b]["stacks"] = live["stacks"]
        /\ gathered[b]["store"] = live["store"]
    BY <1>1, <1>5 DEF BackupInv, SavingInv
  <2>2. Sound(live)
    BY <1>5, <2>1, Phases DEF BackupInv, RestoreInv, Restoring
  <2> HIDE DEF packed
  <2>3. /\ live \in Contents /\ live["database"] # Lost
        /\ has[live["database"]] \subseteq {"stacks", "store"}
    BY <2>2, Others DEF BackupInv, BackupTypeOK, Sound
  <2>4. \A q \in {"database", "data", "stacks", "store"} : packed[q] = live[q]
    BY <1>4, <2>1, Others DEF BackupInv
  <2>5. QED
    BY <2>2, <2>3, <2>4 DEF Sound
<1> HIDE DEF packed
<1>6. /\ archive' \in [Id -> Contents \cup {Absent, Broken}] /\ bid[b] \in Id
      /\ archive'[bid[b]] = packed /\ \A i \in Id \ {bid[b]} : archive'[i] = archive[i]
      /\ packed \notin {Absent, Broken}
  BY <1>1, <1>4 DEF BackupInv, BackupTypeOK, BackupRestoreAssumption
<1>7. BackupTypeOK'
  BY <1>1, <1>2, <1>3, <1>6 DEF BackupInv, BackupTypeOK, BStep
<1>8. SavingInv'
  BY <1>1, <1>2, <1>3 DEF BackupInv, SavingInv, Saving, Restoring
<1>9. RestoreInv'
  BY <1>1, <1>5, <1>6, RestoresStay
<1>10. NewestCanBeRestored'
  <2> SUFFICES ASSUME \A i \in 1..Len(ever) : ever[i] \notin spoiled, NEW i \in 1..Len(ever), i <= Retention
               PROVE  ever[i] \in listing /\ archive'[ever[i]] \notin {Absent, Broken}
    BY <1>1 DEF NewestCanBeRestored
  <2>1. ever[i] \in listing /\ archive[ever[i]] \notin {Absent, Broken} /\ ever[i] \in Id
    BY DEF BackupInv, NewestCanBeRestored, BackupTypeOK
  <2>2. QED
    BY <1>6, <2>1
<1>11. IdsInv'
  <2>0. bid[b] \notin spoiled => bid[b] \notin listing
    BY <1>1 DEF BackupInv, IdsInv
  <2>1. \A c, d \in Backups :
          c # d /\ bstep'[c] \notin {"idle", "done"} /\ bstep'[d] \notin {"idle", "done"}
          /\ bid[c] = bid[d] => bid[c] \in spoiled
    BY <1>1, <1>2 DEF BackupInv, IdsInv, Saving
  <2>2. \A i \in listing \ spoiled : i \in Id /\ archive'[i] \in Contents
    BY <1>4, <1>6 DEF BackupInv, IdsInv, BackupTypeOK
  <2>3. ASSUME NEW c \in Backups, bid[c] \notin spoiled
        PROVE  /\ bstep'[c] \in {"dumping", "stacks", "store"} => archive'[bid[c]] = Absent
               /\ bstep'[c] \in {"dumping", "stacks", "store", "packing", "listing"} => bid[c] \notin listing
               /\ bstep'[c] = "listing" => archive'[bid[c]] \in Contents
    <3>1. CASE c = b
      BY <1>2, <1>4, <1>6, <2>0, <2>3, <3>1
    <3>2. CASE c # b /\ bid[c] = bid[b]
      <4>1. bstep[c] \in {"idle", "done"}
        BY <1>1, <2>3, <3>2, OwnId
      <4>2. QED
        BY <1>2, <3>2, <4>1
    <3>3. CASE c # b /\ bid[c] # bid[b]
      BY <1>2, <1>6, <2>3, <3>3 DEF BackupInv, IdsInv, BackupTypeOK
    <3>4. QED
      BY <3>1, <3>2, <3>3
  <2>4. QED
    BY <1>1, <2>1, <2>2, <2>3 DEF BackupInv, IdsInv, Saving
<1>12. QED
  BY <1>7, <1>8, <1>9, <1>10, <1>11 DEF BackupInv

LEMMA WriteManifestStep ==
    ASSUME BackupRestoreAssumption, BackupInv, NEW b \in Backups, WriteManifest(b) PROVE BackupInv'
<1>1. /\ bstep[b] = "listing" /\ bstep' = [bstep EXCEPT ![b] = "pruning"] /\ Saving(b)
      /\ listing' = listing \cup {bid[b]} /\ ever' = <<bid[b]>> \o ever
      /\ UNCHANGED <<has, live, newest, serviceUp, masked, stacksUp, clock, archive, bid, members, gathered,
                     rstep, rid, unpacked, spoiled, excuse, outages>>
  BY DEF WriteManifest, Saving, system, restores
<1>2. /\ bstep' \in [Backups -> BStep] /\ bstep'[b] = "pruning"
      /\ \A c \in Backups \ {b} : bstep'[c] = bstep[c]
  BY <1>1, GoesOnSaving DEF BStep, BackupInv
<1>3. bid[b] \in Id /\ ever \in Seq(Id) /\ Len(ever) \in Nat
  BY DEF BackupInv, BackupTypeOK
<1>4. /\ ever' \in Seq(Id) /\ Len(ever') = Len(ever) + 1 /\ ever'[1] = bid[b]
      /\ \A i \in 1..Len(ever) : ever'[i + 1] = ever[i]
  <2>1. <<bid[b]>> \in Seq(Id) /\ Len(<<bid[b]>>) = 1 /\ <<bid[b]>>[1] = bid[b]
    BY <1>3
  <2>2. QED
    BY <1>1, <1>3, <2>1
<1>5. BackupTypeOK'
  BY <1>1, <1>2, <1>3, <1>4 DEF BackupInv, BackupTypeOK, BStep
<1>6. SavingInv'
  BY <1>1, <1>2 DEF BackupInv, SavingInv, Saving, Restoring
<1>7. RestoreInv'
  BY <1>1, RestoresStay
<1>8. bid[b] \notin spoiled => archive[bid[b]] \in Contents
  BY <1>1 DEF BackupInv, IdsInv
<1>9. NewestCanBeRestored'
  <2> SUFFICES ASSUME \A i \in 1..Len(ever') : ever'[i] \notin spoiled, NEW i \in 1..Len(ever'), i <= Retention
               PROVE  ever'[i] \in listing' /\ archive[ever'[i]] \notin {Absent, Broken}
    BY <1>1 DEF NewestCanBeRestored
  <2>1. CASE i = 1
    <3>1. bid[b] \notin spoiled
      BY <1>4, <2>1
    <3>2. QED
      BY <1>1, <1>4, <1>8, <2>1, <3>1 DEF BackupRestoreAssumption
  <2>2. CASE i # 1
    <3>1. i - 1 \in 1..Len(ever) /\ ever'[i] = ever[i - 1] /\ i - 1 <= Retention
      <4>1. i - 1 \in 1..Len(ever) /\ (i - 1) + 1 = i /\ i - 1 <= Retention
        BY <1>3, <1>4, <2>2 DEF BackupRestoreAssumption
      <4>2. QED
        BY <1>4, <4>1
    <3>2. \A k \in 1..Len(ever) : ever[k] \notin spoiled
      <4>1. \A k \in 1..Len(ever) : k + 1 \in 1..Len(ever')
        BY <1>3, <1>4
      <4>2. QED
        BY <1>4, <4>1
    <3>3. ever[i - 1] \in listing /\ archive[ever[i - 1]] \notin {Absent, Broken}
      BY <3>1, <3>2 DEF BackupInv, NewestCanBeRestored
    <3>4. QED
      BY <1>1, <3>1, <3>3
  <2>3. QED
    BY <2>1, <2>2
<1>10. IdsInv'
  <2>1. \A c, d \in Backups :
          c # d /\ bstep'[c] \notin {"idle", "done"} /\ bstep'[d] \notin {"idle", "done"}
          /\ bid[c] = bid[d] => bid[c] \in spoiled
    BY <1>1, <1>2 DEF BackupInv, IdsInv, Saving
  <2>2. ASSUME NEW i \in listing'
        PROVE  /\ \E n \in 1..Len(ever') : ever'[n] = i
               /\ i \notin spoiled => archive[i] \in Contents
    <3>1. CASE i = bid[b]
      <4>1. 1 \in 1..Len(ever')
        BY <1>3, <1>4
      <4>2. QED
        BY <1>4, <1>8, <3>1, <4>1
    <3>2. CASE i \in listing
      <4>1. PICK n \in 1..Len(ever) : ever[n] = i
        BY <3>2 DEF BackupInv, IdsInv
      <4>2. n + 1 \in 1..Len(ever') /\ ever'[n + 1] = i
        BY <1>3, <1>4, <4>1
      <4>3. i \notin spoiled => archive[i] \in Contents
        BY <3>2 DEF BackupInv, IdsInv
      <4>4. QED
        BY <4>2, <4>3
    <3>3. QED
      BY <1>1, <3>1, <3>2
  <2>3. ASSUME NEW c \in Backups, bid[c] \notin spoiled
        PROVE  /\ bstep'[c] \in {"dumping", "stacks", "store"} => archive[bid[c]] = Absent
               /\ bstep'[c] \in {"dumping", "stacks", "store", "packing", "listing"} => bid[c] \notin listing'
               /\ bstep'[c] = "listing" => archive[bid[c]] \in Contents
    <3>1. CASE c = b
      BY <1>2, <3>1
    <3>2. CASE c # b /\ bid[c] = bid[b]
      <4>1. bstep[c] \in {"idle", "done"}
        BY <1>1, <2>3, <3>2, OwnId
      <4>2. QED
        BY <1>2, <3>2, <4>1
    <3>3. CASE c # b /\ bid[c] # bid[b]
      BY <1>1, <1>2, <2>3, <3>3 DEF BackupInv, IdsInv
    <3>4. QED
      BY <3>1, <3>2, <3>3
  <2>4. QED
    BY <1>1, <2>1, <2>2, <2>3 DEF IdsInv, Saving
<1>11. QED
  BY <1>5, <1>6, <1>7, <1>9, <1>10 DEF BackupInv

\* Pruning removes none of the newest: fewer than Retention manifests are newer than theirs.
LEMMA NewestAreNotExcess ==
    ASSUME BackupRestoreAssumption, BackupInv, NEW k \in 1..Len(ever), k <= Retention
    PROVE  ever[k] \notin Excess
<1> DEFINE before == {ever[n] : n \in 1..(k - 1)}
<1>1. k \in Nat /\ k >= 1 /\ Retention \in Nat
  BY DEF BackupRestoreAssumption, BackupInv, BackupTypeOK
<1>2. Newer(ever[k]) \subseteq before
  <2> SUFFICES ASSUME NEW i \in Newer(ever[k]) PROVE i \in before
    OBVIOUS
  <2>1. PICK n \in 1..Len(ever) : ever[n] = i /\ \A m \in 1..n : ever[m] # ever[k]
    BY DEF Newer
  <2>2. n \in Nat /\ n >= 1 /\ ~(k \in 1..n)
    BY <2>1 DEF BackupInv, BackupTypeOK
  <2>3. n \in 1..(k - 1)
    BY <1>1, <2>2
  <2>4. QED
    BY <2>1, <2>3
<1>3. IsFiniteSet(before) /\ Cardinality(before) <= k - 1 /\ Cardinality(before) \in Nat
  <2>1. IsFiniteSet(1..(k - 1)) /\ Cardinality(1..(k - 1)) = k - 1
    <3>1. Cardinality(1..(k - 1)) = IF 1 > k - 1 THEN 0 ELSE (k - 1) - 1 + 1
      BY <1>1, FS_Interval
    <3>2. k - 1 \in Nat /\ (IF 1 > k - 1 THEN 0 ELSE (k - 1) - 1 + 1) = k - 1
      BY <1>1
    <3>3. QED
      BY <1>1, <3>1, <3>2, FS_Interval
  <2> DEFINE f == [n \in 1..(k - 1) |-> ever[n]]
  <2>2. f \in Surjection(1..(k - 1), before)
    BY DEF Surjection
  <2>3. QED
    BY <2>1, <2>2, FS_Surjection, FS_CardinalityType
<1>4. Cardinality(Newer(ever[k])) <= Cardinality(before) /\ Cardinality(Newer(ever[k])) \in Nat
  BY <1>2, <1>3, FS_Subset, FS_CardinalityType
<1>5. Cardinality(Newer(ever[k])) < Retention
  BY <1>1, <1>3, <1>4
<1>6. QED
  BY <1>1, <1>4, <1>5 DEF Excess

\* A backup ends, after pruning or a failure: some of the excess is gone, with its manifest or
\* spoiled.
LEMMA EndsSaving ==
    ASSUME BackupRestoreAssumption, BackupInv, NEW b \in Backups, Saving(b),
           bstep' = [bstep EXCEPT ![b] = "done"],
           NEW archives \in SUBSET Excess, NEW manifests \in SUBSET Excess,
           archive' = [i \in Id |-> IF i \in archives THEN Absent ELSE archive[i]],
           listing' = listing \ manifests,
           spoiled \subseteq spoiled', spoiled' \subseteq spoiled \cup Excess,
           Excess \subseteq spoiled' \/ (archives = Excess /\ manifests = Excess),
           outages' \in 0..MaxOutages,
           UNCHANGED <<has, live, newest, serviceUp, masked, stacksUp, clock, ever, bid, members, gathered,
                       rstep, rid, unpacked, excuse>>
    PROVE  BackupInv'
<1>1. /\ bstep' \in [Backups -> BStep] /\ bstep'[b] = "done"
      /\ \A c \in Backups \ {b} : bstep'[c] = bstep[c]
  BY GoesOnSaving DEF BStep, BackupInv
<1>2. /\ archive \in [Id -> Contents \cup {Absent, Broken}] /\ listing \subseteq Id
      /\ Excess \subseteq listing /\ Absent \notin Contents
  BY DEF Excess, BackupInv, BackupTypeOK, BackupRestoreAssumption
<1>3. /\ archive' \in [Id -> Contents \cup {Absent, Broken}] /\ listing' \subseteq listing
      /\ \A i \in Id : archive'[i] = IF i \in archives THEN Absent ELSE archive[i]
  BY <1>2
<1>4. BackupTypeOK'
  BY <1>1, <1>2, <1>3 DEF BackupInv, BackupTypeOK, BStep
<1>5. SavingInv'
  BY <1>1 DEF BackupInv, SavingInv, Saving, Restoring
<1>6. RestoreInv'
  <2>1. \A i \in Id \ spoiled' : archive'[i] \in Contents => archive'[i] = archive[i]
    BY <1>2, <1>3
  <2>2. QED
    BY <2>1, RestoresStay
<1>7. IdsInv'
  <2>1. \A c, d \in Backups :
          c # d /\ bstep'[c] \notin {"idle", "done"} /\ bstep'[d] \notin {"idle", "done"}
          /\ bid[c] = bid[d] => bid[c] \in spoiled'
    BY <1>1 DEF BackupInv, IdsInv, Saving
  <2>2. ASSUME NEW i \in listing'
        PROVE  /\ \E n \in 1..Len(ever) : ever[n] = i
               /\ i \notin spoiled' => archive'[i] \in Contents
    <3>1. (\E n \in 1..Len(ever) : ever[n] = i) /\ (i \notin spoiled => archive[i] \in Contents) /\ i \in Id
      BY <1>2, <1>3 DEF BackupInv, IdsInv
    <3>2. i \notin spoiled' => i \notin archives
      OBVIOUS
    <3>3. QED
      BY <1>3, <3>1, <3>2
  <2>3. ASSUME NEW c \in Backups, bid[c] \notin spoiled'
        PROVE  /\ bstep'[c] \in {"dumping", "stacks", "store"} => archive'[bid[c]] = Absent
               /\ bstep'[c] \in {"dumping", "stacks", "store", "packing", "listing"} => bid[c] \notin listing'
               /\ bstep'[c] = "listing" => archive'[bid[c]] \in Contents
    <3>1. CASE c = b
      BY <1>1, <3>1
    <3>2. CASE c # b
      <4>1. /\ bstep'[c] = bstep[c] /\ bid[c] \in Id /\ bid[c] \notin spoiled
        BY <1>1, <2>3, <3>2 DEF BackupInv, BackupTypeOK
      <4>2. /\ bstep[c] \in {"dumping", "stacks", "store"} => archive[bid[c]] = Absent
            /\ bstep[c] \in {"dumping", "stacks", "store", "packing", "listing"} => bid[c] \notin listing
            /\ bstep[c] = "listing" => archive[bid[c]] \in Contents
        BY <4>1 DEF BackupInv, IdsInv
      <4>3. QED
        BY <1>2, <1>3, <4>1, <4>2
    <3>3. QED
      BY <3>1, <3>2
  <2>4. QED
    BY <2>1, <2>2, <2>3 DEF IdsInv, Saving
<1>8. NewestCanBeRestored'
  <2> SUFFICES ASSUME \A i \in 1..Len(ever) : ever[i] \notin spoiled', NEW i \in 1..Len(ever), i <= Retention
               PROVE  ever[i] \in listing' /\ archive'[ever[i]] \notin {Absent, Broken}
    BY DEF NewestCanBeRestored
  <2>1. ever[i] \in listing /\ archive[ever[i]] \notin {Absent, Broken}
    BY DEF BackupInv, NewestCanBeRestored
  <2>2. ever[i] \notin Excess
    BY NewestAreNotExcess
  <2>3. ever[i] \in Id
    BY <1>2, <2>1
  <2>4. QED
    BY <1>3, <2>1, <2>2, <2>3
<1>9. QED
  BY <1>4, <1>5, <1>6, <1>7, <1>8 DEF BackupInv

LEMMA PruneSteps ==
    ASSUME BackupRestoreAssumption, BackupInv, NEW b \in Backups,
           Prune(b) \/ PruneHalf(b) \/ BackupFails(b)
    PROVE  BackupInv'
<1>t. outages \in 0..MaxOutages /\ archive \in [Id -> Contents \cup {Absent, Broken}]
  BY DEF BackupInv, BackupTypeOK
<1>1. /\ Saving(b) /\ bstep' = [bstep EXCEPT ![b] = "done"]
      /\ UNCHANGED <<has, live, newest, serviceUp, masked, stacksUp, clock, ever, bid, members, gathered,
                     rstep, rid, unpacked, excuse>>
  BY DEF Prune, PruneHalf, BackupFails, Saving, system, store, restores
<1>2. CASE Prune(b)
  <2>1. /\ archive' = [i \in Id |-> IF i \in Excess THEN Absent ELSE archive[i]]
        /\ listing' = listing \ Excess /\ UNCHANGED <<spoiled, outages>>
    BY <1>2 DEF Prune
  <2>2. Excess \in SUBSET Excess
    OBVIOUS
  <2>3. outages' \in 0..MaxOutages /\ spoiled \subseteq spoiled' /\ spoiled' \subseteq spoiled \cup Excess
    BY <1>t, <2>1
  <2>4. QED
    BY <1>1, <2>1, <2>2, <2>3, EndsSaving
<1>3. CASE PruneHalf(b)
  <2>1. PICK archives \in SUBSET Excess, manifests \in SUBSET Excess :
          /\ archive' = [i \in Id |-> IF i \in archives THEN Absent ELSE archive[i]]
          /\ listing' = listing \ manifests
    BY <1>3 DEF PruneHalf
  <2>2. spoiled' = spoiled \cup Excess /\ outages' \in 0..MaxOutages
    BY <1>3, Outages DEF PruneHalf, BackupInv
  <2>3. spoiled \subseteq spoiled' /\ spoiled' \subseteq spoiled \cup Excess /\ Excess \subseteq spoiled'
    BY <2>2
  <2>4. QED
    BY <1>1, <2>1, <2>2, <2>3, EndsSaving
<1>4. CASE BackupFails(b)
  <2>1. UNCHANGED <<archive, listing, spoiled>> /\ outages' \in 0..MaxOutages
    <3>1. UNCHANGED <<archive, listing, spoiled>> /\ (Outage \/ outages' = outages)
      BY <1>4 DEF BackupFails, store
    <3>2. QED
      BY <3>1, <1>t, Outages DEF BackupInv
  <2>2. /\ bstep' \in [Backups -> BStep] /\ bstep'[b] = "done"
        /\ \A c \in Backups : bstep'[c] \in {bstep[c], "done"}
    BY <1>1, GoesOnSaving DEF BStep, BackupInv
  <2>3. BackupTypeOK'
    BY <1>1, <2>1, <2>2 DEF BackupInv, BackupTypeOK, BStep
  <2>4. QED
    BY <1>1, <2>1, <2>2, <2>3, Interruption
<1>5. QED
  BY <1>2, <1>3, <1>4

LEMMA SecondStep ==
    ASSUME BackupRestoreAssumption, BackupInv, SecondPasses \/ UNCHANGED backupVars PROVE BackupInv'
<1>1. UNCHANGED <<has, live, newest, serviceUp, masked, stacksUp, archive, listing, ever, bstep, bid, members, gathered,
                  rstep, rid, unpacked, spoiled, excuse, outages>>
  BY DEF SecondPasses, backupVars, system, store, backups, restores
<1>2. clock' \in Id
  <2>1. clock \in Id /\ Seconds \in Nat
    BY DEF BackupRestoreAssumption, BackupInv, BackupTypeOK
  <2>2. clock' = clock \/ (clock < Seconds /\ clock' = clock + 1)
    BY DEF SecondPasses, backupVars
  <2>3. QED
    BY <2>1, <2>2 DEF Id
<1>3. BackupTypeOK'
  BY <1>1, <1>2 DEF BackupInv, BackupTypeOK
<1>4. SavingInv'
  BY <1>1 DEF BackupInv, SavingInv, Saving, Restoring
<1>5. RestoreInv'
  BY <1>1, RestoresStay
<1>6. IdsInv' /\ NewestCanBeRestored'
  BY <1>1, Spoiling DEF BackupInv
<1>7. QED
  BY <1>3, <1>4, <1>5, <1>6 DEF BackupInv

LEMMA BackupStep ==
    ASSUME BackupRestoreAssumption, BackupInv, [BackupNext]_backupVars PROVE BackupInv'
<1>1. CASE Change
  BY <1>1, ChangeStep
<1>2. CASE SecondPasses \/ UNCHANGED backupVars
  BY <1>2, SecondStep
<1>3. CASE PowerCut
  BY <1>3, BootStep
<1>4. ASSUME NEW b \in Backups, BackupSteps(b) PROVE BackupInv'
  BY <1>4, BeginStep, DumpStep, CopyAsideStep, PackStep, WriteManifestStep, PruneSteps DEF BackupSteps
<1>5. ASSUME NEW r \in Restores, FindBackup(r) \/ Schedule(r) PROVE BackupInv'
  BY <1>5, FindBackupStep, ScheduleStep
<1>6. ASSUME NEW r \in Restores, ScriptSteps(r) PROVE BackupInv'
  BY <1>6, QuietSteps, StopServiceStep, UnpackStep, WipeStep, CopyDataStep, ClearAsideStep,
     CopyBackAsideStep, LoadDatabaseStep, BootStep, StepFailsStep DEF ScriptSteps, Quiet
<1>7. QED
  BY <1>1, <1>2, <1>3, <1>4, <1>5, <1>6 DEF BackupNext

\* Archives, manifests, backups and restores have their types.
THEOREM BackupTypeCorrect == BackupRestoreAssumption => (BackupSpec => []BackupTypeOK)
<1> SUFFICES ASSUME BackupRestoreAssumption PROVE BackupSpec => []BackupTypeOK
  OBVIOUS
<1>1. BackupInit => BackupInv
  BY BackupInitInv
<1>2. BackupInv /\ [BackupNext]_backupVars => BackupInv'
  BY BackupStep
<1>3. BackupInv => BackupTypeOK
  BY DEF BackupInv
<1>4. QED
  BY <1>1, <1>2, <1>3, PTL DEF BackupSpec

\* buildRestoreShellCommand: for any number of backups, restores, changes and failures, a system
\* on which no restore is at work has data, database, stacks and store registry of one moment,
\* and no directory is taken away that the backup did not have, unless a restore was cut off or
\* crossed by a change amid the replacement, met another or took a backup not of one piece.
THEOREM RestoresAreWhole == BackupRestoreAssumption => (BackupSpec => []RestoreIsWhole)
<1> SUFFICES ASSUME BackupRestoreAssumption PROVE BackupSpec => []RestoreIsWhole
  OBVIOUS
<1>1. BackupInit => BackupInv
  BY BackupInitInv
<1>2. BackupInv /\ [BackupNext]_backupVars => BackupInv'
  BY BackupStep
<1>3. BackupInv => RestoreIsWhole
  <2> SUFFICES ASSUME BackupInv, \A r \in Restores : ~Restoring(r), Clean
               PROVE  /\ live["database"] # Lost /\ live["data"] = live["database"]
                      /\ \A p \in has[live["database"]] : live[p] = live["database"]
                      /\ \A p \in has[newest] : live[p] # Lost
    BY Dots DEF RestoreIsWhole, Clean, BackupInv, BackupTypeOK
  <2>1. \A r \in Restores : rstep[r] \notin Amid /\ \A p : rstep[r] # Refill(p)
    BY Phases DEF Restoring
  <2>2. Sound(live) /\ \A p \in has[newest] : live[p] # Lost
    BY <2>1 DEF BackupInv, RestoreInv
  <2>3. QED
    BY <2>2 DEF Sound
<1>4. QED
  BY <1>1, <1>2, <1>3, PTL DEF BackupSpec

\* pruneStoredBackups keeps the newest retentionCount backups, whatever runs beside it, unless
\* two backups were made in a second or a pruning was cut off.
THEOREM NewestAreRestorable == BackupRestoreAssumption => (BackupSpec => []NewestCanBeRestored)
<1> SUFFICES ASSUME BackupRestoreAssumption PROVE BackupSpec => []NewestCanBeRestored
  OBVIOUS
<1>1. BackupInit => BackupInv
  BY BackupInitInv
<1>2. BackupInv /\ [BackupNext]_backupVars => BackupInv'
  BY BackupStep
<1>3. BackupInv => NewestCanBeRestored
  BY DEF BackupInv
<1>4. QED
  BY <1>1, <1>2, <1>3, PTL DEF BackupSpec

-------------------------------------------------------------------------------
(* What ServiceComesBack rests on: while something is down, a script is on its way that brings *)
(* it back, and every step of a script is one step less to its end.                            *)

\* The script is still to start the service or to reboot; to raise the stacks.
BringsBack == Script \ {"preparing", "stopping", "rescuing"}
Unmasks    == BringsBack \ {"masking", "starting"}
Raises     == {"unpacking", "wiping", "tidying", "raising", "unmasking", "starting", "rescuing"} \cup Amid

\* Unless its last means failed.
ServiceIsMissed ==
    "stranded" \notin excuse =>
        /\ ~serviceUp => \E r \in Restores : rstep[r] \in BringsBack
        /\ masked => \E r \in Restores : rstep[r] \in Unmasks

StacksBack == stacksUp \/ live["stacks"] = Lost \/ excuse \cap {"power", "overlap", "unraised"} # {}

StacksAreMissed ==
    /\ \A r, q \in Restores : r # q /\ Restoring(r) /\ Restoring(q) => "overlap" \in excuse
    /\ StacksBack \/ \E r \in Restores : rstep[r] \in Raises

Missed == ServiceIsMissed /\ StacksAreMissed

\* At most so many steps are left.
StepsLeft ==
    [s \in RStep |->
        CASE s = "done" -> 0 [] s = "rescuing" -> 1 [] s = "starting" -> 2
          [] s \in {"rebooting", "unmasking"} -> 3 [] s = "raising" -> 4 [] s = "tidying" -> 5
          [] s = "loading" -> 6 [] s = "refilling" -> 7 [] s = "emptying" -> 8
          [] s = "replacing" -> 9 [] s = "clearing" -> 10 [] s = "copying" -> 11
          [] s = "wiping" -> 12 [] s = "unpacking" -> 13 [] s = "downing" -> 14
          [] s = "masking" -> 15 [] s = "stopping" -> 16 [] s = "preparing" -> 17
          [] s = "asking" -> 18 [] s = "idle" -> 19]

\* No step of anybody takes a restore back.
RestoresGoForward ==
    [][\A r \in Restores :
          /\ StepsLeft[rstep[r]]' <= StepsLeft[rstep[r]]
          /\ ScriptSteps(r) => StepsLeft[rstep[r]]' < StepsLeft[rstep[r]]]_backupVars

LEMMA Ranks ==
    /\ StepsLeft \in [RStep -> Nat]
    /\ StepsLeft["done"] = 0 /\ StepsLeft["rescuing"] = 1 /\ StepsLeft["starting"] = 2
    /\ StepsLeft["rebooting"] = 3 /\ StepsLeft["unmasking"] = 3 /\ StepsLeft["raising"] = 4
    /\ StepsLeft["tidying"] = 5 /\ StepsLeft["loading"] = 6 /\ StepsLeft["refilling"] = 7
    /\ StepsLeft["emptying"] = 8 /\ StepsLeft["replacing"] = 9 /\ StepsLeft["clearing"] = 10
    /\ StepsLeft["copying"] = 11 /\ StepsLeft["wiping"] = 12 /\ StepsLeft["unpacking"] = 13
    /\ StepsLeft["downing"] = 14 /\ StepsLeft["masking"] = 15 /\ StepsLeft["stopping"] = 16
    /\ StepsLeft["preparing"] = 17 /\ StepsLeft["asking"] = 18 /\ StepsLeft["idle"] = 19
<1>1. RStep = {"idle", "asking", "done", "preparing", "stopping", "masking", "downing", "unpacking",
               "wiping", "copying", "clearing", "replacing", "emptying", "refilling", "loading",
               "tidying", "raising", "rebooting", "unmasking", "starting", "rescuing"}
  BY DEF RStep, Script, Before, Amid, After, Rescue
<1>2. \A s \in RStep : StepsLeft[s] \in Nat
  BY <1>1 DEF StepsLeft
<1>3. QED
  BY <1>1, <1>2 DEF StepsLeft

\* Where the script of r, going on to s, leaves what is missed.
Onward(r, s) ==
    /\ s \in Script \cup {"done"} /\ GoOn(r, s) /\ StepsLeft[s] < StepsLeft[rstep[r]]
    /\ excuse \subseteq excuse'
    /\ \/ serviceUp' \/ s \in BringsBack \/ "stranded" \in excuse'
       \/ masked /\ rstep[r] \notin Unmasks
       \/ ~serviceUp /\ rstep[r] \notin BringsBack
    /\ \/ ~masked' \/ s \in Unmasks \/ "stranded" \in excuse'
       \/ masked /\ rstep[r] \notin Unmasks
    /\ s \in Raises \/ stacksUp' \/ live'["stacks"] = Lost \/ "unraised" \in excuse'
         \/ (UNCHANGED <<stacksUp, live>> /\ rstep[r] \notin Raises)

LEMMA OnwardMissed ==
    ASSUME BackupTypeOK, Missed, NEW r \in Restores, Restoring(r), NEW s, Onward(r, s)
    PROVE  /\ Missed'
           /\ StepsLeft[rstep'[r]] < StepsLeft[rstep[r]]
           /\ \A q \in Restores \ {r} : rstep'[q] = rstep[q]
<1>1. rstep'[r] = s /\ \A q \in Restores \ {r} : rstep'[q] = rstep[q]
  BY GoesOn DEF Onward, RStep
<1>2. Unmasks \subseteq BringsBack
  BY DEF Unmasks
<1>3. ServiceIsMissed'
  BY <1>1, <1>2 DEF Onward, Missed, ServiceIsMissed
<1>4. \A q, p \in Restores : q # p /\ Restoring(q)' /\ Restoring(p)' => "overlap" \in excuse'
  BY <1>1 DEF Onward, Missed, StacksAreMissed, Restoring
<1>5. StacksBack' \/ \E q \in Restores : rstep'[q] \in Raises
  BY <1>1 DEF Onward, Missed, StacksAreMissed, StacksBack
<1>6. QED
  BY <1>1, <1>3, <1>4, <1>5 DEF Onward, Missed, StacksAreMissed

LEMMA FailsOnward ==
    ASSUME NEW r \in Restores, rstep[r] \in (Before \cup Amid \cup {"tidying", "raising"}), Fails(r)
    PROVE  Onward(r, "unmasking")
<1>1. "unmasking" \in Script /\ "unmasking" \in Unmasks /\ "unmasking" \in BringsBack /\ "unmasking" \in Raises
  BY DEF Script, Rescue, Unmasks, BringsBack, Raises
<1>2. StepsLeft["unmasking"] < StepsLeft[rstep[r]]
  BY Ranks DEF Before, Amid
<1>3. QED
  BY <1>1, <1>2 DEF Fails, Onward

\* Most steps go on to one that is to do everything.
LEMMA PlainOnward ==
    ASSUME NEW r \in Restores, NEW s \in Unmasks \cap Raises, GoOn(r, s), excuse \subseteq excuse',
           StepsLeft[s] < StepsLeft[rstep[r]]
    PROVE  Onward(r, s)
BY DEF Onward, Unmasks, BringsBack

LEMMA ScriptOnward ==
    ASSUME BackupTypeOK, NEW r \in Restores, ScriptSteps(r), ~StopService(r), ~Reboot(r)
    PROVE  Restoring(r) /\ \E s : Onward(r, s)
<1> USE DEF system
<1>1. live["stacks"] = live.stacks
  BY Dots DEF BackupTypeOK
<1>2. \A s \in {"unpacking", "wiping", "copying", "clearing", "replacing", "emptying", "refilling",
                 "loading", "tidying", "raising"} : s \in Unmasks \cap Raises
  BY DEF Unmasks, BringsBack, Raises, Script, Before, Amid, After
<1>3. /\ \A s \in {"preparing", "stopping", "masking", "downing", "raising", "rebooting",
                   "unmasking", "starting", "rescuing"} : s \in Script
      /\ \A s \in {"downing", "rebooting"} : s \in Unmasks
      /\ \A s \in {"downing", "rebooting", "starting"} : s \in BringsBack
      /\ "preparing" \notin BringsBack /\ "rescuing" \notin BringsBack /\ "starting" \notin Unmasks
      /\ "preparing" \notin Unmasks /\ "rescuing" \notin Unmasks
      /\ "preparing" \notin Raises /\ "masking" \notin Raises
      /\ "starting" \in Raises /\ "rescuing" \in Raises
  BY DEF Unmasks, BringsBack, Raises, Script, Before, Amid, After, Rescue
<1>4. Before \cup Amid \cup {"tidying", "raising"} \subseteq Script
  BY DEF Script, After
<1>5. CASE Prepare(r)
  BY <1>3, <1>5, Ranks DEF Prepare, Restoring, Onward
<1>6. CASE Mask(r)
  BY <1>3, <1>6, Ranks DEF Mask, Restoring, Onward
<1>7. CASE ComposeDown(r)
  BY <1>2, <1>3, <1>7, Ranks, PlainOnward DEF ComposeDown, Restoring
<1>8. CASE Unpack(r)
  <2>1. rstep[r] \in Before /\ Restoring(r)
    BY <1>8, <1>4 DEF Unpack, Restoring, Before
  <2>2. Fails(r) \/ (GoOn(r, "wiping") /\ excuse' = excuse)
    BY <1>8 DEF Unpack
  <2>3. StepsLeft["wiping"] < StepsLeft[rstep[r]]
    BY <1>8, Ranks DEF Unpack
  <2>4. QED
    BY <1>2, <2>1, <2>2, <2>3, FailsOnward, PlainOnward
<1>9. CASE Wipe(r)
  <2>1. Restoring(r)
    BY <1>9, <1>4 DEF Wipe, Restoring, Amid
  <2>2. QED
    BY <1>2, <1>9, <2>1, Ranks, PlainOnward DEF Wipe
<1>10. CASE CopyData(r) \/ ClearAside(r) \/ CopyBackAside(r) \/ LoadDatabase(r)
  <2>1. rstep[r] \in Amid /\ Restoring(r)
    BY <1>10, <1>4 DEF CopyData, ClearAside, CopyBackAside, LoadDatabase, Restoring, Amid
  <2>2. \/ Fails(r)
        \/ \E s \in {"clearing", "loading", "replacing", "emptying", "refilling", "tidying"} :
              GoOn(r, s) /\ excuse \subseteq excuse' /\ StepsLeft[s] < StepsLeft[rstep[r]]
    <3>1. CASE CopyData(r) \/ LoadDatabase(r)
      BY <3>1, Ranks DEF CopyData, LoadDatabase
    <3>2. CASE ClearAside(r)
      BY <3>2, Ranks, Directories DEF ClearAside
    <3>3. CASE CopyBackAside(r)
      BY <3>3, Ranks, Directories DEF CopyBackAside
    <3>4. QED
      BY <1>10, <3>1, <3>2, <3>3
  <2>3. QED
    BY <1>2, <2>1, <2>2, FailsOnward, PlainOnward
<1>11. CASE Tidy(r)
  <2>1. Restoring(r)
    BY <1>11, <1>4 DEF Tidy, Restoring
  <2>2. QED
    BY <1>2, <1>11, <2>1, Ranks, PlainOnward DEF Tidy
<1>12. CASE RestartStacks(r)
  <2>1. rstep[r] \in {"raising", "rescuing"} /\ Restoring(r)
    BY <1>3, <1>12 DEF RestartStacks, Restoring
  <2>2. stacksUp' \/ live'["stacks"] = Lost
    BY <1>1, <1>12 DEF RestartStacks
  <2>3. CASE rstep[r] = "raising"
    <3>1. GoOn(r, "rebooting")
      BY <1>12, <2>3 DEF RestartStacks
    <3>2. QED
      BY <1>3, <1>12, <2>1, <2>2, <2>3, <3>1, Ranks DEF RestartStacks, Onward
  <2>4. CASE rstep[r] = "rescuing"
    <3>1. GoOn(r, "done")
      BY <1>12, <2>4 DEF RestartStacks
    <3>2. QED
      BY <1>3, <1>12, <2>1, <2>2, <2>4, <3>1, Ranks DEF RestartStacks, Onward
  <2>5. QED
    BY <2>1, <2>3, <2>4
<1>13. CASE StepFails(r)
  <2>1. rstep[r] \in Before \cup Amid \cup {"tidying", "raising"} /\ Restoring(r)
    BY <1>4, <1>13 DEF StepFails, Restoring
  <2>2. QED
    BY <1>13, <2>1, FailsOnward DEF StepFails
<1>14. CASE Unmask(r)
  BY <1>3, <1>14, Ranks DEF Unmask, Restoring, Onward
<1>15. CASE StartService(r)
  <2>1. /\ rstep[r] = "starting" /\ Restoring(r) /\ GoOn(r, "rescuing") /\ excuse' = excuse
        /\ masked' = masked
    BY <1>3, <1>15 DEF StartService, Restoring
  <2>2. serviceUp' \/ masked
    BY <1>15 DEF StartService
  <2>3. QED
    BY <1>3, <2>1, <2>2, Ranks DEF Onward
<1>16. CASE RebootFails(r)
  <2>1. rstep[r] = "rebooting" /\ Restoring(r) /\ GoOn(r, "done") /\ "stranded" \in excuse'
        /\ excuse \subseteq excuse' /\ UNCHANGED <<stacksUp, live>> /\ "rebooting" \notin Raises
    BY <1>3, <1>16 DEF RebootFails, Restoring, Raises, Amid
  <2>2. QED
    BY <2>1, Ranks DEF Onward
<1>17. CASE FailsQuietly(r)
  <2>1. /\ rstep[r] \in {"stopping", "masking", "downing", "raising", "starting", "rescuing"}
        /\ GoOn(r, Tolerated[rstep[r]]) /\ excuse' = excuse \cup Undone(rstep[r])
        /\ UNCHANGED <<live, serviceUp, masked, stacksUp>> /\ Restoring(r)
    BY <1>3, <1>17, Tolerable DEF FailsQuietly, Restoring, Script, Before
  <2>2. CASE rstep[r] = "stopping"
    <3>1. GoOn(r, "masking") /\ "masking" \in Script /\ "masking" \in BringsBack
          /\ "stopping" \notin Unmasks /\ "stopping" \notin Raises
      BY <1>3, <2>1, <2>2, Tolerable DEF BringsBack, Unmasks, Raises, Amid
    <3>2. ~masked \/ masked
      OBVIOUS
    <3>3. QED
      BY <2>1, <2>2, <3>1, <3>2, Ranks DEF Onward
  <2>3. CASE rstep[r] = "masking"
    <3>1. GoOn(r, "downing") /\ "masking" \notin Raises
      BY <1>3, <2>1, <2>3, Tolerable
    <3>2. QED
      BY <1>3, <2>1, <2>3, <3>1, Ranks DEF Onward
  <2>4. CASE rstep[r] = "downing"
    <3>1. GoOn(r, "unpacking")
      BY <2>1, <2>4, Tolerable
    <3>2. QED
      BY <1>2, <2>1, <2>4, <3>1, Ranks, PlainOnward
  <2>5. CASE rstep[r] = "raising"
    <3>1. GoOn(r, "rebooting") /\ "unraised" \in excuse'
      BY <2>1, <2>5, Tolerable DEF Undone
    <3>2. QED
      BY <1>3, <2>1, <2>5, <3>1, Ranks DEF Onward
  <2>6. CASE rstep[r] = "starting"
    <3>1. GoOn(r, "rescuing") /\ "stranded" \in excuse'
      BY <2>1, <2>6, Tolerable DEF Undone
    <3>2. QED
      BY <1>3, <2>1, <2>6, <3>1, Ranks DEF Onward
  <2>7. CASE rstep[r] = "rescuing"
    <3>1. GoOn(r, "done") /\ "unraised" \in excuse' /\ "rescuing" \notin Unmasks
      BY <1>3, <2>1, <2>7, Tolerable DEF Undone
    <3>2. QED
      BY <1>3, <2>1, <2>7, <3>1, Ranks DEF Onward
  <2>8. QED
    BY <2>1, <2>2, <2>3, <2>4, <2>5, <2>6, <2>7
<1>18. QED
  BY <1>5, <1>6, <1>7, <1>8, <1>9, <1>10, <1>11, <1>12, <1>13, <1>14, <1>15, <1>16, <1>17 DEF ScriptSteps

LEMMA StopMissed ==
    ASSUME BackupTypeOK, Missed, NEW r \in Restores, StopService(r)
    PROVE  /\ Missed'
           /\ StepsLeft[rstep'[r]] < StepsLeft[rstep[r]]
           /\ \A q \in Restores : StepsLeft[rstep'[q]] <= StepsLeft[rstep[q]]
<1> USE DEF store
<1>1. /\ rstep[r] = "stopping" /\ rstep'[r] = "masking"
      /\ \A q \in Restores \ {r} : rstep'[q] = IF rstep[q] = "asking" THEN "done" ELSE rstep[q]
  BY DEF StopService
<1>2. /\ "masking" \in BringsBack /\ "stopping" \notin BringsBack /\ "asking" \notin BringsBack
      /\ "stopping" \notin Raises /\ "asking" \notin Raises
      /\ "masking" \in Script /\ "stopping" \in Script /\ "asking" \notin Script /\ "done" \notin Script
      /\ Unmasks \subseteq BringsBack
  BY DEF BringsBack, Unmasks, Raises, Script, Before, Amid, After, Rescue
<1>3. UNCHANGED <<masked, stacksUp, live, excuse>>
  BY DEF StopService
<1>4. ServiceIsMissed'
  BY <1>1, <1>2, <1>3 DEF Missed, ServiceIsMissed
<1>5. \A q \in Restores : Restoring(q)' => Restoring(q)
  BY <1>1, <1>2 DEF Restoring
<1>6. StacksAreMissed'
  <2>1. StacksBack' \/ \E q \in Restores : rstep'[q] \in Raises
    BY <1>1, <1>2, <1>3 DEF Missed, StacksAreMissed, StacksBack
  <2>2. \A q, p \in Restores : q # p /\ Restoring(q)' /\ Restoring(p)' => "overlap" \in excuse'
    BY <1>3, <1>5 DEF Missed, StacksAreMissed
  <2>3. QED
    BY <2>1, <2>2 DEF StacksAreMissed
<1>7. \A q \in Restores : rstep[q] \in RStep
  BY DEF BackupTypeOK, RStep
<1>8. \A q \in Restores : StepsLeft[rstep'[q]] <= StepsLeft[rstep[q]]
  BY <1>1, <1>7, Ranks
<1>9. QED
  BY <1>1, <1>4, <1>6, <1>8, Ranks DEF Missed

\* After a reboot nothing is missed: the service is started, and stacks left down are excused.
LEMMA BootMissed ==
    ASSUME BackupTypeOK, BootUp, StacksBack'
    PROVE  /\ Missed'
           /\ \A q \in Restores : StepsLeft[rstep'[q]] <= StepsLeft[rstep[q]]
<1>1. \A q \in Restores : rstep'[q] = IF rstep[q] = "idle" THEN "idle" ELSE "done"
  BY DEF BootUp
<1>2. serviceUp' /\ ~masked'
  BY DEF BootUp
<1>3. "idle" \notin Script /\ "done" \notin Script
  BY DEF Script, Before, Amid, After, Rescue
<1>4. \A q \in Restores : ~Restoring(q)'
  BY <1>1, <1>3 DEF Restoring
<1>5. Missed'
  BY <1>2, <1>4 DEF Missed, ServiceIsMissed, StacksAreMissed
<1>6. \A q \in Restores : rstep[q] \in RStep
  BY DEF BackupTypeOK, RStep
<1>7. \A q \in Restores : StepsLeft[rstep'[q]] <= StepsLeft[rstep[q]]
  BY <1>1, <1>6, Ranks
<1>8. QED
  BY <1>5, <1>7

LEMMA RebootMissed ==
    ASSUME BackupTypeOK, Missed, NEW r \in Restores, Reboot(r)
    PROVE  /\ Missed'
           /\ StepsLeft[rstep'[r]] < StepsLeft[rstep[r]]
           /\ \A q \in Restores : StepsLeft[rstep'[q]] <= StepsLeft[rstep[q]]
<1>1. rstep[r] = "rebooting" /\ BootUp /\ UNCHANGED <<live, stacksUp, excuse>>
  BY DEF Reboot
<1>2. "rebooting" \in Script /\ "rebooting" \notin Raises /\ Raises \subseteq Script
  BY DEF Script, Before, Amid, After, Rescue, Raises
<1>3. StacksBack
  <2> SUFFICES ASSUME NEW q \in Restores, rstep[q] \in Raises PROVE StacksBack
    BY DEF Missed, StacksAreMissed
  <2>1. q # r /\ Restoring(q) /\ Restoring(r)
    BY <1>1, <1>2 DEF Restoring
  <2>2. QED
    BY <2>1 DEF Missed, StacksAreMissed, StacksBack
<1>4. StacksBack'
  BY <1>1, <1>3 DEF StacksBack
<1>5. rstep'[r] = "done"
  BY <1>1 DEF BootUp
<1>6. QED
  BY <1>1, <1>4, <1>5, BootMissed, Ranks

LEMMA PowerMissed ==
    ASSUME BackupTypeOK, Missed, PowerCut
    PROVE  /\ Missed'
           /\ \A q \in Restores : StepsLeft[rstep'[q]] <= StepsLeft[rstep[q]]
<1>1. /\ BootUp /\ UNCHANGED <<live, stacksUp>> /\ excuse \subseteq excuse'
      /\ (\E q \in Restores : Restoring(q)) => "power" \in excuse'
  BY DEF PowerCut
<1>2. Raises \subseteq Script
  BY DEF Script, Before, Amid, After, Rescue, Raises
<1>3. StacksBack \/ "power" \in excuse'
  BY <1>1, <1>2 DEF Missed, StacksAreMissed, Restoring
<1>4. StacksBack'
  BY <1>1, <1>3 DEF StacksBack
<1>5. QED
  BY <1>1, <1>4, BootMissed

\* Backups leave the scripts alone.
LEMMA AsideMissed ==
    ASSUME BackupTypeOK, Missed, UNCHANGED <<serviceUp, masked, stacksUp, live, excuse, rstep>>
    PROVE  Missed'
BY DEF Missed, ServiceIsMissed, StacksAreMissed, StacksBack, Restoring

LEMMA BackupsMissed ==
    ASSUME BackupTypeOK, Missed,
           Change \/ SecondPasses \/ (\E b \in Backups : BackupSteps(b)) \/ UNCHANGED backupVars
    PROVE  Missed' /\ rstep' = rstep
<1> USE DEF system, restores
<1>1. CASE Change
  <2>1. /\ UNCHANGED <<serviceUp, masked, rstep>> /\ excuse \subseteq excuse'
        /\ excuse' \subseteq excuse \cup {"cut"}
        /\ stacksUp' = (stacksUp \/ live.stacks = Lost)
    BY <1>1 DEF Change
  <2>2. live.stacks = live["stacks"]
    BY Dots DEF BackupTypeOK
  <2>3. StacksBack => StacksBack'
    BY <2>1, <2>2 DEF StacksBack
  <2>4. ServiceIsMissed'
    BY <2>1 DEF Missed, ServiceIsMissed
  <2>5. StacksAreMissed'
    BY <2>1, <2>3 DEF Missed, StacksAreMissed, Restoring
  <2>6. QED
    BY <2>1, <2>4, <2>5 DEF Missed
<1>2. CASE SecondPasses \/ UNCHANGED backupVars
  BY <1>2, AsideMissed DEF SecondPasses, backupVars
<1>3. CASE \E b \in Backups : BackupSteps(b)
  <2>1. UNCHANGED <<system, excuse, rstep>>
    BY <1>3 DEF BackupSteps, Begin, Dump, CopyAside, Pack, WriteManifest, Prune, PruneHalf, BackupFails
  <2>2. QED
    BY <2>1, AsideMissed
<1>4. QED
  BY <1>1, <1>2, <1>3

LEMMA RequestMissed ==
    ASSUME BackupTypeOK, Missed, NEW r \in Restores, FindBackup(r) \/ Schedule(r)
    PROVE  Missed' /\ \A q \in Restores : StepsLeft[rstep'[q]] <= StepsLeft[rstep[q]]
<1> USE DEF system
<1>1. /\ rstep[r] \in {"idle", "asking"} /\ UNCHANGED <<live, serviceUp, masked, stacksUp>>
      /\ excuse \subseteq excuse'
  BY DEF FindBackup, Schedule
<1>2. PICK s \in {"asking", "done", "preparing"} :
         /\ GoOn(r, s) /\ StepsLeft[s] <= StepsLeft[rstep[r]]
         /\ s = "preparing" =>
               ((\E q \in Restores \ {r} : Restoring(q)) => "overlap" \in excuse')
  BY Ranks DEF FindBackup, Schedule
<1>3. /\ "idle" \notin Script /\ "asking" \notin Script /\ "done" \notin Script
      /\ s \in RStep /\ Raises \subseteq Script /\ BringsBack \subseteq Script /\ Unmasks \subseteq Script
      /\ s \in Script => s = "preparing"
  BY DEF RStep, Script, Before, Amid, After, Rescue, Raises, BringsBack, Unmasks
<1>4. /\ rstep' \in [Restores -> RStep]
      /\ rstep'[r] = s /\ \A q \in Restores \ {r} : rstep'[q] = rstep[q]
  BY <1>2, <1>3, GoesOn
<1>5. rstep[r] \notin Script
  BY <1>1, <1>3
<1>6. ServiceIsMissed'
  BY <1>1, <1>3, <1>4, <1>5 DEF Missed, ServiceIsMissed
<1>7. StacksBack' \/ \E q \in Restores : rstep'[q] \in Raises
  BY <1>1, <1>3, <1>4, <1>5 DEF Missed, StacksAreMissed, StacksBack
<1>8. ASSUME NEW q \in Restores, NEW p \in Restores, q # p, Restoring(q)', Restoring(p)'
      PROVE  "overlap" \in excuse'
  BY <1>1, <1>2, <1>3, <1>4, <1>8 DEF Missed, StacksAreMissed, Restoring
<1>9. \A q \in Restores : StepsLeft[rstep'[q]] <= StepsLeft[rstep[q]]
  <2>1. \A q \in Restores : StepsLeft[rstep[q]] \in Nat
    BY Ranks DEF BackupTypeOK, RStep
  <2>2. QED
    BY <1>2, <1>4, <2>1
<1>10. QED
  BY <1>6, <1>7, <1>8, <1>9 DEF Missed, StacksAreMissed

LEMMA MissedStep ==
    ASSUME BackupTypeOK, Missed, [BackupNext]_backupVars
    PROVE  /\ Missed'
           /\ \A r \in Restores : StepsLeft[rstep'[r]] <= StepsLeft[rstep[r]]
<1>1. \A r \in Restores : StepsLeft[rstep[r]] \in Nat
  BY Ranks DEF BackupTypeOK, RStep
<1>2. CASE Change \/ SecondPasses \/ (\E b \in Backups : BackupSteps(b)) \/ UNCHANGED backupVars
  BY <1>1, <1>2, BackupsMissed
<1>3. CASE PowerCut
  BY <1>3, PowerMissed
<1>4. CASE \E r \in Restores : FindBackup(r) \/ Schedule(r)
  BY <1>4, RequestMissed
<1>5. ASSUME NEW r \in Restores, ScriptSteps(r)
      PROVE  Missed' /\ \A q \in Restores : StepsLeft[rstep'[q]] <= StepsLeft[rstep[q]]
  <2>1. CASE StopService(r)
    BY <2>1, StopMissed
  <2>2. CASE Reboot(r)
    BY <2>2, RebootMissed
  <2>3. CASE ~StopService(r) /\ ~Reboot(r)
    <3>1. Restoring(r) /\ \E s : Onward(r, s)
      BY <1>5, <2>3, ScriptOnward
    <3>2. /\ Missed' /\ StepsLeft[rstep'[r]] < StepsLeft[rstep[r]]
          /\ \A q \in Restores \ {r} : rstep'[q] = rstep[q]
      BY <3>1, OnwardMissed
    <3>3. StepsLeft[rstep'[r]] \in Nat
      BY <3>1, GoesOn, Ranks DEF Onward, RStep
    <3>4. QED
      BY <1>1, <3>2, <3>3
  <2>4. QED
    BY <2>1, <2>2, <2>3
<1>6. QED
  BY <1>2, <1>3, <1>4, <1>5 DEF BackupNext

LEMMA ScriptForward ==
    ASSUME BackupTypeOK, Missed, NEW r \in Restores, ScriptSteps(r)
    PROVE  StepsLeft[rstep'[r]] < StepsLeft[rstep[r]]
<1>1. CASE StopService(r)
  BY <1>1, StopMissed
<1>2. CASE Reboot(r)
  BY <1>2, RebootMissed
<1>3. CASE ~StopService(r) /\ ~Reboot(r)
  BY <1>3, ScriptOnward, OnwardMissed
<1>4. QED
  BY <1>1, <1>2, <1>3

\* buildRestoreShellCommand: for any number of restores and whatever fails, while the service is
\* down or masked some script is still to start it or to reboot, unless a reboot, an unmasking or
\* a start has failed; stacks that are down (unless gone, or excused by a power cut, a second
\* restore or a failure of docker) are still to be raised by one; each step of a script brings its
\* end closer, and no step of anybody takes it back.
THEOREM SomebodyBringsBack ==
    BackupRestoreAssumption => (BackupSpec => []Missed /\ RestoresGoForward)
<1> SUFFICES ASSUME BackupRestoreAssumption PROVE BackupSpec => []Missed /\ RestoresGoForward
  OBVIOUS
<1>1. BackupSpec => []BackupTypeOK
  BY BackupTypeCorrect
<1>2. BackupInit => Missed
  <2> SUFFICES ASSUME BackupInit PROVE Missed
    OBVIOUS
  <2>1. serviceUp /\ ~masked /\ stacksUp /\ \A r \in Restores : rstep[r] = "idle"
    BY DEF BackupInit
  <2>2. "idle" \notin Script
    BY DEF Script, Before, Amid, After, Rescue
  <2>3. QED
    BY <2>1, <2>2 DEF Missed, ServiceIsMissed, StacksAreMissed, StacksBack, Restoring
<1>3. BackupTypeOK /\ Missed /\ [BackupNext]_backupVars => Missed'
  BY MissedStep
<1>4. BackupTypeOK /\ Missed /\ [BackupNext]_backupVars
      => [\A r \in Restores :
            /\ StepsLeft[rstep[r]]' <= StepsLeft[rstep[r]]
            /\ ScriptSteps(r) => StepsLeft[rstep[r]]' < StepsLeft[rstep[r]]]_backupVars
  BY MissedStep, ScriptForward DEF StepsLeft
<1>5. QED
  BY <1>1, <1>2, <1>3, <1>4, PTL DEF BackupSpec, RestoresGoForward

-------------------------------------------------------------------------------
(* NetworkStorage. *)

\* A probe was wrong, or the path changed under a request at work.
Excused(causes) == causes \cap {"probe", "crossing"} # {}

\* Otherwise at most one share is mounted, and none while one is about to be mounted or the
\* files below the path about to be deleted.
PathInv ==
    Excused(blame) \/ /\ ~wiped
                      /\ Len(mounts) <= 1
                      /\ \A p \in Proc : pc[p] \in {"deletingFiles", "mounting"} => mounts = <<>>

\* A request at work is about a share.
AboutInv == \A p \in Proc : AtWork(p) => about[p] \in Share

NetworkInv == NetworkTypeOK /\ AboutInv /\ PathInv

LEMMA NetworkInitInv == NetworkStorageAssumption /\ NetworkInit => NetworkInv
<1> SUFFICES ASSUME NetworkStorageAssumption, NetworkInit PROVE NetworkInv
  OBVIOUS
<1>1. failures \in 0..MaxFailures /\ mounts \in Seq(Share) /\ Len(mounts) = 0
  BY DEF NetworkInit, NetworkStorageAssumption
<1>2. NetworkTypeOK
  BY <1>1 DEF NetworkInit, NetworkTypeOK
<1>3. QED
  BY <1>1, <1>2 DEF NetworkInit, NetworkInv, AboutInv, PathInv, AtWork

\* Where a step of p leads.
LEMMA Moves ==
    ASSUME NetworkTypeOK, NEW p \in Proc, NEW s \in ShareStep \cup {"idle", "done"}, Proceed(p, s)
    PROVE  /\ pc' \in [Proc -> ShareStep \cup {"idle", "done"}]
           /\ pc'[p] = s /\ \A q \in Proc \ {p} : pc'[q] = pc[q]
BY DEF NetworkTypeOK, Proceed

LEMMA SequenceEnds ==
    ASSUME NetworkTypeOK, NEW p \in Proc, End(p)
    PROVE  /\ pc' \in [Proc -> ShareStep \cup {"idle", "done"}]
           /\ pc'[p] \in {"idle", "done"} /\ \A q \in Proc \ {p} : pc'[q] = pc[q]
BY DEF NetworkTypeOK, End, Proceed

\* What a probe says, and whom it blames.
LEMMA Probes ==
    ASSUME NetworkStorageAssumption, NetworkTypeOK, NEW p \in Proc, NEW answer \in BOOLEAN, Probe(p, answer)
    PROVE  /\ answer => Mounted /\ blame' = blame
           /\ ~answer => ~Mounted \/ "probe" \in blame'
           /\ blame \subseteq blame' /\ blame' \subseteq Cause /\ failures' \in 0..MaxFailures
<1>t. failures \in 0..MaxFailures /\ MaxFailures \in Nat /\ blame \subseteq Cause
  BY DEF NetworkStorageAssumption, NetworkTypeOK
<1>1. CASE answer = Mounted /\ blame' = blame /\ failures' = failures
  BY <1>t, <1>1
<1>2. CASE ~answer /\ Mounted /\ Fault /\ blame' = blame \cup {"probe"}
  <2>1. failures' \in 0..MaxFailures
    BY <1>t, <1>2 DEF Fault
  <2>2. QED
    BY <1>t, <1>2, <2>1 DEF Cause
<1>3. QED
  BY <1>1, <1>2 DEF Probe

\* Steps that leave the mounts alone: p goes where no mount may be only when there is none.
LEMMA QuietStep ==
    ASSUME NetworkStorageAssumption, NetworkInv, NetworkTypeOK', NEW p \in Proc,
           \A q \in Proc \ {p} : pc'[q] = pc[q] /\ about'[q] = about[q],
           AtWork(p)' => about'[p] \in Share,
           mounts' = mounts, blame \subseteq blame', wiped' = wiped,
           pc'[p] \in {"deletingFiles", "mounting"} => mounts = <<>> \/ Excused(blame')
    PROVE  NetworkInv'
<1>1. AboutInv'
  BY DEF NetworkInv, AboutInv, AtWork
<1>2. PathInv'
  <2>1. Excused(blame) => Excused(blame')
    BY DEF Excused
  <2>2. QED
    BY <2>1 DEF NetworkInv, PathInv
<1>3. QED
  BY <1>1, <1>2 DEF NetworkInv

\* A step of p that mounts or unmounts something is to blame if others are at work.
LEMMA MountsStep ==
    ASSUME NetworkStorageAssumption, NetworkInv, NetworkTypeOK', NEW p \in Proc,
           \A q \in Proc \ {p} : pc'[q] = pc[q] /\ about'[q] = about[q],
           AtWork(p)' => about'[p] \in Share,
           Blame(p, {}), wiped' = wiped,
           Len(mounts) <= 1 /\ (pc[p] = "mounting" => mounts = <<>>) => Len(mounts') <= 1,
           pc'[p] # "mounting",
           pc'[p] = "deletingFiles" /\ Len(mounts) <= 1 => mounts' = <<>>
    PROVE  NetworkInv'
<1>1. AboutInv'
  BY DEF NetworkInv, AboutInv, AtWork
<1>2. Excused(blame) => Excused(blame')
  BY DEF Excused, Blame
<1>3. ASSUME NEW q \in Proc \ {p}, AtWork(q), mounts' # mounts PROVE Excused(blame')
  <2>1. "crossing" \in blame'
    BY <1>3 DEF Blame
  <2>2. QED
    BY <2>1 DEF Excused
<1>4. ASSUME ~Excused(blame')
      PROVE  Len(mounts') <= 1 /\ \A q \in Proc : pc'[q] \in {"deletingFiles", "mounting"} => mounts' = <<>>
  <2>1. PathInv /\ ~Excused(blame)
    BY <1>2, <1>4 DEF NetworkInv
  <2>2. Len(mounts') <= 1
    BY <2>1 DEF PathInv
  <2>3. ASSUME NEW q \in Proc \ {p}, pc'[q] \in {"deletingFiles", "mounting"} PROVE mounts' = <<>>
    <3>1. AtWork(q) /\ pc[q] \in {"deletingFiles", "mounting"}
      BY <2>3 DEF AtWork
    <3>2. mounts' = mounts
      BY <1>3, <1>4, <3>1
    <3>3. QED
      BY <2>1, <3>1, <3>2 DEF PathInv
  <2>4. pc'[p] \in {"deletingFiles", "mounting"} => mounts' = <<>>
    BY <2>1 DEF PathInv
  <2>5. QED
    BY <2>2, <2>3, <2>4
<1>5. PathInv'
  BY <1>2, <1>4 DEF PathInv, NetworkInv
<1>6. QED
  BY <1>1, <1>5 DEF NetworkInv

LEMMA AskStep ==
    ASSUME NetworkStorageAssumption, NetworkInv, NEW r \in ShareRequest, NEW s \in Share,
           AskAdd(r, s) \/ AskExisting(r, s)
    PROVE  NetworkInv'
<1>1. r \in Proc /\ {"checking", "reading"} \subseteq ShareStep
  BY DEF Proc, ShareStep
<1>2. /\ pc' \in [Proc -> ShareStep \cup {"idle", "done"}] /\ pc'[r] \in {"checking", "reading"}
      /\ \A q \in Proc \ {r} : pc'[q] = pc[q]
  BY <1>1, Moves DEF AskAdd, AskExisting, NetworkInv
<1>3. about' = [about EXCEPT ![r] = s] /\ watching' = TRUE /\ UNCHANGED <<host, blame, failures>>
  BY DEF AskAdd, AskExisting
<1>4. op' \in [Proc -> ShareOp \cup {NoShare}] /\ about' \in [Proc -> Share \cup {NoShare}]
  BY <1>1, <1>3 DEF AskAdd, AskExisting, NetworkInv, NetworkTypeOK, ShareOp
<1>5. NetworkTypeOK'
  BY <1>2, <1>3, <1>4 DEF NetworkInv, NetworkTypeOK, host
<1>6. about'[r] = s /\ \A q \in Proc \ {r} : about'[q] = about[q]
  BY <1>1, <1>3 DEF NetworkInv, NetworkTypeOK
<1>7. QED
  BY <1>1, <1>2, <1>3, <1>5, <1>6, QuietStep DEF host

\* A step of a request or of the watcher at work that leaves the mounts alone.
LEMMA Working ==
    ASSUME NetworkStorageAssumption, NetworkInv, NEW p \in Proc, AtWork(p),
           NEW s \in ShareStep \cup {"idle", "done"}, Proceed(p, s),
           UNCHANGED <<mounts, wiped, op, about, watching>>,
           record' \in Share \cup {NoShare}, folder' \in BOOLEAN, failures' \in 0..MaxFailures,
           blame \subseteq blame', blame' \subseteq Cause,
           s \in {"deletingFiles", "mounting"} => mounts = <<>> \/ Excused(blame')
    PROVE  NetworkInv'
<1>1. /\ pc' \in [Proc -> ShareStep \cup {"idle", "done"}]
      /\ pc'[p] = s /\ \A q \in Proc \ {p} : pc'[q] = pc[q]
  BY Moves DEF NetworkInv
<1>2. NetworkTypeOK'
  BY <1>1 DEF NetworkInv, NetworkTypeOK
<1>3. QED
  BY <1>1, <1>2, QuietStep DEF NetworkInv, AboutInv

LEMMA Ending == ASSUME NEW p \in Proc, End(p) PROVE \E s \in {"idle", "done"} : Proceed(p, s)
<1>1. (IF p = Watcher THEN "idle" ELSE "done") \in {"idle", "done"}
  OBVIOUS
<1>2. QED
  BY <1>1 DEF End

LEMMA EndStep ==
    ASSUME NetworkStorageAssumption, NetworkInv, NEW p \in Proc, AtWork(p), End(p),
           UNCHANGED <<mounts, wiped, op, about, watching>>,
           record' \in Share \cup {NoShare}, folder' \in BOOLEAN, failures' \in 0..MaxFailures,
           blame \subseteq blame', blame' \subseteq Cause
    PROVE  NetworkInv'
<1>1. PICK s \in {"idle", "done"} : Proceed(p, s)
  BY Ending
<1>2. s \in ShareStep \cup {"idle", "done"} /\ s \notin {"deletingFiles", "mounting"}
  OBVIOUS
<1>3. QED
  BY <1>1, <1>2, Working

\* What a failure and blame add.
LEMMA Failing ==
    ASSUME NetworkStorageAssumption, NetworkTypeOK, Fault PROVE failures' \in 0..MaxFailures
<1>1. failures \in 0..MaxFailures /\ MaxFailures \in Nat
  BY DEF NetworkStorageAssumption, NetworkTypeOK
<1>2. QED
  BY <1>1 DEF Fault

LEMMA Blaming ==
    ASSUME NetworkTypeOK, NEW p \in Proc, NEW causes \in SUBSET Cause, Blame(p, causes)
    PROVE  blame \subseteq blame' /\ blame' \subseteq Cause
BY DEF NetworkTypeOK, Blame, Cause

LEMMA Types == NetworkInv =>
    /\ record \in Share \cup {NoShare} /\ folder \in BOOLEAN /\ failures \in 0..MaxFailures
    /\ blame \subseteq Cause
BY DEF NetworkInv, NetworkTypeOK

LEMMA RowsStep ==
    ASSUME NetworkStorageAssumption, NetworkInv, NEW p \in Proc,
           Check(p) \/ Insert(p) \/ Read(p) \/ Touch(p) \/ DeleteRow(p)
    PROVE  NetworkInv'
<1> USE Types
<1>a. AtWork(p) /\ about[p] \in Share
  BY DEF Check, Insert, Read, Touch, DeleteRow, AtWork, NetworkInv, AboutInv
<1>t. NetworkTypeOK
  BY DEF NetworkInv
<1>1. CASE Check(p)
  <2>1. UNCHANGED <<record, mounts, folder, wiped, op, about, watching, blame, failures>>
    BY <1>1 DEF Check, host
  <2>2. CASE Proceed(p, "inserting")
    BY <1>a, <2>1, <2>2, Working DEF ShareStep
  <2>3. CASE End(p)
    BY <1>a, <2>1, <2>3, EndStep
  <2>4. QED
    BY <1>1, <2>2, <2>3 DEF Check
<1>2. CASE Insert(p)
  <2>1. UNCHANGED <<mounts, folder, wiped, op, about, watching, failures>> /\ Blame(p, {})
    BY <1>2 DEF Insert
  <2>2. blame \subseteq blame' /\ blame' \subseteq Cause
    BY <1>t, <2>1, Blaming
  <2>3. CASE record' = about[p] /\ Proceed(p, "making")
    BY <1>a, <2>1, <2>2, <2>3, Working DEF ShareStep
  <2>4. CASE End(p) /\ record' = record
    BY <1>a, <2>1, <2>2, <2>4, EndStep
  <2>5. QED
    BY <1>2, <2>3, <2>4 DEF Insert
<1>3. CASE Read(p)
  <2>1. UNCHANGED <<record, mounts, folder, wiped, op, about, watching, blame, failures>>
    BY <1>3 DEF Read, host
  <2>2. CASE Proceed(p, IF op[p] = "mount" THEN "making" ELSE "asking")
    <3>1. CASE op[p] = "mount"
      BY <1>a, <2>1, <2>2, <3>1, Working DEF ShareStep
    <3>2. CASE op[p] # "mount"
      BY <1>a, <2>1, <2>2, <3>2, Working DEF ShareStep
    <3>3. QED
      BY <3>1, <3>2
  <2>3. CASE End(p)
    BY <1>a, <2>1, <2>3, EndStep
  <2>4. QED
    BY <1>3, <2>2, <2>3 DEF Read
<1>4. CASE Touch(p)
  <2>1. UNCHANGED <<record, mounts, folder, wiped, op, about, watching>>
    BY <1>4 DEF Touch, host
  <2>2. CASE End(p) /\ UNCHANGED <<blame, failures>>
    BY <1>a, <2>1, <2>2, EndStep
  <2>3. CASE Fault /\ End(p) /\ blame' = blame
    BY <1>a, <1>t, <2>1, <2>3, EndStep, Failing
  <2>4. CASE Fault /\ Proceed(p, "undoing") /\ blame' = blame \cup {"database"}
    <3>1. blame' \subseteq Cause /\ failures' \in 0..MaxFailures
      BY <1>t, <2>4, Failing DEF Cause
    <3>2. QED
      BY <1>a, <2>1, <2>4, <3>1, Working DEF ShareStep
  <2>5. QED
    BY <1>4, <2>2, <2>3, <2>4 DEF Touch
<1>5. CASE DeleteRow(p)
  <2>1. UNCHANGED <<mounts, folder, wiped, op, about, watching>> /\ End(p)
    BY <1>5 DEF DeleteRow
  <2>2. PICK causes \in {{}, {"database"}} : Blame(p, causes)
    BY <1>5 DEF DeleteRow
  <2>3. blame \subseteq blame' /\ blame' \subseteq Cause
    BY <1>t, <2>2, Blaming DEF Cause
  <2>4. record' \in Share \cup {NoShare} /\ failures' \in 0..MaxFailures
    BY <1>5, <1>t, Failing DEF DeleteRow
  <2>5. QED
    BY <1>a, <2>1, <2>3, <2>4, EndStep
<1>6. QED
  BY <1>1, <1>2, <1>3, <1>4, <1>5

LEMMA ProbesStep ==
    ASSUME NetworkStorageAssumption, NetworkInv, NEW p \in Proc,
           Look(p) \/ ProbeMount(p) \/ AskToUnmount(p) \/ Verify(p)
    PROVE  NetworkInv'
<1> USE Types
<1>1. AtWork(p) /\ UNCHANGED <<record, mounts, folder, wiped, op, about, watching>>
  BY DEF Look, ProbeMount, AskToUnmount, Verify, AtWork, host
<1>2. PICK answer \in BOOLEAN :
        /\ Probe(p, answer)
        /\ \/ End(p)
           \/ \E s \in {"making", "touching", "unmounting", "deletingRow"} : Proceed(p, s)
           \/ ~answer /\ \E s \in {"mounting", "deletingFiles"} : Proceed(p, s)
  <2>1. CASE Look(p)
    BY <2>1 DEF Look
  <2>2. CASE ProbeMount(p)
    <3>1. PICK answer \in BOOLEAN :
            Probe(p, answer) /\ Proceed(p, IF answer THEN "touching" ELSE "mounting")
      BY <2>2 DEF ProbeMount
    <3>2. CASE answer
      BY <3>1, <3>2
    <3>3. CASE ~answer
      BY <3>1, <3>3
    <3>4. QED
      BY <3>2, <3>3
  <2>3. CASE AskToUnmount(p)
    <3>1. PICK answer \in BOOLEAN :
            Probe(p, answer) /\ Proceed(p, IF answer THEN "unmounting" ELSE "deletingFiles")
      BY <2>3 DEF AskToUnmount
    <3>2. CASE answer
      BY <3>1, <3>2
    <3>3. CASE ~answer
      BY <3>1, <3>3
    <3>4. QED
      BY <3>2, <3>3
  <2>4. CASE Verify(p)
    BY <2>4 DEF Verify
  <2>5. QED
    BY <2>1, <2>2, <2>3, <2>4
<1>3. /\ ~answer => mounts = <<>> \/ Excused(blame')
      /\ blame \subseteq blame' /\ blame' \subseteq Cause /\ failures' \in 0..MaxFailures
  BY <1>2, Probes DEF NetworkInv, Mounted, Excused
<1>4. CASE End(p)
  BY <1>1, <1>3, <1>4, EndStep
<1>5. CASE \E s \in {"making", "touching", "unmounting", "deletingRow"} : Proceed(p, s)
  <2>1. PICK s \in {"making", "touching", "unmounting", "deletingRow"} : Proceed(p, s)
    BY <1>5
  <2>2. s \in ShareStep \cup {"idle", "done"} /\ s \notin {"deletingFiles", "mounting"}
    BY DEF ShareStep
  <2>3. QED
    BY <1>1, <1>3, <2>1, <2>2, Working
<1>6. CASE ~answer /\ \E s \in {"mounting", "deletingFiles"} : Proceed(p, s)
  <2>1. PICK s \in {"mounting", "deletingFiles"} : Proceed(p, s)
    BY <1>6
  <2>2. s \in ShareStep \cup {"idle", "done"}
    BY DEF ShareStep
  <2>3. QED
    BY <1>1, <1>3, <1>6, <2>1, <2>2, Working
<1>7. QED
  BY <1>2, <1>4, <1>5, <1>6

LEMMA FolderStep ==
    ASSUME NetworkStorageAssumption, NetworkInv, NEW p \in Proc,
           MakeFolder(p) \/ MountFails(p) \/ UnmountFails(p)
    PROVE  NetworkInv'
<1> USE Types
<1>t. NetworkTypeOK
  BY DEF NetworkInv
<1>1. CASE MakeFolder(p)
  <2>1. AtWork(p) /\ folder' \in BOOLEAN
    BY <1>1 DEF MakeFolder, AtWork
  <2>2. QED
    BY <1>1, <2>1, Working DEF MakeFolder, ShareStep
<1>2. CASE MountFails(p)
  <2>1. AtWork(p) /\ UNCHANGED <<record, mounts, folder, wiped, op, about, watching, blame>>
    BY <1>2 DEF MountFails, AtWork, host
  <2>2. failures' \in 0..MaxFailures
    <3>1. Fault \/ UNCHANGED failures
      BY <1>2 DEF MountFails
    <3>2. QED
      BY <1>t, <3>1, Failing
  <2>3. CASE End(p)
    BY <2>1, <2>2, <2>3, EndStep
  <2>4. CASE Proceed(p, "undoing")
    BY <2>1, <2>2, <2>4, Working DEF ShareStep
  <2>5. QED
    BY <1>2, <2>3, <2>4 DEF MountFails
<1>3. CASE UnmountFails(p)
  <2>1. AtWork(p) /\ UNCHANGED <<record, mounts, folder, wiped, op, about, watching, blame>>
    BY <1>3 DEF UnmountFails, AtWork, host
  <2>2. failures' \in 0..MaxFailures
    BY <1>3, <1>t, Failing DEF UnmountFails
  <2>3. CASE End(p)
    BY <2>1, <2>2, <2>3, EndStep
  <2>4. CASE Proceed(p, "verifying")
    BY <2>1, <2>2, <2>4, Working DEF ShareStep
  <2>5. QED
    BY <1>3, <2>3, <2>4 DEF UnmountFails, Throws
<1>4. QED
  BY <1>1, <1>2, <1>3

\* A request that mounts found nothing mounted, or is excused.
LEMMA MountStep ==
    ASSUME NetworkStorageAssumption, NetworkInv, NEW p \in Proc, Mount(p)
    PROVE  NetworkInv'
<1>1. /\ NetworkTypeOK /\ AtWork(p) /\ about[p] \in Share /\ mounts \in Seq(Share)
      /\ pc[p] = "mounting"
  BY DEF Mount, AtWork, NetworkInv, NetworkTypeOK, AboutInv
<1>2. /\ pc' \in [Proc -> ShareStep \cup {"idle", "done"}]
      /\ pc'[p] = "touching" /\ \A q \in Proc \ {p} : pc'[q] = pc[q]
  BY <1>1, Moves DEF Mount, ShareStep
<1>3. mounts' \in Seq(Share) /\ (mounts = <<>> => Len(mounts') <= 1)
  BY <1>1 DEF Mount
<1>4. UNCHANGED <<record, folder, wiped, op, about, watching, failures>> /\ Blame(p, {})
  BY DEF Mount
<1>5. blame' \subseteq Cause
  BY <1>1, <1>4, Blaming
<1>6. NetworkTypeOK'
  BY <1>1, <1>2, <1>3, <1>4, <1>5 DEF NetworkTypeOK
<1>7. QED
  BY <1>1, <1>2, <1>3, <1>4, <1>6, MountsStep

\* Of at most one share nothing is left.
LEMMA UnmountStep ==
    ASSUME NetworkStorageAssumption, NetworkInv, NEW p \in Proc, Unmount(p)
    PROVE  NetworkInv'
<1>1. /\ NetworkTypeOK /\ AtWork(p) /\ about[p] \in Share /\ mounts \in Seq(Share)
      /\ pc[p] = "unmounting"
  BY DEF Unmount, AtWork, NetworkInv, NetworkTypeOK, AboutInv
<1>2. /\ pc' \in [Proc -> ShareStep \cup {"idle", "done"}]
      /\ pc'[p] = "deletingFiles" /\ \A q \in Proc \ {p} : pc'[q] = pc[q]
  BY <1>1, Moves DEF Unmount, ShareStep
<1>3. mounts' \in Seq(Share) /\ (Len(mounts) <= 1 => mounts' = <<>> /\ Len(mounts') = 0)
  <2>1. CASE mounts = <<>>
    BY <2>1 DEF Unmount, Mounted
  <2>2. CASE mounts # <<>>
    <3>1. mounts' = SubSeq(mounts, 1, Len(mounts) - 1)
      BY <2>2 DEF Unmount, Mounted
    <3>2. Len(mounts) \in Nat /\ Len(mounts) >= 1
      BY <1>1, <2>2
    <3>3. mounts' \in Seq(Share) /\ Len(mounts') = Len(mounts) - 1
      <4> DEFINE n == Len(mounts) - 1
                 rest == SubSeq(mounts, 1, n)
      <4>1. n \in Nat /\ \A i \in 1..n : mounts[i] \in Share
        BY <1>1, <3>2
      <4>2. rest \in Seq(Share) /\ Len(rest) = IF 1 <= n THEN n - 1 + 1 ELSE 0
        <5> HIDE DEF n
        <5>1. n \in Int /\ 1 \in Int
          BY <4>1
        <5>2. QED
          BY <4>1, <5>1, SubSeqProperties
      <4>3. Len(rest) = n
        <5> HIDE DEF rest, n
        <5>1. QED
          BY <4>1, <4>2
      <4>4. QED
        BY <3>1, <4>2, <4>3
    <3>4. Len(mounts) <= 1 => Len(mounts') = 0
      BY <3>2, <3>3
    <3>5. QED
      BY <3>3, <3>4, EmptySeq
  <2>3. QED
    BY <2>1, <2>2
<1>4. UNCHANGED <<record, folder, wiped, op, about, watching, failures>> /\ Blame(p, {})
  BY DEF Unmount
<1>5. blame' \subseteq Cause
  BY <1>1, <1>4, Blaming
<1>6. NetworkTypeOK'
  BY <1>1, <1>2, <1>3, <1>4, <1>5 DEF NetworkTypeOK
<1>7. Len(mounts) <= 1 => Len(mounts') <= 1
  BY <1>3
<1>8. QED
  BY <1>1, <1>2, <1>3, <1>4, <1>6, <1>7, MountsStep

\* Files below a mount are deleted by a request that is excused only.
LEMMA DeleteFilesStep ==
    ASSUME NetworkStorageAssumption, NetworkInv, NEW p \in Proc, DeleteFiles(p)
    PROVE  NetworkInv'
<1> USE Types
<1>1. /\ NetworkTypeOK /\ AtWork(p) /\ pc[p] = "deletingFiles"
      /\ UNCHANGED <<record, mounts, op, about, watching, blame, failures>>
  BY DEF DeleteFiles, AtWork, NetworkInv
<1>2. CASE mounts # <<>>
  <2>1. Excused(blame) /\ Excused(blame')
    BY <1>1, <1>2 DEF NetworkInv, PathInv
  <2>2. wiped' = TRUE /\ folder' = folder /\ Throws(p)
    BY <1>2 DEF DeleteFiles, Mounted
  <2>3. \E s \in {"idle", "done", "verifying"} : Proceed(p, s)
    BY <2>2, Ending DEF Throws
  <2>4. pc' \in [Proc -> ShareStep \cup {"idle", "done"}] /\ \A q \in Proc \ {p} : pc'[q] = pc[q]
    BY <1>1, <2>3, Moves DEF ShareStep
  <2>5. NetworkTypeOK'
    BY <1>1, <2>2, <2>4 DEF NetworkTypeOK
  <2>6. AboutInv'
    BY <1>1, <2>4 DEF NetworkInv, AboutInv, AtWork
  <2>7. QED
    BY <2>1, <2>5, <2>6 DEF NetworkInv, PathInv
<1>3. CASE mounts = <<>>
  <2>1. wiped' = wiped /\ folder' \in BOOLEAN
    BY <1>3 DEF DeleteFiles, Mounted
  <2>2. PICK s \in {"deletingRow", "touching"} : Proceed(p, s)
    <3>1. Proceed(p, IF op[p] = "remove" THEN "deletingRow" ELSE "touching")
      BY <1>3 DEF DeleteFiles, Mounted
    <3>2. (IF op[p] = "remove" THEN "deletingRow" ELSE "touching") \in {"deletingRow", "touching"}
      OBVIOUS
    <3>3. QED
      BY <3>1, <3>2
  <2>3. s \in ShareStep \cup {"idle", "done"} /\ s \notin {"deletingFiles", "mounting"}
    BY DEF ShareStep
  <2>4. QED
    BY <1>1, <2>1, <2>2, <2>3, Working
<1>4. QED
  BY <1>2, <1>3

LEMMA WatcherStep ==
    ASSUME NetworkStorageAssumption, NetworkInv, Visit \/ WatcherTick
    PROVE  NetworkInv'
<1>1. CASE Visit
  <2>1. UNCHANGED <<record, mounts, folder, wiped, pc, op, about, blame, failures>> /\ watching' = TRUE
    BY <1>1 DEF Visit, host
  <2>2. NetworkTypeOK'
    BY <2>1 DEF NetworkInv, NetworkTypeOK
  <2>3. QED
    BY <2>1, <2>2 DEF NetworkInv, AboutInv, AtWork, PathInv
<1>2. CASE WatcherTick /\ record = NoShare
  <2>1. UNCHANGED <<record, mounts, folder, wiped, pc, op, about, watching, blame, failures>>
    BY <1>2 DEF WatcherTick, host
  <2>2. QED
    BY <2>1 DEF NetworkInv, NetworkTypeOK, AboutInv, AtWork, PathInv
<1>3. CASE WatcherTick /\ record # NoShare
  <2>1. /\ Watcher \in Proc /\ record \in Share
        /\ Proceed(Watcher, "looking")
        /\ op' = [op EXCEPT ![Watcher] = "watch"] /\ about' = [about EXCEPT ![Watcher] = record]
        /\ UNCHANGED <<record, mounts, folder, wiped, watching, blame, failures>>
    BY <1>3 DEF WatcherTick, host, Proc, NetworkInv, NetworkTypeOK
  <2>2. /\ pc' \in [Proc -> ShareStep \cup {"idle", "done"}] /\ pc'[Watcher] = "looking"
        /\ \A q \in Proc \ {Watcher} : pc'[q] = pc[q]
    BY <2>1, Moves DEF NetworkInv, ShareStep
  <2>3. /\ op' \in [Proc -> ShareOp \cup {NoShare}] /\ about' \in [Proc -> Share \cup {NoShare}]
        /\ about'[Watcher] = record /\ \A q \in Proc \ {Watcher} : about'[q] = about[q]
    BY <2>1 DEF NetworkInv, NetworkTypeOK, ShareOp
  <2>4. NetworkTypeOK'
    BY <2>1, <2>2, <2>3 DEF NetworkInv, NetworkTypeOK
  <2>5. QED
    BY <2>1, <2>2, <2>3, <2>4, QuietStep
<1>4. QED
  BY <1>1, <1>2, <1>3

LEMMA RebootStep ==
    ASSUME NetworkStorageAssumption, NetworkInv, HostReboots PROVE NetworkInv'
<1>1. /\ mounts' = <<>> /\ watching' = FALSE /\ UNCHANGED <<record, folder, op, about, blame, wiped>>
      /\ pc' = [p \in Proc |-> IF p = Watcher \/ pc[p] = "idle" THEN "idle" ELSE "done"]
  BY DEF HostReboots
<1>2. failures' \in 0..MaxFailures
  BY Failing DEF HostReboots, NetworkInv
<1>3. \A p \in Proc : pc'[p] \in {"idle", "done"}
  BY <1>1
<1>4. pc' \in [Proc -> ShareStep \cup {"idle", "done"}]
  BY <1>1
<1>5. mounts' \in Seq(Share) /\ Len(mounts') = 0
  BY <1>1
<1>6. NetworkTypeOK'
  BY <1>1, <1>2, <1>4, <1>5 DEF NetworkInv, NetworkTypeOK
<1>7. QED
  BY <1>1, <1>3, <1>5, <1>6 DEF NetworkInv, AboutInv, AtWork, PathInv

LEMMA NetworkStep ==
    ASSUME NetworkStorageAssumption, NetworkInv, [NetworkNext]_networkVars PROVE NetworkInv'
<1>1. ASSUME NEW r \in ShareRequest, NEW s \in Share, AskAdd(r, s) \/ AskExisting(r, s)
      PROVE  NetworkInv'
  BY <1>1, AskStep
<1>2. CASE Visit \/ WatcherTick
  BY <1>2, WatcherStep
<1>3. ASSUME NEW p \in Proc, Steps(p) PROVE NetworkInv'
  BY <1>3, RowsStep, ProbesStep, FolderStep, MountStep, UnmountStep, DeleteFilesStep DEF Steps
<1>4. CASE HostReboots
  BY <1>4, RebootStep
<1>5. CASE UNCHANGED networkVars
  <2>1. UNCHANGED <<record, mounts, folder, wiped, pc, op, about, watching, blame, failures>>
    BY <1>5 DEF networkVars
  <2>2. QED
    BY <2>1 DEF NetworkInv, NetworkTypeOK, AboutInv, AtWork, PathInv
<1>6. QED
  BY <1>1, <1>2, <1>3, <1>4, <1>5 DEF NetworkNext

\* Rows, mounts and requests have their types: requests and the watcher are at a step of the code.
THEOREM NetworkTypeCorrect == NetworkStorageAssumption => (NetworkSpec => []NetworkTypeOK)
<1> SUFFICES ASSUME NetworkStorageAssumption PROVE NetworkSpec => []NetworkTypeOK
  OBVIOUS
<1>1. NetworkInit => NetworkInv
  BY NetworkInitInv
<1>2. NetworkInv /\ [NetworkNext]_networkVars => NetworkInv'
  BY NetworkStep
<1>3. NetworkInv => NetworkTypeOK
  BY DEF NetworkInv
<1>4. QED
  BY <1>1, <1>2, <1>3, PTL DEF NetworkSpec

\* removeShare and unmountShare run rm -rf on the mount path: for any number of requests, of
\* shares and of failures, files of a mounted share are deleted only after a probe failed or a
\* mount or an unmount came between the steps of another request.
THEOREM SharesStayIntact == NetworkStorageAssumption => (NetworkSpec => []SharesKeepTheirFiles)
<1> SUFFICES ASSUME NetworkStorageAssumption PROVE NetworkSpec => []SharesKeepTheirFiles
  OBVIOUS
<1>1. NetworkInit => NetworkInv
  BY NetworkInitInv
<1>2. NetworkInv /\ [NetworkNext]_networkVars => NetworkInv'
  BY NetworkStep
<1>3. NetworkInv => SharesKeepTheirFiles
  BY DEF NetworkInv, PathInv, Excused, SharesKeepTheirFiles
<1>4. QED
  BY <1>1, <1>2, <1>3, PTL DEF NetworkSpec

-------------------------------------------------------------------------------
(* What RowIsMounted rests on: unless something is to blame, what is mounted is what the row says, *)
(* so that the watcher has only to mount it.                                                       *)

\* Where a request has not found its row yet, or is done with it.
Rowless == {"idle", "done", "checking", "inserting", "reading"}

MountInv ==
    blame = {} =>
        /\ mounts = <<>> \/ mounts = <<record>>
        /\ \A p \in Proc : pc[p] \notin Rowless => record = about[p]
        /\ \A p \in Proc : pc[p] \in {"undoing", "deletingRow"} => mounts = <<>>

\* A step that changes neither the row nor the mounts.
LEMMA MountStays ==
    ASSUME NetworkTypeOK, MountInv, NEW p \in Proc, NEW s \in ShareStep \cup {"idle", "done"}, Proceed(p, s),
           UNCHANGED <<record, mounts>>, blame' = {} => blame = {},
           \A q \in Proc \ {p} : about'[q] = about[q],
           blame' = {} /\ s \notin Rowless => record = about'[p],
           blame' = {} /\ s \in {"undoing", "deletingRow"} => mounts = <<>>
    PROVE  MountInv'
<1>1. pc'[p] = s /\ \A q \in Proc \ {p} : pc'[q] = pc[q]
  BY Moves
<1>2. QED
  BY <1>1 DEF MountInv

\* A step that changes the row or the mounts while nobody else is at work, or is blamed for it.
LEMMA MountChanges ==
    ASSUME NetworkTypeOK, MountInv, NEW p \in Proc, NEW s \in ShareStep \cup {"idle", "done"}, Proceed(p, s),
           NEW causes, Blame(p, causes), about' = about,
           blame' = {} => mounts' = <<>> \/ mounts' = <<record'>>,
           blame' = {} /\ s \notin Rowless => record' = about[p],
           s \notin {"undoing", "deletingRow"}
    PROVE  MountInv'
<1>1. pc'[p] = s /\ \A q \in Proc \ {p} : pc'[q] = pc[q]
  BY Moves
<1>2. blame' = {} => blame = {}
  BY DEF Blame
<1>3. blame' = {} => (record' = record /\ mounts' = mounts) \/ \A q \in Proc \ {p} : ~AtWork(q)
  BY DEF Blame
<1>4. \A q \in Proc : ~AtWork(q) => pc[q] \in {"idle", "done"}
  BY DEF AtWork
<1>5. QED
  BY <1>1, <1>2, <1>3, <1>4 DEF MountInv, Rowless

LEMMA MountAsks ==
    ASSUME NetworkStorageAssumption, NetworkInv, MountInv, NEW r \in ShareRequest, NEW s \in Share,
           AskAdd(r, s) \/ AskExisting(r, s)
    PROVE  MountInv'
<1> USE DEF host
<1>1. r \in Proc /\ \A q \in Proc \ {r} : about'[q] = about[q]
  BY DEF AskAdd, AskExisting, Proc, NetworkInv, NetworkTypeOK
<1>2. PICK t \in {"checking", "reading"} : Proceed(r, t)
  BY DEF AskAdd, AskExisting
<1>3. t \in ShareStep /\ t \in Rowless /\ t \notin {"undoing", "deletingRow"}
  BY DEF ShareStep, Rowless
<1>4. UNCHANGED <<record, mounts, blame>>
  BY DEF AskAdd, AskExisting
<1>5. QED
  BY <1>1, <1>2, <1>3, <1>4, MountStays DEF NetworkInv

LEMMA MountTicks ==
    ASSUME NetworkStorageAssumption, NetworkInv, MountInv, WatcherTick
    PROVE  MountInv'
<1> USE DEF host
<1>1. UNCHANGED <<record, mounts, blame>>
  BY DEF WatcherTick
<1>2. CASE record = NoShare
  BY <1>1, <1>2 DEF WatcherTick, MountInv
<1>3. CASE record # NoShare
  <2>1. /\ Watcher \in Proc /\ about'[Watcher] = record
        /\ \A q \in Proc \ {Watcher} : about'[q] = about[q]
    BY <1>3 DEF WatcherTick, Proc, NetworkInv, NetworkTypeOK
  <2>2. Proceed(Watcher, "looking") /\ "looking" \in ShareStep
    BY <1>3 DEF WatcherTick, ShareStep
  <2>3. QED
    BY <1>1, <2>1, <2>2, MountStays DEF NetworkInv
<1>4. QED
  BY <1>2, <1>3

\* A request that goes on with its row, or ends.
LEMMA MountEnds ==
    ASSUME NetworkTypeOK, MountInv, NEW p \in Proc, End(p),
           UNCHANGED <<record, mounts, about>>, blame \subseteq blame'
    PROVE  MountInv'
<1>1. PICK s \in {"idle", "done"} : Proceed(p, s)
  BY Ending
<1>2. s \in Rowless /\ s \notin {"undoing", "deletingRow"} /\ s \in ShareStep \cup {"idle", "done"}
  BY DEF Rowless
<1>3. QED
  BY <1>1, <1>2, MountStays

LEMMA MountGoesOn ==
    ASSUME NetworkTypeOK, MountInv, NEW p \in Proc, pc[p] \notin Rowless,
           NEW s \in ShareStep \ {"undoing", "deletingRow"}, Proceed(p, s),
           UNCHANGED <<record, mounts, about>>, blame \subseteq blame'
    PROVE  MountInv'
<1>1. blame = {} => record = about[p]
  BY DEF MountInv
<1>2. QED
  BY <1>1, MountStays

LEMMA MountRows ==
    ASSUME NetworkStorageAssumption, NetworkInv, MountInv, NEW p \in Proc,
           Check(p) \/ Insert(p) \/ Read(p) \/ Touch(p) \/ DeleteRow(p)
    PROVE  MountInv'
<1> USE DEF host
<1>t. NetworkTypeOK
  BY DEF NetworkInv
<1>s. \A s \in {"inserting", "making", "asking", "undoing"} : s \in ShareStep
  BY DEF ShareStep
<1>r. /\ "touching" \notin Rowless /\ "inserting" \in Rowless /\ "making" \notin Rowless
      /\ "idle" \in Rowless /\ "done" \in Rowless
  BY DEF Rowless
<1>1. CASE Check(p)
  <2>1. UNCHANGED <<record, mounts, about, blame>> /\ (End(p) \/ Proceed(p, "inserting"))
    BY <1>1 DEF Check
  <2>2. CASE End(p)
    BY <1>t, <2>1, <2>2, MountEnds
  <2>3. CASE Proceed(p, "inserting")
    BY <1>t, <1>s, <1>r, <2>1, <2>3, MountStays
  <2>4. QED
    BY <2>1, <2>2, <2>3
<1>2. CASE Insert(p)
  <2>1. UNCHANGED <<mounts, about>> /\ Blame(p, {})
    BY <1>2 DEF Insert
  <2>2. CASE record = NoShare
    <3>1. record' = about[p] /\ Proceed(p, "making")
      BY <1>2, <2>2 DEF Insert
    <3>2. mounts # <<record>>
      <4>1. mounts \in Seq(Share) /\ NoShare \notin Share
        BY DEF NetworkInv, NetworkTypeOK, NetworkStorageAssumption
      <4>2. ASSUME mounts = <<record>> PROVE FALSE
        <5>1. Len(mounts) = 1 /\ mounts[1] = NoShare
          BY <2>2, <4>2
        <5>2. mounts[1] \in Share
          BY <4>1, <5>1, 1 \in 1..Len(mounts), ElementOfSeq
        <5>3. QED
          BY <4>1, <5>1, <5>2
      <4>3. QED
        BY <4>2
    <3>3. blame' = {} => mounts' = <<>>
      BY <2>1, <3>2 DEF MountInv, Blame
    <3>4. QED
      BY <1>t, <1>s, <2>1, <3>1, <3>3, MountChanges
  <2>3. CASE record # NoShare
    <3>1. End(p) /\ record' = record
      BY <1>2, <2>3 DEF Insert
    <3>2. blame \subseteq blame'
      BY <2>1 DEF Blame
    <3>3. QED
      BY <1>t, <2>1, <3>1, <3>2, MountEnds
  <2>4. QED
    BY <2>2, <2>3
<1>3. CASE Read(p)
  <2>1. UNCHANGED <<record, mounts, about, blame>>
    BY <1>3 DEF Read
  <2>2. CASE record # about[p]
    BY <1>t, <1>3, <2>1, <2>2, MountEnds DEF Read
  <2>3. CASE record = about[p]
    <3>1. PICK s \in {"making", "asking"} : Proceed(p, s)
      BY <1>3, <2>3 DEF Read
    <3>2. s \in ShareStep /\ s \notin {"undoing", "deletingRow"}
      BY <1>s
    <3>3. QED
      BY <1>t, <2>1, <2>3, <3>1, <3>2, MountStays
  <2>4. QED
    BY <2>2, <2>3
<1>4. CASE Touch(p)
  <2>1. UNCHANGED <<record, mounts, about>> /\ pc[p] = "touching"
    BY <1>4 DEF Touch
  <2>2. \/ End(p) /\ blame \subseteq blame'
        \/ Proceed(p, "undoing") /\ "database" \in blame'
    BY <1>4 DEF Touch
  <2>3. CASE End(p) /\ blame \subseteq blame'
    BY <1>t, <2>1, <2>3, MountEnds
  <2>4. CASE Proceed(p, "undoing") /\ "database" \in blame'
    BY <2>4 DEF MountInv
  <2>5. QED
    BY <2>2, <2>3, <2>4
<1>5. CASE DeleteRow(p)
  <2>1. /\ pc[p] \in {"undoing", "deletingRow"} /\ about' = about /\ mounts' = mounts /\ End(p)
        /\ \E causes : Blame(p, causes)
    BY <1>5 DEF DeleteRow
  <2>2. blame' = {} => mounts' = <<>>
    BY <2>1 DEF MountInv, Blame
  <2>3. PICK s \in {"idle", "done"} : Proceed(p, s)
    BY <2>1, Ending
  <2>4. s \in ShareStep \cup {"idle", "done"} /\ s \in Rowless /\ s \notin {"undoing", "deletingRow"}
    BY <1>r
  <2>5. QED
    BY <1>t, <2>1, <2>2, <2>3, <2>4, MountChanges
<1>6. QED
  BY <1>1, <1>2, <1>3, <1>4, <1>5

LEMMA MountProbes ==
    ASSUME NetworkStorageAssumption, NetworkInv, MountInv, NEW p \in Proc,
           Look(p) \/ ProbeMount(p) \/ AskToUnmount(p) \/ Verify(p)
    PROVE  MountInv'
<1> USE DEF host
<1>t. NetworkTypeOK
  BY DEF NetworkInv
<1>1. pc[p] \in {"looking", "probing", "asking", "verifying"} /\ UNCHANGED <<record, mounts, about>>
  BY DEF Look, ProbeMount, AskToUnmount, Verify
<1>2. PICK answer \in BOOLEAN :
         /\ Probe(p, answer)
         /\ \/ End(p)
            \/ \E s \in {"making", "touching", "mounting", "unmounting", "deletingFiles"} : Proceed(p, s)
            \/ ~answer /\ Proceed(p, "deletingRow")
  BY DEF Look, ProbeMount, AskToUnmount, Verify
<1>3. /\ blame \subseteq blame'
      /\ ~answer => ~Mounted \/ "probe" \in blame'
  BY <1>t, <1>2, Probes
<1>4. pc[p] \notin Rowless
  BY <1>1 DEF Rowless
<1>5. CASE End(p)
  BY <1>t, <1>1, <1>3, <1>5, MountEnds
<1>6. CASE \E s \in {"making", "touching", "mounting", "unmounting", "deletingFiles"} : Proceed(p, s)
  <2>1. PICK s \in {"making", "touching", "mounting", "unmounting", "deletingFiles"} : Proceed(p, s)
    BY <1>6
  <2>2. s \in ShareStep \ {"undoing", "deletingRow"}
    BY DEF ShareStep
  <2>3. QED
    BY <1>t, <1>1, <1>3, <1>4, <2>1, <2>2, MountGoesOn
<1>7. CASE ~answer /\ Proceed(p, "deletingRow")
  <2>1. blame' = {} => mounts = <<>>
    BY <1>3, <1>7 DEF Mounted
  <2>2. blame' = {} => record = about[p]
    BY <1>3, <1>4 DEF MountInv
  <2>3. "deletingRow" \in ShareStep
    BY DEF ShareStep
  <2>4. QED
    BY <1>t, <1>1, <1>3, <1>7, <2>1, <2>2, <2>3, MountStays
<1>8. QED
  BY <1>2, <1>5, <1>6, <1>7

LEMMA MountWorks ==
    ASSUME NetworkStorageAssumption, NetworkInv, MountInv, NEW p \in Proc,
           MakeFolder(p) \/ MountFails(p) \/ UnmountFails(p) \/ DeleteFiles(p)
    PROVE  MountInv'
<1> USE DEF host
<1>t. NetworkTypeOK
  BY DEF NetworkInv
<1>1. /\ pc[p] \in {"making", "mounting", "unmounting", "deletingFiles"}
      /\ UNCHANGED <<record, mounts, about, blame>>
  BY DEF MakeFolder, MountFails, UnmountFails, DeleteFiles
<1>2. pc[p] \notin Rowless
  BY <1>1 DEF Rowless
<1>3. \/ End(p)
      \/ \E s \in {"probing", "verifying", "touching"} : Proceed(p, s)
      \/ Proceed(p, "undoing") /\ pc[p] = "mounting"
      \/ Proceed(p, "deletingRow") /\ mounts = <<>>
  BY DEF MakeFolder, MountFails, UnmountFails, DeleteFiles, Throws, Mounted
<1>4. CASE End(p)
  BY <1>t, <1>1, <1>4, MountEnds
<1>5. CASE \E s \in {"probing", "verifying", "touching"} : Proceed(p, s)
  <2>1. PICK s \in {"probing", "verifying", "touching"} : Proceed(p, s)
    BY <1>5
  <2>2. s \in ShareStep \ {"undoing", "deletingRow"}
    BY DEF ShareStep
  <2>3. QED
    BY <1>t, <1>1, <1>2, <2>1, <2>2, MountGoesOn
<1>6. ASSUME NEW s \in {"undoing", "deletingRow"}, Proceed(p, s), pc[p] = "mounting" \/ mounts = <<>>
      PROVE  MountInv'
  <2>1. blame = {} => mounts = <<>>
    BY <1>6 DEF NetworkInv, PathInv, Excused
  <2>2. blame = {} => record = about[p]
    BY <1>2 DEF MountInv
  <2>3. s \in ShareStep \cup {"idle", "done"}
    BY DEF ShareStep
  <2>4. QED
    BY <1>t, <1>1, <1>6, <2>1, <2>2, <2>3, MountStays
<1>7. QED
  BY <1>3, <1>4, <1>5, <1>6

LEMMA MountMounts ==
    ASSUME NetworkStorageAssumption, NetworkInv, MountInv, NEW p \in Proc, Mount(p) \/ Unmount(p)
    PROVE  MountInv'
<1>t. NetworkTypeOK
  BY DEF NetworkInv
<1>1. UNCHANGED <<record, about>> /\ Blame(p, {}) /\ pc[p] \in {"mounting", "unmounting"}
  BY DEF Mount, Unmount
<1>2. blame' = {} => blame = {} /\ record = about[p]
  BY <1>1 DEF MountInv, Blame, Rowless
<1>3. CASE Mount(p)
  <2>1. Proceed(p, "touching") /\ "touching" \in ShareStep /\ mounts' = Append(mounts, about[p])
    BY <1>3 DEF Mount, ShareStep
  <2>2. blame' = {} => mounts = <<>>
    BY <1>2, <1>3 DEF Mount, NetworkInv, PathInv, Excused
  <2>3. blame' = {} => mounts' = <<record'>>
    BY <1>1, <1>2, <2>1, <2>2
  <2>4. QED
    BY <1>t, <1>1, <1>2, <2>1, <2>3, MountChanges
<1>4. CASE Unmount(p)
  <2>1. Proceed(p, "deletingFiles") /\ "deletingFiles" \in ShareStep
    BY <1>4 DEF Unmount, ShareStep
  <2>2. mounts' = IF mounts # <<>> THEN SubSeq(mounts, 1, Len(mounts) - 1) ELSE mounts
    BY <1>4 DEF Unmount, Mounted
  <2>3. mounts = <<record>> => SubSeq(mounts, 1, Len(mounts) - 1) = <<>>
    OBVIOUS
  <2>4. blame' = {} => mounts' = <<>>
    BY <1>2, <2>2, <2>3 DEF MountInv
  <2>5. QED
    BY <1>t, <1>1, <1>2, <2>1, <2>4, MountChanges
<1>5. QED
  BY <1>3, <1>4

LEMMA MountReboots ==
    ASSUME NetworkStorageAssumption, NetworkInv, MountInv, HostReboots PROVE MountInv'
<1>1. \A p \in Proc : pc'[p] \in {"idle", "done"}
  BY DEF HostReboots
<1>2. mounts' = <<>>
  BY DEF HostReboots
<1>3. QED
  BY <1>1, <1>2 DEF MountInv, Rowless

\* network-storage.ts: for any number of shares, requests, failures and restarts of the host,
\* unless a probe or the database failed or the row or the path changed under a request at work,
\* what is mounted on a path is the share of its row, and whoever is at work is about that share.
THEOREM MountsFollowRows == NetworkStorageAssumption => (NetworkSpec => []MountInv)
<1> SUFFICES ASSUME NetworkStorageAssumption PROVE NetworkSpec => []MountInv
  OBVIOUS
<1>1. NetworkInit => NetworkInv
  BY NetworkInitInv
<1>2. NetworkInit => MountInv
  BY DEF NetworkInit, MountInv, Rowless
<1>3. NetworkInv /\ [NetworkNext]_networkVars => NetworkInv'
  BY NetworkStep
<1>4. NetworkInv /\ MountInv /\ [NetworkNext]_networkVars => MountInv'
  <2> SUFFICES ASSUME NetworkInv, MountInv, [NetworkNext]_networkVars PROVE MountInv'
    OBVIOUS
  <2>1. CASE Visit \/ UNCHANGED networkVars
    BY <2>1 DEF Visit, host, networkVars, MountInv
  <2>2. ASSUME NEW p \in Proc, Steps(p) PROVE MountInv'
    BY <2>2, MountRows, MountProbes, MountWorks, MountMounts DEF Steps
  <2>3. QED
    BY <2>1, <2>2, MountAsks, MountTicks, MountReboots DEF NetworkNext
<1>5. QED
  BY <1>1, <1>2, <1>3, <1>4, PTL DEF NetworkSpec

-------------------------------------------------------------------------------
(* TwoFactor. *)

\* A request that has written the column of backup codes has done so for good.
Written == {"answering", "opening", "done"}

\* The columns are set and cleared together.
RowInv ==
    /\ enabled <=> version # None
    /\ ~enabled => codes = {}

\* A backup code is in the row or gone, and comes from one enrolment.
CodeInv ==
    /\ codes \cap gone = {}
    /\ \A v \in Verifies, k \in Slot : <<v, k>> \in codes \cup gone => at[v] \in Written
    /\ \A v \in Verifies : at[v] = "answering" => {v} \X Slot \subseteq codes \cup gone

\* Whoever gave the column a value does not do so again.
VersionInv ==
    /\ \A r \in Request : version = r => at[r] \in Written
    /\ \A l \in Logins : at[l] = "idle" => tries[l] = 0
    /\ \A l \in Logins : at[l] = "consuming" =>
          /\ saw[l] # None /\ tries[l] < Retries
          /\ \A r \in Request : saw[l] = r => at[r] \in Written
          /\ version = saw[l] => codes = sawCodes[l]

\* A login that is let in has used up its code.
Used(l) == at[l] = "opening" \/ l \in opened

LoginInv ==
    /\ \A l \in opened : at[l] = "done"
    /\ \A l \in Logins : Used(l) /\ entered[l] \in Backup => entered[l] \in gone
    /\ \A l, m \in Logins :
          Used(l) /\ Used(m) /\ entered[l] = entered[m] /\ entered[l] \in Backup => l = m

\* A code being verified is that of the secret in the row.
SecretInv ==
    \A v \in Verifies : at[v] = "persisting" =>
        entered[v] \in Setups /\ (entered[v] = secret \/ crossed)

FactorInv ==
    /\ TypeOK /\ RowInv /\ CodeInv /\ VersionInv /\ LoginInv /\ SecretInv
    /\ ShownCodesWork /\ SecretWasProven

-------------------------------------------------------------------------------

\* The sets of requests and of codes do not meet, and None is in none of them.
LEMMA Apart ==
    /\ Setups \cap Verifies = {} /\ Setups \cap Disables = {} /\ Setups \cap Logins = {}
    /\ Verifies \cap Disables = {} /\ Verifies \cap Logins = {} /\ Disables \cap Logins = {}
    /\ Setups \cap Backup = {} /\ None \notin Code \cup Request
    /\ Retries \in Nat \ {0} /\ MaxMishaps \in Nat
BY TwoFactorAssumption DEF TwoFactorAssumption

\* No request has been made and no code handed out at the start.
LEMMA FactorInitInv == Init => FactorInv
<1> SUFFICES ASSUME Init PROVE FactorInv
  OBVIOUS
<1>1. TypeOK
  <2>1. Retries \in Nat /\ 0 \in 0..Retries /\ 0 \in 0..MaxMishaps
    BY Apart
  <2> QED
    BY <2>1 DEF Init, TypeOK, Place
<1>2. RowInv /\ CodeInv /\ ShownCodesWork /\ SecretWasProven
  BY Apart DEF Init, RowInv, CodeInv, ShownCodesWork, SecretWasProven, Written, Request
<1>3. VersionInv /\ SecretInv
  BY Apart DEF Init, VersionInv, SecretInv, Written, Request
<1>4. LoginInv
  BY Apart DEF Init, LoginInv, Used, Written, Request
<1> QED
  BY <1>1, <1>2, <1>3, <1>4 DEF FactorInv

-------------------------------------------------------------------------------

\* Every step keeps the invariant.
LEMMA FactorNextInv == FactorInv /\ [Next]_factorVars => FactorInv'
<1> SUFFICES ASSUME FactorInv, [Next]_factorVars PROVE FactorInv'
  OBVIOUS
<1> USE Apart DEF Goto, account, local, history, FactorInv
<1>1. ASSUME NEW s \in Setups, SetupRead(s) PROVE FactorInv'
  <2>1. TypeOK'
    BY <1>1 DEF SetupRead, TypeOK, Place, Request, Code
  <2>2. RowInv'
    BY <1>1 DEF SetupRead, RowInv, TypeOK
  <2>3. CodeInv'
    BY <1>1 DEF SetupRead, CodeInv, RowInv, Written, TypeOK, Request
  <2>4. VersionInv'
    BY <1>1 DEF SetupRead, VersionInv, RowInv, Written, TypeOK, Request
  <2>5. LoginInv'
    BY <1>1 DEF SetupRead, LoginInv, CodeInv, VersionInv, Used, Written, TypeOK, Request
  <2>6. SecretInv'
    BY <1>1 DEF SetupRead, SecretInv, TypeOK, Request
  <2>7. ShownCodesWork'
    BY <1>1 DEF SetupRead, ShownCodesWork, CodeInv, RowInv, VersionInv, TypeOK
  <2>8. SecretWasProven'
    BY <1>1 DEF SetupRead, SecretWasProven, SecretInv, TypeOK
  <2> QED
    BY <2>1, <2>2, <2>3, <2>4, <2>5, <2>6, <2>7, <2>8
<1>2. ASSUME NEW s \in Setups, SetupStore(s) PROVE FactorInv'
  <2>1. CASE enabled
    <3>1. TypeOK'
      BY <1>2, <2>1 DEF SetupStore, TypeOK, Place, Request, Code
    <3>2. RowInv'
      BY <1>2, <2>1 DEF SetupStore, RowInv, TypeOK
    <3>3. CodeInv'
      BY <1>2, <2>1 DEF SetupStore, CodeInv, RowInv, Written, TypeOK, Request
    <3>4. VersionInv'
      BY <1>2, <2>1 DEF SetupStore, VersionInv, RowInv, Written, TypeOK, Request
    <3>5. LoginInv'
      BY <1>2, <2>1 DEF SetupStore, LoginInv, CodeInv, VersionInv, Used, Written, TypeOK, Request
    <3>6. SecretInv'
      BY <1>2, <2>1 DEF SetupStore, SecretInv, TypeOK, Request, Verifying
    <3>7. ShownCodesWork'
      BY <1>2, <2>1 DEF SetupStore, ShownCodesWork, CodeInv, RowInv, VersionInv, TypeOK
    <3>8. SecretWasProven'
      BY <1>2, <2>1 DEF SetupStore, SecretWasProven, SecretInv, TypeOK
    <3> QED
      BY <3>1, <3>2, <3>3, <3>4, <3>5, <3>6, <3>7, <3>8
  <2>2. CASE ~enabled
    <3>1. TypeOK'
      BY <1>2, <2>2 DEF SetupStore, TypeOK, Place, Request, Code
    <3>2. RowInv'
      BY <1>2, <2>2 DEF SetupStore, RowInv, TypeOK
    <3>3. CodeInv'
      BY <1>2, <2>2 DEF SetupStore, CodeInv, RowInv, Written, TypeOK, Request
    <3>4. VersionInv'
      BY <1>2, <2>2 DEF SetupStore, VersionInv, RowInv, Written, TypeOK, Request
    <3>5. LoginInv'
      BY <1>2, <2>2 DEF SetupStore, LoginInv, CodeInv, VersionInv, Used, Written, TypeOK, Request
    <3>6. SecretInv'
      BY <1>2, <2>2 DEF SetupStore, SecretInv, TypeOK, Request, Verifying
    <3>7. ShownCodesWork'
      BY <1>2, <2>2 DEF SetupStore, ShownCodesWork, CodeInv, RowInv, VersionInv, TypeOK
    <3>8. SecretWasProven'
      BY <1>2, <2>2 DEF SetupStore, SecretWasProven, SecretInv, TypeOK
    <3> QED
      BY <3>1, <3>2, <3>3, <3>4, <3>5, <3>6, <3>7, <3>8
  <2> QED
    BY <2>1, <2>2
<1>3. ASSUME NEW v \in Verifies, VerifyRead(v) PROVE FactorInv'
  <2>1. TypeOK'
    BY <1>3 DEF VerifyRead, TypeOK, Place, Request, Code
  <2>2. RowInv'
    BY <1>3 DEF VerifyRead, RowInv, TypeOK
  <2>3. CodeInv'
    BY <1>3 DEF VerifyRead, CodeInv, RowInv, Written, TypeOK, Request
  <2>4. VersionInv'
    BY <1>3 DEF VerifyRead, VersionInv, RowInv, Written, TypeOK, Request
  <2>5. LoginInv'
    BY <1>3 DEF VerifyRead, LoginInv, CodeInv, VersionInv, Used, Written, TypeOK, Request
  <2>6. SecretInv'
    BY <1>3 DEF VerifyRead, SecretInv, TypeOK, Request, Code
  <2>7. ShownCodesWork'
    BY <1>3 DEF VerifyRead, ShownCodesWork, CodeInv, RowInv, VersionInv, TypeOK
  <2>8. SecretWasProven'
    BY <1>3 DEF VerifyRead, SecretWasProven, SecretInv, TypeOK
  <2> QED
    BY <2>1, <2>2, <2>3, <2>4, <2>5, <2>6, <2>7, <2>8
<1>4. ASSUME NEW v \in Verifies, VerifyPersist(v) PROVE FactorInv'
  <2>1. CASE enabled
    <3>1. TypeOK'
      BY <1>4, <2>1 DEF VerifyPersist, TypeOK, SecretInv, Place, Request, Code, Backup
    <3>2. RowInv'
      BY <1>4, <2>1 DEF VerifyPersist, RowInv, TypeOK, Request
    <3>3. CodeInv'
      BY <1>4, <2>1 DEF VerifyPersist, CodeInv, RowInv, Written, TypeOK, Request
    <3>4. VersionInv'
      BY <1>4, <2>1 DEF VerifyPersist, VersionInv, RowInv, Written, TypeOK, Request
    <3>5. LoginInv'
      BY <1>4, <2>1 DEF VerifyPersist, LoginInv, CodeInv, VersionInv, Used, Written, TypeOK, Request
    <3>6. SecretInv'
      BY <1>4, <2>1 DEF VerifyPersist, SecretInv, TypeOK, Request
    <3>7. ShownCodesWork'
      BY <1>4, <2>1 DEF VerifyPersist, ShownCodesWork, CodeInv, RowInv, VersionInv, TypeOK
    <3>8. SecretWasProven'
      BY <1>4, <2>1 DEF VerifyPersist, SecretWasProven, SecretInv, TypeOK
    <3> QED
      BY <3>1, <3>2, <3>3, <3>4, <3>5, <3>6, <3>7, <3>8
  <2>2. CASE ~enabled
    <3>1. TypeOK'
      BY <1>4, <2>2 DEF VerifyPersist, TypeOK, SecretInv, Place, Request, Code, Backup
    <3>2. RowInv'
      BY <1>4, <2>2 DEF VerifyPersist, RowInv, TypeOK, Request
    <3>3. CodeInv'
      BY <1>4, <2>2 DEF VerifyPersist, CodeInv, RowInv, Written, TypeOK, Request
    <3>4. VersionInv'
      BY <1>4, <2>2 DEF VerifyPersist, VersionInv, RowInv, Written, TypeOK, Request
    <3>5. LoginInv'
      BY <1>4, <2>2 DEF VerifyPersist, LoginInv, CodeInv, VersionInv, Used, Written, TypeOK, Request
    <3>6. SecretInv'
      BY <1>4, <2>2 DEF VerifyPersist, SecretInv, TypeOK, Request
    <3>7. ShownCodesWork'
      BY <1>4, <2>2 DEF VerifyPersist, ShownCodesWork, CodeInv, RowInv, VersionInv, TypeOK
    <3>8. SecretWasProven'
      BY <1>4, <2>2 DEF VerifyPersist, SecretWasProven, SecretInv, TypeOK
    <3> QED
      BY <3>1, <3>2, <3>3, <3>4, <3>5, <3>6, <3>7, <3>8
  <2> QED
    BY <2>1, <2>2
<1>5. ASSUME NEW v \in Verifies, Answer(v) PROVE FactorInv'
  <2>1. TypeOK'
    BY <1>5 DEF Answer, TypeOK, Place, Request, Code, Backup
  <2>2. RowInv'
    BY <1>5 DEF Answer, RowInv, TypeOK
  <2>3. CodeInv'
    BY <1>5 DEF Answer, CodeInv, RowInv, Written, TypeOK, Request
  <2>4. VersionInv'
    BY <1>5 DEF Answer, VersionInv, RowInv, Written, TypeOK, Request
  <2>5. LoginInv'
    BY <1>5 DEF Answer, LoginInv, CodeInv, VersionInv, Used, Written, TypeOK, Request
  <2>6. SecretInv'
    BY <1>5 DEF Answer, SecretInv, TypeOK, Request
  <2>7. ShownCodesWork'
    BY <1>5 DEF Answer, ShownCodesWork, CodeInv, RowInv, VersionInv, TypeOK
  <2>8. SecretWasProven'
    BY <1>5 DEF Answer, SecretWasProven, SecretInv, TypeOK
  <2> QED
    BY <2>1, <2>2, <2>3, <2>4, <2>5, <2>6, <2>7, <2>8
<1>6. ASSUME NEW d \in Disables, DisableRead(d) PROVE FactorInv'
  <2>1. TypeOK'
    BY <1>6 DEF DisableRead, Accepted, TypeOK, Place, Request, Code
  <2>2. RowInv'
    BY <1>6 DEF DisableRead, Accepted, RowInv, TypeOK
  <2>3. CodeInv'
    BY <1>6 DEF DisableRead, Accepted, CodeInv, RowInv, Written, TypeOK, Request
  <2>4. VersionInv'
    BY <1>6 DEF DisableRead, Accepted, VersionInv, RowInv, Written, TypeOK, Request
  <2>5. LoginInv'
    BY <1>6 DEF DisableRead, Accepted, LoginInv, CodeInv, VersionInv, Used, Written, TypeOK, Request
  <2>6. SecretInv'
    BY <1>6 DEF DisableRead, Accepted, SecretInv, TypeOK, Request
  <2>7. ShownCodesWork'
    BY <1>6 DEF DisableRead, Accepted, ShownCodesWork, CodeInv, RowInv, VersionInv, TypeOK
  <2>8. SecretWasProven'
    BY <1>6 DEF DisableRead, Accepted, SecretWasProven, SecretInv, TypeOK
  <2> QED
    BY <2>1, <2>2, <2>3, <2>4, <2>5, <2>6, <2>7, <2>8
<1>7. ASSUME NEW d \in Disables, DisableClear(d) PROVE FactorInv'
  <2>1. TypeOK'
    BY <1>7 DEF DisableClear, TypeOK, Place, Request, Code
  <2>2. RowInv'
    BY <1>7 DEF DisableClear, RowInv, TypeOK
  <2>3. CodeInv'
    BY <1>7 DEF DisableClear, CodeInv, RowInv, Written, TypeOK, Request
  <2>4. VersionInv'
    BY <1>7 DEF DisableClear, VersionInv, RowInv, Written, TypeOK, Request
  <2>5. LoginInv'
    BY <1>7 DEF DisableClear, LoginInv, CodeInv, VersionInv, Used, Written, TypeOK, Request
  <2>6. SecretInv'
    BY <1>7 DEF DisableClear, SecretInv, TypeOK, Request, Verifying
  <2>7. ShownCodesWork'
    BY <1>7 DEF DisableClear, ShownCodesWork, CodeInv, RowInv, VersionInv, TypeOK
  <2>8. SecretWasProven'
    BY <1>7 DEF DisableClear, SecretWasProven, SecretInv, TypeOK
  <2> QED
    BY <2>1, <2>2, <2>3, <2>4, <2>5, <2>6, <2>7, <2>8
<1>8. ASSUME NEW d \in Disables, DisableRevoke(d) PROVE FactorInv'
  <2>1. TypeOK'
    BY <1>8 DEF DisableRevoke, TypeOK, Place, Request, Code
  <2>2. RowInv'
    BY <1>8 DEF DisableRevoke, RowInv, TypeOK
  <2>3. CodeInv'
    BY <1>8 DEF DisableRevoke, CodeInv, RowInv, Written, TypeOK, Request
  <2>4. VersionInv'
    BY <1>8 DEF DisableRevoke, VersionInv, RowInv, Written, TypeOK, Request
  <2>5. LoginInv'
    BY <1>8 DEF DisableRevoke, LoginInv, CodeInv, VersionInv, Used, Written, TypeOK, Request
  <2>6. SecretInv'
    BY <1>8 DEF DisableRevoke, SecretInv, TypeOK, Request
  <2>7. ShownCodesWork'
    BY <1>8 DEF DisableRevoke, ShownCodesWork, CodeInv, RowInv, VersionInv, TypeOK
  <2>8. SecretWasProven'
    BY <1>8 DEF DisableRevoke, SecretWasProven, SecretInv, TypeOK
  <2> QED
    BY <2>1, <2>2, <2>3, <2>4, <2>5, <2>6, <2>7, <2>8
<1>9. ASSUME NEW l \in Logins, LoginRead(l) PROVE FactorInv'
  <2>1. TypeOK'
    BY <1>9 DEF LoginRead, Accepted, TypeOK, Place, Request, Code
  <2>2. RowInv'
    BY <1>9 DEF LoginRead, Accepted, RowInv, TypeOK
  <2>3. CodeInv'
    BY <1>9 DEF LoginRead, Accepted, CodeInv, RowInv, Written, TypeOK, Request
  <2>4. VersionInv'
    BY <1>9 DEF LoginRead, Accepted, VersionInv, RowInv, Written, TypeOK, Request
  <2>5. LoginInv'
    BY <1>9 DEF LoginRead, Accepted, LoginInv, CodeInv, VersionInv, Used, Written, TypeOK, Request
  <2>6. SecretInv'
    BY <1>9 DEF LoginRead, Accepted, SecretInv, TypeOK, Request
  <2>7. ShownCodesWork'
    BY <1>9 DEF LoginRead, Accepted, ShownCodesWork, CodeInv, RowInv, VersionInv, TypeOK
  <2>8. SecretWasProven'
    BY <1>9 DEF LoginRead, Accepted, SecretWasProven, SecretInv, TypeOK
  <2> QED
    BY <2>1, <2>2, <2>3, <2>4, <2>5, <2>6, <2>7, <2>8
<1>10. ASSUME NEW l \in Logins, Consume(l) PROVE FactorInv'
  <2>1. CASE entered[l] \notin sawCodes[l]
    <3>1. TypeOK'
      BY <1>10, <2>1 DEF Consume, TypeOK, VersionInv, Place, Request, Code
    <3>2. RowInv'
      BY <1>10, <2>1 DEF Consume, RowInv, VersionInv, TypeOK, Request
    <3>3. CodeInv'
      BY <1>10, <2>1 DEF Consume, CodeInv, RowInv, VersionInv, Written, TypeOK, Request
    <3>4. VersionInv'
      BY <1>10, <2>1 DEF Consume, VersionInv, RowInv, Written, TypeOK, Request
    <3>5. LoginInv'
      BY <1>10, <2>1 DEF Consume, LoginInv, CodeInv, VersionInv, Used, Written, TypeOK, Request
    <3>6. SecretInv'
      BY <1>10, <2>1 DEF Consume, SecretInv, TypeOK, Request
    <3>7. ShownCodesWork'
      BY <1>10, <2>1 DEF Consume, ShownCodesWork, CodeInv, RowInv, VersionInv, TypeOK
    <3>8. SecretWasProven'
      BY <1>10, <2>1 DEF Consume, SecretWasProven, SecretInv, TypeOK
    <3> QED
      BY <3>1, <3>2, <3>3, <3>4, <3>5, <3>6, <3>7, <3>8
  <2>2. CASE entered[l] \in sawCodes[l] /\ version = saw[l]
    <3>1. TypeOK'
      BY <1>10, <2>2 DEF Consume, TypeOK, VersionInv, Place, Request, Code
    <3>2. RowInv'
      BY <1>10, <2>2 DEF Consume, RowInv, VersionInv, TypeOK, Request
    <3>3. CodeInv'
      BY <1>10, <2>2 DEF Consume, CodeInv, RowInv, VersionInv, Written, TypeOK, Request
    <3>4. VersionInv'
      BY <1>10, <2>2 DEF Consume, VersionInv, RowInv, Written, TypeOK, Request
    <3>5. LoginInv'
      BY <1>10, <2>2 DEF Consume, LoginInv, CodeInv, VersionInv, Used, Written, TypeOK, Request
    <3>6. SecretInv'
      BY <1>10, <2>2 DEF Consume, SecretInv, TypeOK, Request
    <3>7. ShownCodesWork'
      BY <1>10, <2>2 DEF Consume, ShownCodesWork, CodeInv, RowInv, VersionInv, TypeOK
    <3>8. SecretWasProven'
      BY <1>10, <2>2 DEF Consume, SecretWasProven, SecretInv, TypeOK
    <3> QED
      BY <3>1, <3>2, <3>3, <3>4, <3>5, <3>6, <3>7, <3>8
  <2>3. CASE entered[l] \in sawCodes[l] /\ version # saw[l]
    <3>1. TypeOK'
      BY <1>10, <2>3 DEF Consume, TypeOK, VersionInv, Place, Request, Code
    <3>2. RowInv'
      BY <1>10, <2>3 DEF Consume, RowInv, VersionInv, TypeOK, Request
    <3>3. CodeInv'
      BY <1>10, <2>3 DEF Consume, CodeInv, RowInv, VersionInv, Written, TypeOK, Request
    <3>4. VersionInv'
      BY <1>10, <2>3 DEF Consume, VersionInv, RowInv, Written, TypeOK, Request
    <3>5. LoginInv'
      BY <1>10, <2>3 DEF Consume, LoginInv, CodeInv, VersionInv, Used, Written, TypeOK, Request
    <3>6. SecretInv'
      BY <1>10, <2>3 DEF Consume, SecretInv, TypeOK, Request
    <3>7. ShownCodesWork'
      BY <1>10, <2>3 DEF Consume, ShownCodesWork, CodeInv, RowInv, VersionInv, TypeOK
    <3>8. SecretWasProven'
      BY <1>10, <2>3 DEF Consume, SecretWasProven, SecretInv, TypeOK
    <3> QED
      BY <3>1, <3>2, <3>3, <3>4, <3>5, <3>6, <3>7, <3>8
  <2> QED
    BY <2>1, <2>2, <2>3
<1>11. ASSUME NEW l \in Logins, Reload(l) PROVE FactorInv'
  <2>1. CASE enabled /\ version # None /\ tries[l] < Retries
    <3>1. TypeOK'
      BY <1>11, <2>1 DEF Reload, TypeOK, Place, Request, Code
    <3>2. RowInv'
      BY <1>11, <2>1 DEF Reload, RowInv, TypeOK
    <3>3. CodeInv'
      BY <1>11, <2>1 DEF Reload, CodeInv, RowInv, Written, TypeOK, Request
    <3>4. VersionInv'
      BY <1>11, <2>1 DEF Reload, VersionInv, RowInv, Written, TypeOK, Request
    <3>5. LoginInv'
      BY <1>11, <2>1 DEF Reload, LoginInv, CodeInv, VersionInv, Used, Written, TypeOK, Request
    <3>6. SecretInv'
      BY <1>11, <2>1 DEF Reload, SecretInv, TypeOK, Request
    <3>7. ShownCodesWork'
      BY <1>11, <2>1 DEF Reload, ShownCodesWork, CodeInv, RowInv, VersionInv, TypeOK
    <3>8. SecretWasProven'
      BY <1>11, <2>1 DEF Reload, SecretWasProven, SecretInv, TypeOK
    <3> QED
      BY <3>1, <3>2, <3>3, <3>4, <3>5, <3>6, <3>7, <3>8
  <2>2. CASE ~(enabled /\ version # None /\ tries[l] < Retries)
    <3>1. TypeOK'
      BY <1>11, <2>2 DEF Reload, TypeOK, Place, Request, Code
    <3>2. RowInv'
      BY <1>11, <2>2 DEF Reload, RowInv, TypeOK
    <3>3. CodeInv'
      BY <1>11, <2>2 DEF Reload, CodeInv, RowInv, Written, TypeOK, Request
    <3>4. VersionInv'
      BY <1>11, <2>2 DEF Reload, VersionInv, RowInv, Written, TypeOK, Request
    <3>5. LoginInv'
      BY <1>11, <2>2 DEF Reload, LoginInv, CodeInv, VersionInv, Used, Written, TypeOK, Request
    <3>6. SecretInv'
      BY <1>11, <2>2 DEF Reload, SecretInv, TypeOK, Request
    <3>7. ShownCodesWork'
      BY <1>11, <2>2 DEF Reload, ShownCodesWork, CodeInv, RowInv, VersionInv, TypeOK
    <3>8. SecretWasProven'
      BY <1>11, <2>2 DEF Reload, SecretWasProven, SecretInv, TypeOK
    <3> QED
      BY <3>1, <3>2, <3>3, <3>4, <3>5, <3>6, <3>7, <3>8
  <2> QED
    BY <2>1, <2>2
<1>12. ASSUME NEW l \in Logins, OpenSession(l) PROVE FactorInv'
  <2>1. TypeOK'
    BY <1>12 DEF OpenSession, TypeOK, Place, Request, Code
  <2>2. RowInv'
    BY <1>12 DEF OpenSession, RowInv, TypeOK
  <2>3. CodeInv'
    BY <1>12 DEF OpenSession, CodeInv, RowInv, Written, TypeOK, Request
  <2>4. VersionInv'
    BY <1>12 DEF OpenSession, VersionInv, RowInv, Written, TypeOK, Request
  <2>5. LoginInv'
    BY <1>12 DEF OpenSession, LoginInv, CodeInv, VersionInv, Used, Written, TypeOK, Request
  <2>6. SecretInv'
    BY <1>12 DEF OpenSession, SecretInv, TypeOK, Request
  <2>7. ShownCodesWork'
    BY <1>12 DEF OpenSession, ShownCodesWork, CodeInv, RowInv, VersionInv, TypeOK
  <2>8. SecretWasProven'
    BY <1>12 DEF OpenSession, SecretWasProven, SecretInv, TypeOK
  <2> QED
    BY <2>1, <2>2, <2>3, <2>4, <2>5, <2>6, <2>7, <2>8
<1>13. ASSUME NEW r \in Request, RequestFails(r) PROVE FactorInv'
  <2>1. TypeOK'
    BY <1>13 DEF RequestFails, TypeOK, Place, Request, Code
  <2>2. RowInv'
    BY <1>13 DEF RequestFails, RowInv, TypeOK
  <2>3. CodeInv'
    BY <1>13 DEF RequestFails, CodeInv, RowInv, Written, TypeOK, Request
  <2>4. VersionInv'
    BY <1>13 DEF RequestFails, VersionInv, RowInv, Written, TypeOK, Request
  <2>5. LoginInv'
    BY <1>13 DEF RequestFails, LoginInv, CodeInv, VersionInv, Used, Written, TypeOK, Request
  <2>6. SecretInv'
    BY <1>13 DEF RequestFails, SecretInv, TypeOK, Request
  <2>7. ShownCodesWork'
    BY <1>13 DEF RequestFails, ShownCodesWork, CodeInv, RowInv, VersionInv, TypeOK
  <2>8. SecretWasProven'
    BY <1>13 DEF RequestFails, SecretWasProven, SecretInv, TypeOK
  <2> QED
    BY <2>1, <2>2, <2>3, <2>4, <2>5, <2>6, <2>7, <2>8
<1>14. CASE Forget
  <2>1. TypeOK'
    BY <1>14 DEF Forget, TypeOK, Place, Request, Code
  <2>2. RowInv'
    BY <1>14 DEF Forget, RowInv, TypeOK
  <2>3. CodeInv'
    BY <1>14 DEF Forget, CodeInv, RowInv, Written, TypeOK, Request
  <2>4. VersionInv'
    BY <1>14 DEF Forget, VersionInv, RowInv, Written, TypeOK, Request
  <2>5. LoginInv'
    BY <1>14 DEF Forget, LoginInv, CodeInv, VersionInv, Used, Written, TypeOK, Request
  <2>6. SecretInv'
    BY <1>14 DEF Forget, SecretInv, TypeOK, Request
  <2>7. ShownCodesWork'
    BY <1>14 DEF Forget, ShownCodesWork, CodeInv, RowInv, VersionInv, TypeOK
  <2>8. SecretWasProven'
    BY <1>14 DEF Forget, SecretWasProven, SecretInv, TypeOK
  <2> QED
    BY <2>1, <2>2, <2>3, <2>4, <2>5, <2>6, <2>7, <2>8
<1>15. CASE Restart
  <2>1. TypeOK'
    BY <1>15 DEF Restart, TypeOK, Place, Request, Code
  <2>2. RowInv'
    BY <1>15 DEF Restart, RowInv, TypeOK
  <2>3. CodeInv'
    BY <1>15 DEF Restart, CodeInv, RowInv, Written, TypeOK, Request
  <2>4. VersionInv'
    BY <1>15 DEF Restart, VersionInv, RowInv, Written, TypeOK, Request
  <2>5. LoginInv'
    BY <1>15 DEF Restart, LoginInv, CodeInv, VersionInv, Used, Written, TypeOK, Request
  <2>6. SecretInv'
    BY <1>15 DEF Restart, SecretInv, TypeOK, Request
  <2>7. ShownCodesWork'
    BY <1>15 DEF Restart, ShownCodesWork, CodeInv, RowInv, VersionInv, TypeOK
  <2>8. SecretWasProven'
    BY <1>15 DEF Restart, SecretWasProven, SecretInv, TypeOK
  <2> QED
    BY <2>1, <2>2, <2>3, <2>4, <2>5, <2>6, <2>7, <2>8
<1>16. CASE UNCHANGED factorVars
  BY <1>16 DEF factorVars, TypeOK, RowInv, CodeInv, VersionInv, LoginInv, SecretInv, Used,
     ShownCodesWork, SecretWasProven
<1> QED
  BY <1>1, <1>2, <1>3, <1>4, <1>5, <1>6, <1>7, <1>8,
     <1>9, <1>10, <1>11, <1>12, <1>13, <1>14, <1>15, <1>16 DEF Next

\* The invariant holds of every behaviour.
LEMMA InvHolds == Spec => []FactorInv
BY FactorInitInv, FactorNextInv, PTL DEF Spec

\* The row of a user and the requests at work on it keep their types.
THEOREM FactorTypeCorrect == Spec => []TypeOK
<1>1. FactorInv => TypeOK
  BY DEF FactorInv
<1> QED
  BY <1>1, InvHolds, PTL

\* A backup code opens one session, however logins, enrolments and disablings cross
\* (consumeBackupCodeHash).
THEOREM BackupCodesOpenOnce == Spec => []BackupCodeOnce
<1>1. FactorInv => BackupCodeOnce
  BY DEF FactorInv, TypeOK, LoginInv, Used, BackupCodeOnce
<1> QED
  BY <1>1, InvHolds, PTL

\* The backup codes a user was given work until they are used up or cleared
\* (completeTotpEnrollment).
THEOREM CodesGivenWork == Spec => []ShownCodesWork
<1>1. FactorInv => ShownCodesWork
  BY DEF FactorInv
<1> QED
  BY <1>1, InvHolds, PTL

\* The secret in the row of a user with two factors is one whose code was checked, unless
\* another request wrote it meanwhile (completeTotpEnrollment, beginTotpEnrollment).
THEOREM EnabledSecretsAreProven == Spec => []SecretWasProven
<1>1. FactorInv => SecretWasProven
  BY DEF FactorInv
<1> QED
  BY <1>1, InvHolds, PTL

-------------------------------------------------------------------------------
(* The services side by side: each behaviour of MCServices is one of every component. *)

\* A step of the services is one of each component, or leaves it alone; so no component
\* can be disturbed by what another one's part of the server does.
LEMMA ServicesStep ==
    ASSUME [ServicesNext]_servicesVars
    PROVE  /\ [TasksNext]_tasksVars /\ [NetworkNext]_networkVars /\ [BackupNext]_backupVars
           /\ [FilesNext]_filesVars /\ [Next]_factorVars /\ part' = part
BY DEF ServicesNext, TasksOnly, BackupsOnly, FactorOnly, servicesVars

\* The run of the services checks behaviours of ScheduledTasks, NetworkStorage, BackupRestore,
\* FileManager and TwoFactor, restricted to the part chosen and nothing else.
THEOREM ServicesAreTheirParts ==
    ServicesSpec => TasksSpec /\ NetworkSpec /\ BackupSpec /\ FilesSpec /\ Spec
<1>1. ServicesInit => TasksInit /\ NetworkInit /\ BackupInit /\ FilesInit /\ Init
  BY DEF ServicesInit
<1> QED
  BY <1>1, ServicesStep, PTL DEF ServicesSpec, TasksSpec, NetworkSpec, BackupSpec, FilesSpec, Spec

LEMMA OnePart == ServicesSpec => [](part \in
    {"tasks", "edited tasks", "network", "backups", "restores", "files", "enrolling", "logging in"})
<1> DEFINE P == part \in {"tasks", "edited tasks", "network", "backups", "restores", "files",
                          "enrolling", "logging in"}
<1>1. ServicesInit => P
  BY DEF ServicesInit
<1>2. P /\ [ServicesNext]_servicesVars => P'
  <2> SUFFICES ASSUME P, [ServicesNext]_servicesVars PROVE P'
    OBVIOUS
  <2> QED
    BY ServicesStep
<1> QED
  BY <1>1, <1>2, PTL DEF ServicesSpec

\* Every invariant that the run of the services checks holds of its own specification, for any
\* number of tasks, shares, backups, files and factors: whatever part of the server a behaviour
\* exercises keeps its types, and its promises.
THEOREM ServicesKeepTheirPromises ==
    ServicesSpec => [](/\ TypesOK /\ ScheduleFollowsEdit /\ SharesKeepTheirFiles
                       /\ RestoreIsWhole /\ NewestCanBeRestored /\ FilesAreKept /\ TrashHasRows
                       /\ BackupCodeOnce /\ ShownCodesWork /\ SecretWasProven)
<1>1. /\ TasksTypeOK /\ NetworkTypeOK /\ BackupTypeOK /\ FilesTypeOK /\ TypeOK
      /\ part \in {"tasks", "edited tasks", "network", "backups", "restores", "files",
                   "enrolling", "logging in"}
      => TypesOK
  BY Zenon DEF TypesOK
<1>2. /\ ScheduledTasksAssumption /\ NetworkStorageAssumption
      /\ BackupRestoreAssumption /\ FileManagerAssumption
  BY ServicesAssumption
<1>3. /\ TasksSpec => []TasksTypeOK /\ []ScheduleFollowsEdit
      /\ NetworkSpec => []NetworkTypeOK /\ []SharesKeepTheirFiles
      /\ BackupSpec => []BackupTypeOK /\ []RestoreIsWhole /\ []NewestCanBeRestored
      /\ FilesSpec => []FilesTypeOK /\ []FilesAreKept /\ []TrashHasRows
  BY <1>2, TasksTypeCorrect, SchedulesFollowEdits, NetworkTypeCorrect, SharesStayIntact,
     BackupTypeCorrect, RestoresAreWhole, NewestAreRestorable, FilesTypeCorrect, NothingIsLost,
     TrashIsRecorded
<1> QED
  BY <1>1, <1>3, FactorTypeCorrect, BackupCodesOpenOnce, CodesGivenWork, EnabledSecretsAreProven,
     OnePart, ServicesAreTheirParts, PTL
================================================================================
