------------------------------ MODULE ScheduledTasks ------------------------------
(***************************************************************************)
(* lib/server/modules/scheduled-tasks: every minute a tick of the runner   *)
(* asks for the tasks that are due and runs them in batches, while         *)
(* requests create, edit, delete and run tasks. A tick does not wait for   *)
(* the one before it. A run writes the time of the next one, computed from *)
(* the cron expression it read when it started.                            *)
(*                                                                         *)
(* Time is abstract: nextRunAt is the expression it was computed from and  *)
(* whether that time has come. The outcome of a task, its label and its    *)
(* output are left out: no decision depends on them.                       *)
(***************************************************************************)
EXTENDS Naturals, FiniteSets

CONSTANTS
    Task, Cron, Null,
    Wish,        \* [Task -> SUBSET (Cron \X BOOLEAN)]: expressions asked for, and enabled or not
    Barren,      \* expressions without a next run: "*/5 * * * *", "0 0 31 2 *"
    Tick,        \* bound: ticks under way at once
    ByHand,      \* the request that runs a task at once
    Limit,       \* MAX_CONCURRENT_TASKS
    MaxAsked,    \* bound: edits, deletions and runs asked for
    MaxFaults    \* bound: failed queries and restarts

NextRun == [of: Cron, come: BOOLEAN]

ScheduledTasksAssumption ==
    /\ Null \notin Cron \cup NextRun /\ Barren \subseteq Cron /\ Wish \in [Task -> SUBSET (Cron \X BOOLEAN)]
    /\ ByHand \notin Tick
    /\ Limit \in Nat \ {0} /\ MaxAsked \in Nat /\ MaxFaults \in Nat

VARIABLES
    row,        \* scheduled_tasks
    fresh,      \* tasks not created yet
    tick,       \* where each tick stands
    due,        \* tasks a tick has still to start
    runs,       \* calls of runScheduledTask: who called, and the expression it read
    edits,      \* edits that have read the row and not written it
    astray,     \* history: tasks whose schedule was last written from an outdated row
    asked, faults

tasksVars == <<row, fresh, tick, due, runs, edits, astray, asked, faults>>

Starter == Tick \cup {ByHand}
Row     == [cron: Cron, enabled: BOOLEAN, next: NextRun \cup {Null}]
Run     == [by: Starter, task: Task, cron: Cron \cup {Null}]
Edit    == [task: Task, cron: Cron, sets: BOOLEAN, enabled: BOOLEAN \cup {Null}]

TasksTypeOK ==
    /\ row \in [Task -> Row \cup {Null}]
    /\ fresh \subseteq Task
    /\ tick \in [Tick -> {"idle", "asking", "running"}]
    /\ due \in [Tick -> SUBSET Task]
    /\ runs \subseteq Run
    /\ edits \subseteq Edit
    /\ astray \subseteq Task
    /\ asked \in 0..MaxAsked /\ faults \in 0..MaxFaults

TasksInit ==
    /\ row = [t \in Task |-> Null]
    /\ fresh = Task
    /\ tick = [k \in Tick |-> "idle"]
    /\ due = [k \in Tick |-> {}]
    /\ runs = {} /\ edits = {} /\ astray = {}
    /\ asked = 0 /\ faults = 0

-------------------------------------------------------------------------------
(* The schedule *)

Exists(t) == row[t] # Null
IsDue(t)  == Exists(t) /\ row[t].enabled /\ row[t].next # Null /\ row[t].next.come

NextCronRun(c) == IF c \in Barren THEN Null ELSE [of |-> c, come |-> FALSE]

\* Mutant: the next run is not written back.
BadReschedule(old, c) == old

\* nextRunAt: nextRunAt ?? undefined in an UPDATE leaves the column alone.
Reschedule(old, c) == IF NextCronRun(c) = Null THEN old ELSE NextCronRun(c)

\* The minute named by nextRunAt is reached.
TimeComes(t) ==
    /\ Exists(t) /\ row[t].next # Null /\ ~row[t].next.come
    /\ row' = [row EXCEPT ![t].next.come = TRUE]
    /\ UNCHANGED <<fresh, tick, due, runs, edits, astray, asked, faults>>

-------------------------------------------------------------------------------
(* Requests *)

AskedAgain == asked < MaxAsked /\ asked' = asked + 1

Create(t) ==
    /\ t \in fresh
    /\ fresh' = fresh \ {t}
    /\ \E w \in Wish[t] :
          row' = [row EXCEPT ![t] =
              [cron |-> w[1], enabled |-> w[2], next |-> NextCronRun(w[1])]]
    /\ UNCHANGED <<tick, due, runs, edits, astray, asked, faults>>

\* The row is read: the next run is computed from the expression the edit sets, or
\* else from the one read.
EditRead(t) ==
    /\ Exists(t) /\ AskedAgain
    /\ \E w \in Wish[t], sets \in BOOLEAN, turns \in BOOLEAN :
          edits' = edits \cup
              {[task |-> t, sets |-> sets, cron |-> IF sets THEN w[1] ELSE row[t].cron,
                enabled |-> IF turns THEN w[2] ELSE Null]}
    /\ UNCHANGED <<row, fresh, tick, due, runs, astray, faults>>

\* A call other than this one has read the row of task t, and may write it back.
Outdated(t, call) ==
    \/ \E r \in runs \ {call} : r.task = t /\ r.cron # Null
    \/ \E e \in edits \ {call} : e.task = t

EditWrite(e) ==
    LET t == e.task
        old == row[t]
    IN /\ e \in edits
       /\ edits' = edits \ {e}
       /\ IF Exists(t)
          THEN /\ row' = [row EXCEPT ![t] =
                     [cron |-> IF e.sets THEN e.cron ELSE old.cron,
                      enabled |-> IF e.enabled = Null THEN old.enabled ELSE e.enabled,
                      next |-> Reschedule(old.next, e.cron)]]
               /\ astray' = IF Outdated(t, e) THEN astray \cup {t}
                             ELSE IF row'[t].cron = e.cron THEN astray \ {t} ELSE astray
          ELSE UNCHANGED <<row, astray>>
       /\ UNCHANGED <<fresh, tick, due, runs, asked, faults>>

Delete(t) ==
    /\ Exists(t) /\ AskedAgain
    /\ row' = [row EXCEPT ![t] = Null]
    /\ UNCHANGED <<fresh, tick, due, runs, edits, astray, faults>>

RunNow(t) ==
    /\ \A r \in runs : r.by # ByHand      \* bound: one request at a time
    /\ AskedAgain
    /\ runs' = runs \cup {[by |-> ByHand, task |-> t, cron |-> Null]}
    /\ UNCHANGED <<row, fresh, tick, due, edits, astray, faults>>

-------------------------------------------------------------------------------
(* A run of a task *)

Start(r) ==
    /\ r \in runs /\ r.cron = Null
    /\ runs' = IF Exists(r.task)
               THEN (runs \ {r}) \cup {[r EXCEPT !.cron = row[r.task].cron]}
               ELSE runs \ {r}
    /\ UNCHANGED <<row, fresh, tick, due, edits, astray, asked, faults>>

Finish(r) ==
    LET t == r.task
    IN /\ r \in runs /\ r.cron # Null
       /\ runs' = runs \ {r}
       /\ IF Exists(t)
          THEN /\ row' = [row EXCEPT ![t].next = Reschedule(@, r.cron)]
               /\ astray' = IF row[t].cron = r.cron /\ ~Outdated(t, r)
                             THEN astray \ {t} ELSE astray
          ELSE UNCHANGED <<row, astray>>
       /\ UNCHANGED <<fresh, tick, due, edits, asked, faults>>

\* The query of the row or its update fails; the caller ignores it.
RunFails(r) ==
    /\ r \in runs /\ faults < MaxFaults
    /\ faults' = faults + 1
    /\ runs' = runs \ {r}
    /\ UNCHANGED <<row, fresh, tick, due, edits, astray, asked>>

-------------------------------------------------------------------------------
(* The runner *)

Fire(k) ==
    /\ tick[k] = "idle"
    /\ tick' = [tick EXCEPT ![k] = "asking"]
    /\ UNCHANGED <<row, fresh, due, runs, edits, astray, asked, faults>>

GetDueTasks(k) ==
    /\ tick[k] = "asking"
    /\ tick' = [tick EXCEPT ![k] = "running"]
    /\ due' = [due EXCEPT ![k] = {t \in Task : IsDue(t)}]
    /\ UNCHANGED <<row, fresh, runs, edits, astray, asked, faults>>

QueryFails(k) ==
    /\ tick[k] = "asking" /\ faults < MaxFaults
    /\ faults' = faults + 1
    /\ tick' = [tick EXCEPT ![k] = "idle"]
    /\ UNCHANGED <<row, fresh, due, runs, edits, astray, asked>>

BatchDone(k) == tick[k] = "running" /\ \A r \in runs : r.by # k

\* The next batch waits for every run of the one before.
NextBatch(k) ==
    /\ BatchDone(k) /\ due[k] # {}
    /\ \E batch \in SUBSET due[k] :
          /\ Cardinality(batch) = Limit \/ (batch = due[k] /\ Cardinality(batch) < Limit)
          /\ due' = [due EXCEPT ![k] = @ \ batch]
          /\ runs' = runs \cup {[by |-> k, task |-> t, cron |-> Null] : t \in batch}
    /\ UNCHANGED <<row, fresh, tick, edits, astray, asked, faults>>

\* Mutant: a tick ends after its first batch.
BadTickEnds(k) ==
    /\ tick[k] = "running"
    /\ tick' = [tick EXCEPT ![k] = "idle"]
    /\ due' = [due EXCEPT ![k] = {}]
    /\ UNCHANGED <<row, fresh, runs, edits, astray, asked, faults>>

TickEnds(k) ==
    /\ BatchDone(k) /\ due[k] = {}
    /\ tick' = [tick EXCEPT ![k] = "idle"]
    /\ UNCHANGED <<row, fresh, due, runs, edits, astray, asked, faults>>

\* The process ends; the next one starts with the rows.
TasksRestart ==
    /\ faults < MaxFaults
    /\ faults' = faults + 1
    /\ tick' = [k \in Tick |-> "idle"]
    /\ due' = [k \in Tick |-> {}]
    /\ runs' = {} /\ edits' = {}
    /\ UNCHANGED <<row, fresh, astray, asked>>

-------------------------------------------------------------------------------

Requests ==
    \/ \E t \in Task : Create(t) \/ EditRead(t) \/ Delete(t) \/ RunNow(t)
    \/ \E e \in edits : EditWrite(e)

Progress(k) == Fire(k) \/ GetDueTasks(k) \/ NextBatch(k) \/ TickEnds(k)
Runs(t)     == \E r \in runs : r.task = t /\ (Start(r) \/ Finish(r))

TasksNext ==
    \/ Requests
    \/ \E t \in Task : TimeComes(t) \/ Runs(t)
    \/ \E k \in Tick : Progress(k) \/ QueryFails(k)
    \/ \E r \in runs : RunFails(r)
    \/ TasksRestart

TasksSpec == TasksInit /\ [][TasksNext]_tasksVars

-------------------------------------------------------------------------------

\* The next run of a task is computed from its own cron expression, unless an edit
\* crossed a run, or another edit, that had read the row before it; the first run that
\* reads the edited row mends that. An expression without a next run keeps the old
\* time.
ScheduleFollowsEdit ==
    \A t \in Task :
        Exists(t) /\ row[t].next # Null /\ row[t].cron \notin Barren /\ t \notin astray
            => row[t].next.of = row[t].cron

\* A task that is due is started, unless it is disabled, deleted or put off, whatever
\* ticks overlap and whatever batch it waits in.
DueTaskStarts ==
    \A t \in Task : IsDue(t) ~> (~IsDue(t) \/ \E r \in runs : r.task = t)
================================================================================
