---------------------------- MODULE OperationStream ----------------------------
(***************************************************************************)
(* app/api/v1/store/operations/[operationId]/stream/route.ts composed with *)
(* StoreOperations: clients that follow an operation over server-sent      *)
(* events.  A request reads the row (an await), then, in one turn, sends   *)
(* the cached event or the row it read and subscribes; from then on the    *)
(* emissions of StoreOperations reach it.                                  *)
(***************************************************************************)
EXTENDS StoreOperations

CONSTANT Client     \* stream requests

VARIABLE stream     \* what each request has seen and holds

streamVars == <<vars, stream>>

NoStream == [at |-> "idle", op |-> "none", first |-> "none",
             ended |-> FALSE, subscribed |-> FALSE, heartbeat |-> FALSE]

StreamTypeOK ==
    stream \in [Client -> [at : {"idle", "reading", "open"},
                           op : Op \cup {"none"},
                           first : {"none"} \cup Active \cup Terminal,
                           ended : BOOLEAN, subscribed : BOOLEAN, heartbeat : BOOLEAN]]

StreamInit == Init /\ stream = [c \in Client |-> NoStream]

-------------------------------------------------------------------------------
\* GET: the row is read; 404 when there is none.
Connect(c, o) ==
    /\ stream[c].at = "idle"
    /\ row[o] # "absent"
    /\ stream' = [stream EXCEPT ![c] = [NoStream EXCEPT !.at = "reading", !.op = o,
                                                        !.first = row[o]]]
    /\ UNCHANGED vars

\* Mutant: the first event is the row read before, never the cached event.
StartFromRow(c) ==
    /\ stream[c].at = "reading"
    /\ stream' = [stream EXCEPT ![c].at = "open", ![c].ended = stream[c].first \in Terminal,
                                ![c].subscribed = TRUE, ![c].heartbeat = TRUE]
    /\ UNCHANGED vars

\* start(): a terminal first event closes the stream before the subscription
\* and the heartbeat are set up, so close() finds nothing to undo.
Start(c) ==
    LET o == stream[c].op
        first == IF latest[o] # "none" THEN latest[o] ELSE stream[c].first
    IN  /\ stream[c].at = "reading"
        /\ stream' = [stream EXCEPT ![c].at = "open", ![c].first = first,
                                    ![c].ended = first \in Terminal,
                                    ![c].subscribed = TRUE, ![c].heartbeat = TRUE]
        /\ UNCHANGED vars

\* finalClose, when the client goes away; close() does nothing the second time.
Abort(c) ==
    /\ stream[c].at = "open"
    /\ stream' = [stream EXCEPT ![c].heartbeat = FALSE, ![c].ended = TRUE,
                                ![c].subscribed = @ /\ stream[c].ended]
    /\ UNCHANGED vars

\* emitEvent of o, seen from its subscribers: send() and, on a terminal
\* status, close().
Deliver(o) ==
    stream' = [c \in Client |->
        IF /\ stream[c].subscribed /\ stream[c].op = o
           /\ ~stream[c].ended /\ latest'[o] \in Terminal
        THEN [stream[c] EXCEPT !.ended = TRUE, !.subscribed = FALSE]
        ELSE stream[c]]

Emission(o) ==
    /\ StartEmit(o) \/ StepEmit(o) \/ ProgressEmit(o) \/ FinalEmit(o)
    /\ Deliver(o)

\* The grace window is a minute: a request that has read the row before the
\* purge has also started by then.
PurgeLater(o) ==
    /\ \A c \in Client : ~(stream[c].at = "reading" /\ stream[c].op = o)
    /\ Purge(o)
    /\ UNCHANGED stream

Silent(o) ==
    /\ \/ Admit(o) \/ InsertRow(o) \/ StartWrite(o) \/ StepWrite(o) \/ PullEnds(o)
       \/ BodyEnds(o) \/ FinalWrite(o) \/ DatabaseFails(o)
       \/ Tick(o) \/ ProgressWrite(o) \/ ProgressFails(o)
    /\ UNCHANGED stream

Upkeep == (Prune \/ MarkStale \/ MarkStaleFails) /\ UNCHANGED stream

\* The connections die with the process.
StreamRestart == Restart /\ stream' = [c \in Client |-> NoStream]

StreamNext ==
    \/ \E o \in Op : Silent(o) \/ Emission(o) \/ PurgeLater(o)
    \/ \E c \in Client : Start(c) \/ Abort(c) \/ \E o \in Op : Connect(c, o)
    \/ Upkeep \/ StreamRestart

StreamSpec == StreamInit /\ [][StreamNext]_streamVars

\* As in StoreOperations, and a request that has read its row starts.
StreamFairness ==
    /\ \A o \in Op : /\ WF_streamVars(Silent(o) /\ Handler(o))
                     /\ WF_streamVars(Emission(o))
                     /\ WF_streamVars(ProgressWrite(o) /\ UNCHANGED stream)
                     /\ WF_streamVars(PurgeLater(o))
    /\ \A c \in Client : WF_streamVars(Start(c))
    /\ WF_streamVars(MarkStale /\ UNCHANGED stream)

FairStreamSpec == StreamSpec /\ StreamFairness

-------------------------------------------------------------------------------
(* Properties *)

Following(c) == stream[c].at = "open" /\ ~stream[c].ended

\* No stream misses the end, wherever its request stood between reading the
\* row and subscribing: nobody is left waiting for an operation whose outcome
\* has been announced, or that is long over and stored as a success.
\* Operations with progress ticks are excluded: see StreamEnds.
NoMissedEnd ==
    \A c \in Client :
        LET o == stream[c].op IN
        Following(c) /\ ticks[o] = 0 =>
            /\ latest[o] \notin Terminal
            /\ ~(phase[o] = "purged" /\ row[o] = "success")

(* What a doc says, and the code does not do *)

\* doc/architecture.md:118, a followed operation ends with operation.completed
\* or operation.failed.
StreamEnds == \A c \in Client : Following(c) ~> ~Following(c)
===============================================================================
