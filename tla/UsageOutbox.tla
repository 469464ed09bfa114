---------------------------- MODULE UsageOutbox ----------------------------
(***************************************************************************)
(* The outbox of usage events: table usage_event_queue and its repository  *)
(* (storage/repositories.py), the service that fills and flushes it        *)
(* (analytics/service.py), the client that posts it (sync/client.py), and  *)
(* the commands that run it, which upload after an application run         *)
(* (cli/upload_pipeline.py, sync/manager.py, analytics/backfill.py).       *)
(*                                                                         *)
(* Processes share the table.  Between reading the rows and marking them a *)
(* process waits for the network, and may be killed; and another may delete*)
(* the rows it holds, whose ids SQLite then gives to new ones.             *)
(***************************************************************************)
EXTENDS Integers, Sequences, FiniteSets

CONSTANTS
  Procs,       \* processes on one database
  Commands,    \* what a process may be started for: sequences of Steps
  MaxEvents,   \* bound: events made
  BatchSize    \* rows of one flush

Events == 1..MaxEvents
Steps  == {"sync", "clear", "backfill", "run"}

ASSUME OutboxAssumption ==
  /\ MaxEvents \in Nat /\ BatchSize \in Nat \ {0}
  /\ Commands \subseteq Seq(Steps)

VARIABLES
  queue,     \* the table: the row with id i is queue[i]
  made,      \* events made so far; the next is made + 1
  received,  \* events the server has taken in
  dropped,   \* history: events marked sent after a failed login
  crossed,   \* history: events marked sent by a flush that held their id for another
  pc, todo,  \* where each process is, and the steps it has left
  token,     \* whether it has one
  rows,      \* ids of the rows its flush holds
  payload,   \*   and the events it read in them
  calm       \* nothing fails any more: no kill, no refusal, no locked table

held    == <<rows, payload>>
process == <<pc, todo, token, held>>
server  == <<received, dropped, crossed>>
vars    == <<queue, made, server, process, calm>>

Row    == [event : Events, status : {"queued", "sent"}, due : BOOLEAN]
Places == {"down", "idle", "sync", "flush", "post", "answered", "refused"}

Ids       == DOMAIN queue
Queued(i) == queue[i].status = "queued"
EventsOf(ids) == {queue[i].event : i \in ids}

\* The rows a flush holds are still there, or others with their ids.
Present(p) == rows[p] \subseteq Ids

TableOK ==
  /\ queue \in Seq(Row) /\ made \in 0..MaxEvents
  /\ \A i, j \in Ids : i < j => queue[i].event < queue[j].event
  /\ received \subseteq Events /\ dropped \subseteq Events
  /\ crossed \subseteq Events

ProcessesOK ==
  /\ pc \in [Procs -> Places] /\ todo \in [Procs -> Seq(Steps)]
  /\ token \in [Procs -> BOOLEAN] /\ rows \in [Procs -> SUBSET Nat]
  /\ payload \in [Procs -> SUBSET Events]
  /\ calm \in BOOLEAN

TypeOK == TableOK /\ ProcessesOK

-----------------------------------------------------------------------------
Init == /\ queue = <<>> /\ made = 0 /\ received = {} /\ dropped = {} /\ crossed = {}
        /\ pc = [p \in Procs |-> "down"] /\ todo = [p \in Procs |-> <<>>]
        /\ token = [p \in Procs |-> FALSE] /\ rows = [p \in Procs |-> {}]
        /\ payload = [p \in Procs |-> {}]
        /\ calm = FALSE

At(p, place)   == pc[p] = place
Goto(p, place) == pc' = [pc EXCEPT ![p] = place]
NextIs(p, step) == At(p, "idle") /\ todo[p] # <<>> /\ Head(todo[p]) = step
StepDone(p)    == todo' = [todo EXCEPT ![p] = Tail(@)]

Start(p, c) == /\ At(p, "down") /\ Goto(p, "idle")
               /\ todo' = [todo EXCEPT ![p] = c]
               /\ UNCHANGED <<queue, made, server, token, held, calm>>

LetGo(p) == rows' = [rows EXCEPT ![p] = {}] /\ payload' = [payload EXCEPT ![p] = {}]

Leave(p) == /\ Goto(p, "down")
            /\ todo' = [todo EXCEPT ![p] = <<>>]
            /\ token' = [token EXCEPT ![p] = FALSE]
            /\ LetGo(p)
            /\ UNCHANGED <<queue, made, server, calm>>

Exit(p)  == At(p, "idle") /\ todo[p] = <<>> /\ Leave(p)
Crash(p) == ~calm /\ ~At(p, "down") /\ Leave(p)

-----------------------------------------------------------------------------
(* The steps of a command.                                                 *)

\* perform_sync uploads activity and knowledge, whose failures are swallowed,
\* downloads updates, and flushes.
SyncDone(p) ==
  /\ NextIs(p, "sync") /\ StepDone(p) /\ Goto(p, "flush")
  /\ UNCHANGED <<queue, made, server, token, held, calm>>

\* The download fails: an exception, and no flush.
SyncFailed(p) ==
  /\ ~calm /\ NextIs(p, "sync") /\ StepDone(p)
  /\ UNCHANGED <<queue, made, server, pc, token, held, calm>>

\* Whatever other processes hold; row ids start again in an empty table.
ClearUsageEventQueue(p) ==
  /\ NextIs(p, "clear") /\ StepDone(p)
  /\ queue' = <<>>
  /\ UNCHANGED <<made, server, pc, token, held, calm>>

\* Fault: a status list_ready does not know.
NewRowPending(e) == [event |-> e, status |-> "pending", due |-> TRUE]

NewRow(e) == [event |-> e, status |-> "queued", due |-> TRUE]

\* track_usage_event, then a flush.  The callers go on if the insert fails.
Enqueue(p) ==
  /\ StepDone(p)
  /\ \/ /\ made < MaxEvents /\ made' = made + 1
        /\ queue' = Append(queue, NewRow(made + 1))
        /\ Goto(p, "flush")
     \/ UNCHANGED <<queue, made, pc>>
  /\ UNCHANGED <<server, token, held, calm>>

\* The jobs of the last hours as one event.
BackfillApplyAnalytics(p) == NextIs(p, "backfill") /\ Enqueue(p)

\* The event of the run or of the command.
TrackCommandEvent(p) == NextIs(p, "run") /\ Enqueue(p)

-----------------------------------------------------------------------------
(* flush_usage_events                                                      *)

Ready == {i \in Ids : Queued(i) /\ queue[i].due}

ListReady(p) ==
  /\ At(p, "flush")
  /\ LET batch == {i \in Ready : Cardinality({j \in Ready : j <= i}) <= BatchSize}
     IN  /\ rows' = [rows EXCEPT ![p] = batch]
         /\ payload' = [payload EXCEPT ![p] = EventsOf(batch)]
         /\ Goto(p, IF batch = {} THEN "idle" ELSE "post")
  /\ UNCHANGED <<queue, made, server, todo, token, calm>>

\* The saved server, then each known one, until one gives a token.
Login(p) ==
  /\ At(p, "post") /\ ~token[p]
  /\ token' = [token EXCEPT ![p] = TRUE]
  /\ UNCHANGED <<queue, made, server, pc, todo, held, calm>>

\* No server gave one: upload_usage_events returns an answer, no exception.
LoginFailed(p) ==
  /\ ~calm /\ At(p, "post") /\ ~token[p]
  /\ Goto(p, "answered")
  /\ UNCHANGED <<queue, made, server, todo, token, held, calm>>

Accepted(p) ==
  /\ At(p, "post") /\ token[p]
  /\ received' = received \cup payload[p]
  /\ Goto(p, "answered")
  /\ UNCHANGED <<queue, made, dropped, crossed, todo, token, held, calm>>

\* The events arrive, the answer does not.
AnswerLost(p) ==
  /\ ~calm /\ At(p, "post") /\ token[p]
  /\ received' = received \cup payload[p]
  /\ Goto(p, "refused")
  /\ UNCHANGED <<queue, made, dropped, crossed, todo, token, held, calm>>

\* Unreachable, an error status, or a token of another server.
Refused(p) ==
  /\ ~calm /\ At(p, "post") /\ token[p]
  /\ Goto(p, "refused")
  /\ UNCHANGED <<queue, made, server, todo, token, held, calm>>

Flushed(p) == Goto(p, "idle") /\ LetGo(p)

\* Fault: every row is marked, also those made since.
MarkAll(p) == [i \in Ids |-> [queue[i] EXCEPT !.status = "sent"]]

Mark(p) == [i \in Ids |-> IF i \in rows[p] THEN [queue[i] EXCEPT !.status = "sent"]
                                           ELSE queue[i]]

\* By id: a row that took the id of a deleted one is marked with the others.
MarkSent(p) ==
  /\ At(p, "answered") /\ Present(p) /\ Flushed(p)
  /\ queue' = Mark(p)
  /\ LET marked == EventsOf({i \in rows[p] : Queued(i)}) IN
     /\ dropped' = IF token[p] THEN dropped ELSE dropped \cup marked
     /\ crossed' = crossed \cup (marked \ payload[p])
  /\ UNCHANGED <<made, received, todo, token, calm>>

\* Fault: all columns are written, also the status read before the post.
PostponeAll(p) == [i \in Ids |-> IF i \in rows[p] THEN NewRow(queue[i].event) ELSE queue[i]]

\* Only the columns that changed are written: a row another process marked
\* sent since stays sent.
Postpone(p) == [i \in Ids |-> IF i \in rows[p] THEN [queue[i] EXCEPT !.due = FALSE]
                                               ELSE queue[i]]

MarkRetry(p) ==
  /\ At(p, "refused") /\ Present(p) /\ Flushed(p)
  /\ queue' = Postpone(p)
  /\ UNCHANGED <<made, server, todo, token, calm>>

\* A row is missing: the UPDATE matches fewer rows than it should, the
\* exception undoes it, and the handler's own fails on the same rows.
RowsGone(p) ==
  /\ At(p, "answered") \/ At(p, "refused")
  /\ ~Present(p) /\ Flushed(p)
  /\ UNCHANGED <<queue, made, server, todo, token, calm>>

\* The table is locked: the handler of the exception is mark_retry.
MarkSentFailed(p) ==
  /\ ~calm /\ At(p, "answered") /\ Goto(p, "refused")
  /\ UNCHANGED <<queue, made, server, todo, token, held, calm>>

\* It is locked for that too: the exception ends the flush.
MarkRetryFailed(p) ==
  /\ ~calm /\ At(p, "refused") /\ Flushed(p)
  /\ UNCHANGED <<queue, made, server, todo, token, calm>>

\* Fault: next_retry_at is written in one time zone and read in another.
RetryNever == calm /\ ~calm /\ UNCHANGED vars

\* next_retry_at passes.
RetryDue ==
  /\ \E i \in Ids : /\ Queued(i) /\ ~queue[i].due
                    /\ queue' = [queue EXCEPT ![i].due = TRUE]
  /\ UNCHANGED <<made, server, process, calm>>

-----------------------------------------------------------------------------
Flush(p) == \/ ListReady(p) \/ Login(p) \/ LoginFailed(p)
            \/ Accepted(p) \/ AnswerLost(p) \/ Refused(p)
            \/ MarkSent(p) \/ MarkSentFailed(p) \/ MarkRetry(p) \/ MarkRetryFailed(p)
            \/ RowsGone(p)

Step(p)  == \/ \E c \in Commands : Start(p, c)
            \/ Exit(p) \/ Crash(p)
            \/ SyncDone(p) \/ SyncFailed(p) \/ ClearUsageEventQueue(p)
            \/ BackfillApplyAnalytics(p) \/ TrackCommandEvent(p)
            \/ Flush(p)

Calm == calm' = TRUE /\ UNCHANGED <<queue, made, server, process>>

Next == RetryDue \/ Calm \/ \E p \in Procs : Step(p)

Spec == Init /\ [][Next]_vars

\* Commands end what they have begun and are started again; time passes.
FairSpec == Spec /\ WF_vars(RetryDue) /\ \A p \in Procs : WF_vars(Step(p))

-----------------------------------------------------------------------------
(* Properties.                                                             *)

Sent == {queue[i].event : i \in {j \in Ids : ~Queued(j)}}

\* An event is marked sent only when the server has it, but for two cases: no
\* server let the client log in, or the flush held the id of its row for another
\* event, which somebody deleted in the meantime.
SentImpliesAccepted == Sent \subseteq received \cup dropped \cup crossed

\* The claim without the exception: an event is queued while it cannot be
\* delivered (docs/ANALYTICS_PLAN.md:126, "Queue events locally when offline
\* and retry with backoff").
NothingIsDropped == Sent \subseteq received

\* The outbox as its callers see it.
InQueue(e) == \E i \in Ids : queue[i].event = e
Stage(e) == IF e > made THEN "new"
            ELSE IF ~InQueue(e) THEN "deleted"
            ELSE IF e \notin Sent THEN "waiting"
            ELSE IF e \in dropped \cup crossed THEN "abandoned" ELSE "settled"

Abstract == INSTANCE Delivery WITH stage <- [e \in Events |-> Stage(e)]

\* Whatever the processes do in parallel, whatever is killed, lost, refused or
\* locked, the queue behaves as Delivery says.
Delivers == Abstract!Spec

\* An event that waits when failures end is sent, whatever state they left.
EventuallySent ==
  \A e \in Events : calm /\ Stage(e) = "waiting" ~> Stage(e) # "waiting"
=============================================================================
