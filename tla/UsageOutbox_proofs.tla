------------------------- MODULE UsageOutbox_proofs -------------------------
(***************************************************************************)
(* Proofs about UsageOutbox, for any processes, commands, numbers of       *)
(* events and batch size: what is sent was accepted, and the queue         *)
(* implements Delivery.                                                    *)
(***************************************************************************)
EXTENDS UsageOutbox, SequenceTheorems, TLAPS

-----------------------------------------------------------------------------
(* Lemmas about the table.                                                 *)

LEMMA Relabelled ==
  ASSUME NEW q \in Seq(Row), NEW f \in [DOMAIN q -> Row]
  PROVE  f \in Seq(Row) /\ DOMAIN f = DOMAIN q
<1>1. Len(q) \in Nat /\ DOMAIN q = 1..Len(q)
  BY LenProperties
<1>2. f \in [1..Len(q) -> Row]
  BY <1>1
<1>3. QED
  BY <1>1, <1>2, SeqDef

LEMMA Extended ==
  ASSUME NEW q \in Seq(Row), NEW r \in Row
  PROVE  /\ Append(q, r) \in Seq(Row)
         /\ DOMAIN Append(q, r) = DOMAIN q \cup {Len(q) + 1}
         /\ Len(q) + 1 \notin DOMAIN q /\ DOMAIN q = 1..Len(q) /\ Len(q) \in Nat
         /\ Append(q, r)[Len(q) + 1] = r
         /\ \A i \in DOMAIN q : Append(q, r)[i] = q[i]
BY LenProperties

\* Rows keep their ids and their events.
SameRows == Ids' = Ids /\ \A i \in Ids : queue'[i].event = queue[i].event

LEMMA MarkType ==
  ASSUME TypeOK, NEW p \in Procs
  PROVE  /\ Mark(p) \in Seq(Row) /\ DOMAIN Mark(p) = Ids
         /\ \A i \in Ids : /\ Mark(p)[i].event = queue[i].event
                           /\ Mark(p)[i].due = queue[i].due
                           /\ Mark(p)[i].status = IF i \in rows[p] THEN "sent"
                                                  ELSE queue[i].status
<1>1. queue \in Seq(Row) /\ \A i \in Ids : queue[i] \in Row
  BY ElementOfSeq, LenProperties DEF TypeOK, TableOK, Ids
<1>2. Mark(p) \in [Ids -> Row]
  BY <1>1 DEF Mark, Row
<1>3. Mark(p) \in Seq(Row) /\ DOMAIN Mark(p) = Ids
  BY <1>1, <1>2, Relabelled DEF Ids
<1>4. QED
  BY <1>1, <1>3 DEF Mark, Row

LEMMA PostponeType ==
  ASSUME TypeOK, NEW p \in Procs
  PROVE  /\ Postpone(p) \in Seq(Row) /\ DOMAIN Postpone(p) = Ids
         /\ \A i \in Ids : /\ Postpone(p)[i].event = queue[i].event
                           /\ Postpone(p)[i].status = queue[i].status
<1>1. queue \in Seq(Row) /\ \A i \in Ids : queue[i] \in Row
  BY ElementOfSeq, LenProperties DEF TypeOK, TableOK, Ids
<1>2. Postpone(p) \in [Ids -> Row]
  BY <1>1 DEF Postpone, Row
<1>3. Postpone(p) \in Seq(Row) /\ DOMAIN Postpone(p) = Ids
  BY <1>1, <1>2, Relabelled DEF Ids
<1>4. QED
  BY <1>1, <1>3 DEF Postpone, Row

LEMMA RetryDueType ==
  ASSUME TypeOK, RetryDue
  PROVE  /\ queue' \in Seq(Row) /\ Ids' = Ids
         /\ \A i \in Ids : /\ queue'[i].event = queue[i].event
                           /\ queue'[i].status = queue[i].status
<1>1. queue \in Seq(Row) /\ Ids = 1..Len(queue) /\ \A i \in Ids : queue[i] \in Row
  BY ElementOfSeq, LenProperties DEF TypeOK, TableOK, Ids
<1>2. PICK i \in Ids : queue' = [queue EXCEPT ![i].due = TRUE]
  BY DEF RetryDue
<1>3. queue' \in [Ids -> Row]
  BY <1>1, <1>2 DEF Row, Ids
<1>4. queue' \in Seq(Row) /\ DOMAIN queue' = Ids
  BY <1>1, <1>3, Relabelled DEF Ids
<1>5. QED
  BY <1>1, <1>2, <1>4 DEF Row, Ids

-----------------------------------------------------------------------------
(* The invariant.                                                          *)

\* What was marked without having been delivered.
Lost == dropped \cup crossed

\* Events are numbered as they are made.
Numbered == /\ \A i \in Ids : queue[i].event <= made
            /\ \A p \in Procs : \A e \in payload[p] : e <= made
            /\ \A e \in Lost : e <= made

\* What was given up is not queued again.
LostIsSent == \A i \in Ids : Queued(i) => queue[i].event \notin Lost

\* A flush that was answered on its own login delivered what it holds.
AnsweredIsAccepted ==
  \A p \in Procs : At(p, "answered") /\ token[p] => payload[p] \subseteq received

IInv == TypeOK /\ Numbered /\ LostIsSent /\ AnsweredIsAccepted /\ SentImpliesAccepted

\* One row per event.
LEMMA DistinctEvents ==
  ASSUME TypeOK, NEW i \in Ids, NEW j \in Ids, queue[i].event = queue[j].event
  PROVE  i = j
<1>1. Ids = 1..Len(queue) /\ Len(queue) \in Nat /\ queue[i] \in Row /\ queue[j] \in Row
  BY ElementOfSeq, LenProperties DEF TypeOK, TableOK, Ids
<1>2. queue[i].event \in Int /\ queue[j].event \in Int /\ i \in Int /\ j \in Int
  BY <1>1, OutboxAssumption DEF Row, Events
<1>3. i < j => queue[i].event < queue[j].event
  BY DEF TypeOK, TableOK
<1>4. j < i => queue[j].event < queue[i].event
  BY DEF TypeOK, TableOK
<1>5. QED
  BY <1>2, <1>3, <1>4

LEMMA InitInv == Init => IInv
<1> SUFFICES ASSUME Init PROVE IInv
  OBVIOUS
<1>1. queue \in Seq(Row) /\ Ids = {}
  BY EmptySeq DEF Init, Ids
<1>2. <<>> \in Seq(Steps)
  BY EmptySeq
<1>3. TableOK
  BY <1>1, OutboxAssumption DEF Init, TableOK
<1>4. ProcessesOK
  BY <1>1, <1>2 DEF Init, ProcessesOK, Places
<1>5. QED
  BY <1>1, <1>3, <1>4 DEF Init, TypeOK, IInv, Numbered, LostIsSent, Lost,
                          AnsweredIsAccepted, SentImpliesAccepted, Sent, At

\* A step of one process on its own state, the table and the server aside.
LEMMA ProcessStep ==
  ASSUME IInv, ProcessesOK', UNCHANGED <<queue, made, server>>,
         \A p \in Procs : (At(p, "answered") /\ token[p])' =>
                           At(p, "answered") /\ token[p],
         \A p \in Procs : payload'[p] \in {payload[p], {}}
  PROVE  IInv'
<1>1. TypeOK' /\ LostIsSent' /\ SentImpliesAccepted'
  BY DEF IInv, TypeOK, TableOK, Ids, LostIsSent, SentImpliesAccepted, Sent,
         Queued, Lost, server
<1>2. Numbered'
  BY DEF IInv, Numbered, Ids, Lost, server
<1>3. AnsweredIsAccepted'
  BY DEF IInv, AnsweredIsAccepted, server
<1>4. QED
  BY <1>1, <1>2, <1>3 DEF IInv

\* Rows change their status or their retry time: what is sent must be accounted for.
LEMMA MarkStep ==
  ASSUME IInv, ProcessesOK', SameRows, queue' \in Seq(Row),
         UNCHANGED <<made, received>>, Lost \subseteq Lost',
         dropped' \subseteq Events, crossed' \subseteq Events,
         \A i \in Ids : queue'[i].status = "sent" =>
            queue[i].status = "sent" \/ queue[i].event \in received \cup Lost',
         \A i \in Ids : queue'[i].status = "queued" =>
            queue[i].status = "queued" /\ queue[i].event \notin Lost',
         \A e \in Lost' : e <= made,
         \A p \in Procs : (At(p, "answered") /\ token[p])' =>
                           At(p, "answered") /\ token[p],
         \A p \in Procs : payload'[p] \in {payload[p], {}}
  PROVE  IInv'
<1>1. TypeOK' /\ LostIsSent'
  BY DEF IInv, TypeOK, TableOK, LostIsSent, Queued, SameRows
<1>2. Numbered'
  BY DEF IInv, Numbered, SameRows
<1>3. \A i \in Ids : queue'[i] \in Row
  BY ElementOfSeq, LenProperties DEF SameRows, Ids
<1>4. SentImpliesAccepted'
  BY <1>3 DEF IInv, SentImpliesAccepted, Sent, Queued, SameRows, Row, Lost
<1>5. AnsweredIsAccepted'
  BY DEF IInv, AnsweredIsAccepted
<1>6. QED
  BY <1>1, <1>2, <1>4, <1>5 DEF IInv

\* Nothing a process holds is disturbed by a row that is added.
LEMMA EnqueueStep ==
  ASSUME IInv, NEW p \in Procs, todo[p] # <<>>, Enqueue(p), At(p, "idle")
  PROVE  IInv'
<1> USE DEF At, Goto
<1>1. ProcessesOK /\ TableOK /\ todo[p] \in Seq(Steps)
  BY DEF IInv, TypeOK, ProcessesOK
<1>2. Tail(todo[p]) \in Seq(Steps)
  BY <1>1
<1>3. /\ todo' \in [Procs -> Seq(Steps)]
      /\ UNCHANGED <<received, dropped, crossed, token, rows, payload, calm>>
  BY <1>1, <1>2 DEF Enqueue, StepDone, ProcessesOK, server, held
<1>4. CASE UNCHANGED <<queue, made, pc>>
  <2>1. ProcessesOK'
    BY <1>1, <1>3, <1>4 DEF ProcessesOK
  <2>2. QED
    BY <1>3, <1>4, <2>1, ProcessStep DEF server
<1>5. CASE /\ made < MaxEvents /\ made' = made + 1
           /\ queue' = Append(queue, NewRow(made + 1)) /\ Goto(p, "flush")
  <2>1. made + 1 \in Events /\ NewRow(made + 1) \in Row /\ NewRow(made + 1).event = made + 1
        /\ NewRow(made + 1).status = "queued" /\ made \in Int /\ made' = made + 1
    BY <1>1, <1>5, OutboxAssumption DEF TableOK, NewRow, Row, Events
  <2> DEFINE n == Len(queue) + 1
  <2>2. /\ queue' \in Seq(Row) /\ Ids' = Ids \cup {n} /\ n \notin Ids
        /\ queue'[n] = NewRow(made + 1) /\ \A i \in Ids : queue'[i] = queue[i]
        /\ Ids = 1..Len(queue) /\ Len(queue) \in Nat
    BY <1>1, <1>5, <2>1, Extended DEF TableOK, Ids
  <2>3. \A i \in Ids : queue[i].event \in Int /\ queue[i].event <= made
    <3>1. \A i \in Ids : queue[i] \in Row
      BY <1>1, <2>2, ElementOfSeq DEF TableOK
    <3>2. QED
      BY <3>1 DEF Row, Events, IInv, Numbered
  <2> HIDE DEF n
  <2>4. \A i \in Ids : i < n
    BY <2>2 DEF n
  <2>5. TableOK'
    <3>1. ASSUME NEW i \in Ids', NEW j \in Ids', i < j
          PROVE  queue'[i].event < queue'[j].event
      <4>1. i \in Ids
        BY <2>2, <2>4, <3>1
      <4>2. CASE j = n
        BY <2>1, <2>2, <2>3, <4>1, <4>2
      <4>3. CASE j \in Ids
        BY <1>1, <2>2, <3>1, <4>1, <4>3 DEF TableOK
      <4>4. QED
        BY <2>2, <4>2, <4>3
    <3>2. made' \in 0..MaxEvents
      BY <1>1, <1>5, OutboxAssumption DEF TableOK
    <3>3. QED
      BY <1>1, <1>3, <2>2, <3>1, <3>2 DEF TableOK
  <2>6. ProcessesOK'
    BY <1>1, <1>3, <1>5, <2>2 DEF ProcessesOK, Places
  <2>7. Numbered' /\ LostIsSent'
    <3>1. \A e \in Lost : e \in Int /\ e <= made
      BY <1>1 DEF TableOK, Events, IInv, Numbered, Lost
    <3>5. \A q \in Procs : \A e \in payload[q] : e \in Int /\ e <= made
      BY <1>1 DEF ProcessesOK, Events, IInv, Numbered
    <3>6. Lost' = Lost
      BY <1>3 DEF Lost
    <3>7. \A i \in Ids' : queue'[i].event <= made'
      BY <2>1, <2>2, <2>3
    <3>8. /\ \A q \in Procs : \A e \in payload[q] : e <= made'
          /\ \A e \in Lost : e <= made'
      BY <2>1, <3>1, <3>5
    <3>2. Numbered'
      BY <1>3, <3>6, <3>7, <3>8 DEF Numbered
    <3>3. \A e \in Lost : e # made + 1
      BY <2>1, <3>1
    <3>4. LostIsSent'
      BY <2>1, <2>2, <3>3, <3>6 DEF IInv, LostIsSent, Queued
    <3>9. QED
      BY <3>2, <3>4
  <2>8. SentImpliesAccepted'
    BY <1>3, <2>1, <2>2 DEF IInv, SentImpliesAccepted, Sent, Queued
  <2>9. AnsweredIsAccepted'
    <3>1. \A q \in Procs : (At(q, "answered") /\ token[q])' => At(q, "answered") /\ token[q]
      BY <1>1, <1>3, <1>5 DEF ProcessesOK
    <3>2. QED
      BY <1>3, <3>1 DEF IInv, AnsweredIsAccepted
  <2>10. QED
    BY <2>5, <2>6, <2>7, <2>8, <2>9 DEF IInv, TypeOK
<1>6. QED
  BY <1>4, <1>5 DEF Enqueue

LEMMA ClearStep == ASSUME IInv, NEW p \in Procs, ClearUsageEventQueue(p) PROVE IInv'
<1>1. TableOK /\ ProcessesOK /\ todo[p] \in Seq(Steps) /\ todo[p] # <<>>
  BY DEF IInv, TypeOK, ProcessesOK, ClearUsageEventQueue, NextIs
<1>2. Tail(todo[p]) \in Seq(Steps)
  BY <1>1
<1>3. /\ queue' = <<>> /\ Ids' = {} /\ queue' \in Seq(Row)
      /\ todo' \in [Procs -> Seq(Steps)]
      /\ UNCHANGED <<made, received, dropped, crossed, pc, token, rows, payload, calm>>
  BY <1>1, <1>2, EmptySeq DEF ClearUsageEventQueue, StepDone, ProcessesOK, Ids, server, held
<1>4. TypeOK'
  BY <1>1, <1>3 DEF TypeOK, TableOK, ProcessesOK
<1>5. Numbered' /\ LostIsSent' /\ AnsweredIsAccepted' /\ SentImpliesAccepted'
  BY <1>3 DEF IInv, Numbered, LostIsSent, AnsweredIsAccepted, SentImpliesAccepted, Sent, Lost, At
<1>6. QED
  BY <1>4, <1>5 DEF IInv

LEMMA ListReadyStep == ASSUME IInv, NEW p \in Procs, ListReady(p) PROVE IInv'
<1> DEFINE batch == {i \in Ready : Cardinality({j \in Ready : j <= i}) <= BatchSize}
<1>1. /\ ProcessesOK /\ TableOK /\ batch \subseteq Ids /\ Ids \subseteq Nat
      /\ \A i \in Ids : queue[i] \in Row
  BY ElementOfSeq, LenProperties DEF IInv, TypeOK, TableOK, Ready, Ids
<1>2. /\ rows' = [rows EXCEPT ![p] = batch] /\ payload' = [payload EXCEPT ![p] = EventsOf(batch)]
      /\ UNCHANGED <<queue, made, received, dropped, crossed, todo, token, calm>>
      /\ At(p, "flush") /\ Goto(p, IF batch = {} THEN "idle" ELSE "post")
  BY DEF ListReady, server
<1> HIDE DEF batch
<1>3. pc' = [pc EXCEPT ![p] = "idle"] \/ pc' = [pc EXCEPT ![p] = "post"]
  BY <1>2 DEF Goto
<1>7. EventsOf(batch) \subseteq Events /\ \A e \in EventsOf(batch) : e <= made
  BY <1>1 DEF EventsOf, Row, IInv, Numbered
<1>4. ProcessesOK'
  BY <1>1, <1>2, <1>3, <1>7 DEF ProcessesOK, Places
<1>5. \A q \in Procs : (At(q, "answered") /\ token[q])' =>
                        At(q, "answered") /\ token[q] /\ payload'[q] = payload[q]
  BY <1>1, <1>2, <1>3 DEF ProcessesOK, At
<1>6. TableOK' /\ LostIsSent' /\ SentImpliesAccepted' /\ AnsweredIsAccepted'
  <2>1. TableOK' /\ LostIsSent' /\ SentImpliesAccepted'
    BY <1>1, <1>2 DEF TableOK, Ids, IInv, LostIsSent, SentImpliesAccepted, Sent, Queued, Lost
  <2>2. AnsweredIsAccepted'
    BY <1>2, <1>5 DEF IInv, AnsweredIsAccepted
  <2>3. QED
    BY <2>1, <2>2
<1>8. Numbered'
  BY <1>1, <1>2, <1>7 DEF IInv, Numbered, Ids, Lost, ProcessesOK
<1>9. QED
  BY <1>4, <1>6, <1>8 DEF IInv, TypeOK

\* Steps that leave the table alone and do not hold new rows.
LEMMA QuietStep ==
  ASSUME IInv, NEW p \in Procs,
         \/ \E c \in Commands : Start(p, c)
         \/ Exit(p) \/ Crash(p) \/ SyncDone(p) \/ SyncFailed(p)
         \/ Login(p) \/ LoginFailed(p) \/ Refused(p) \/ MarkSentFailed(p) \/ MarkRetryFailed(p)
         \/ RowsGone(p)
  PROVE  IInv'
<1> USE DEF At, Goto, held
<1>1. ProcessesOK
  BY DEF IInv, TypeOK
<1>2. CASE \E c \in Commands : Start(p, c)
  <2>1. PICK c \in Commands : Start(p, c)
    BY <1>2
  <2>2. c \in Seq(Steps)
    BY OutboxAssumption
  <2>3. ProcessesOK'
    BY <1>1, <2>1, <2>2 DEF Start, ProcessesOK, Places
  <2>4. QED
    BY <1>1, <2>1, <2>3, ProcessStep DEF Start, ProcessesOK
<1>3. CASE Exit(p) \/ Crash(p)
  <2>1. Leave(p)
    BY <1>3 DEF Exit, Crash
  <2>2. <<>> \in Seq(Steps)
    BY EmptySeq
  <2>3. ProcessesOK'
    BY <1>1, <2>1, <2>2 DEF Leave, LetGo, ProcessesOK, Places
  <2>4. QED
    BY <1>1, <2>1, <2>3, ProcessStep DEF Leave, LetGo, ProcessesOK
<1>4. CASE SyncDone(p) \/ SyncFailed(p)
  <2>1. /\ todo[p] # <<>> /\ todo' = [todo EXCEPT ![p] = Tail(@)]
        /\ pc' = pc \/ pc' = [pc EXCEPT ![p] = "flush"]
        /\ UNCHANGED <<queue, made, server, token, held, calm>>
    BY <1>4 DEF SyncDone, SyncFailed, NextIs, StepDone
  <2>2. Tail(todo[p]) \in Seq(Steps)
    BY <1>1, <2>1 DEF ProcessesOK
  <2>3. todo' \in [Procs -> Seq(Steps)]
    BY <1>1, <2>1, <2>2 DEF ProcessesOK
  <2>4. ProcessesOK'
    BY <1>1, <2>1, <2>3 DEF ProcessesOK, Places
  <2>5. QED
    BY <1>1, <2>1, <2>4, ProcessStep DEF ProcessesOK
<1>5. CASE Login(p)
  <2>1. ProcessesOK'
    BY <1>1, <1>5 DEF Login, ProcessesOK
  <2>2. QED
    BY <1>1, <1>5, <2>1, ProcessStep DEF Login, ProcessesOK
<1>6. CASE LoginFailed(p)
  <2>1. ProcessesOK'
    BY <1>1, <1>6 DEF LoginFailed, ProcessesOK, Places
  <2>2. QED
    BY <1>1, <1>6, <2>1, ProcessStep DEF LoginFailed, ProcessesOK
<1>7. CASE Refused(p) \/ MarkSentFailed(p)
  <2>1. ProcessesOK'
    BY <1>1, <1>7 DEF Refused, MarkSentFailed, ProcessesOK, Places
  <2>2. QED
    BY <1>1, <1>7, <2>1, ProcessStep DEF Refused, MarkSentFailed, ProcessesOK
<1>8. CASE MarkRetryFailed(p) \/ RowsGone(p)
  <2>1. ProcessesOK'
    BY <1>1, <1>8 DEF MarkRetryFailed, RowsGone, Flushed, LetGo, ProcessesOK, Places
  <2>2. QED
    BY <1>1, <1>8, <2>1, ProcessStep DEF MarkRetryFailed, RowsGone, Flushed, LetGo, ProcessesOK
<1>9. QED
  BY <1>2, <1>3, <1>4, <1>5, <1>6, <1>7, <1>8

\* The server takes the batch: the process that posted it may say so.
LEMMA ReceivedStep ==
  ASSUME IInv, NEW p \in Procs, Accepted(p) \/ AnswerLost(p)
  PROVE  IInv'
<1> USE DEF At, Goto
<1>1. ProcessesOK /\ TableOK
  BY DEF IInv, TypeOK
<1>2. /\ received' = received \cup payload[p] /\ At(p, "post")
      /\ pc' = [pc EXCEPT ![p] = "answered"] \/ pc' = [pc EXCEPT ![p] = "refused"]
      /\ UNCHANGED <<queue, made, dropped, crossed, todo, token, rows, payload, calm>>
  BY DEF Accepted, AnswerLost, held
<1>3. payload[p] \subseteq Events
  BY <1>1 DEF ProcessesOK
<1>4. ProcessesOK'
  BY <1>1, <1>2 DEF ProcessesOK, Places
<1>5. TableOK'
  BY <1>1, <1>2, <1>3 DEF TableOK, Ids
<1>6. Numbered' /\ LostIsSent' /\ SentImpliesAccepted'
  BY <1>2 DEF IInv, Numbered, LostIsSent, SentImpliesAccepted, Sent, Queued, Ids, Lost
<1>7. AnsweredIsAccepted'
  <2>1. ASSUME NEW q \in Procs, (At(q, "answered") /\ token[q])'
        PROVE  (payload[q] \subseteq received)'
    <3>1. CASE q = p
      BY <1>2, <3>1
    <3>2. CASE q # p
      BY <1>1, <1>2, <2>1, <3>2 DEF IInv, AnsweredIsAccepted, ProcessesOK
    <3>3. QED
      BY <3>1, <3>2
  <2>2. QED
    BY <2>1 DEF AnsweredIsAccepted
<1>8. QED
  BY <1>4, <1>5, <1>6, <1>7 DEF IInv, TypeOK

LEMMA MarkSentStep == ASSUME IInv, NEW p \in Procs, MarkSent(p) PROVE IInv'
<1> USE DEF At, Goto
<1>1. ProcessesOK /\ TableOK /\ TypeOK
  BY DEF IInv, TypeOK
<1> DEFINE lost == EventsOf({j \in rows[p] : Queued(j)})
<1>2. /\ queue' = Mark(p) /\ dropped' = IF token[p] THEN dropped ELSE dropped \cup lost
      /\ crossed' = crossed \cup (lost \ payload[p]) /\ rows[p] \subseteq Ids
      /\ At(p, "answered") /\ Flushed(p) /\ UNCHANGED <<made, received, todo, token, calm>>
  BY DEF MarkSent, Present
<1>3. queue' \in Seq(Row) /\ SameRows
  BY <1>1, <1>2, MarkType DEF SameRows, Ids
<1>4. lost \subseteq Events
  <2>1. \A i \in Ids : queue[i] \in Row
    BY <1>1, ElementOfSeq, LenProperties DEF TableOK, Ids
  <2>2. QED
    BY <1>2, <2>1 DEF EventsOf, Row
<1>5. \A i \in Ids : queue'[i].status = "sent" =>
         queue[i].status = "sent" \/ queue[i].event \in received \cup Lost'
  <2>1. ASSUME NEW i \in Ids, queue'[i].status = "sent", queue[i].status # "sent"
        PROVE  queue[i].event \in received \cup Lost'
    <3>1. i \in rows[p]
      BY <1>1, <1>2, <2>1, MarkType
    <3>2. queue[i] \in Row
      BY <1>1, ElementOfSeq, LenProperties DEF TableOK, Ids
    <3>3. Queued(i)
      BY <2>1, <3>2 DEF Queued, Row
    <3>7. queue[i].event \in lost
      BY <3>1, <3>3 DEF EventsOf
    <3>4. CASE token[p]
      BY <1>2, <3>4, <3>7 DEF IInv, AnsweredIsAccepted, Lost
    <3>5. CASE ~token[p]
      BY <1>2, <3>5, <3>7 DEF Lost
    <3>6. QED
      BY <3>4, <3>5
  <2>2. QED
    BY <2>1
<1>6. /\ Lost \subseteq Lost' /\ dropped' \subseteq Events /\ crossed' \subseteq Events
      /\ Lost' \subseteq Lost \cup lost /\ \A e \in Lost' : e <= made
  <2>1. \A e \in lost : e <= made
    BY <1>2 DEF EventsOf, IInv, Numbered
  <2>2. dropped' \subseteq dropped \cup lost /\ crossed' \subseteq crossed \cup lost
        /\ Lost \subseteq Lost'
    BY <1>2 DEF Lost
  <2>3. QED
    BY <1>1, <1>4, <2>1, <2>2 DEF TableOK, IInv, Numbered, Lost
<1>a. \A i \in Ids : queue'[i].status = "queued" =>
         queue[i].status = "queued" /\ queue[i].event \notin Lost'
  <2>1. ASSUME NEW i \in Ids, queue'[i].status = "queued"
        PROVE  queue[i].status = "queued" /\ queue[i].event \notin Lost'
    <3>1. i \notin rows[p] /\ queue[i].status = "queued"
      BY <1>1, <1>2, <2>1, MarkType
    <3>2. queue[i].event \notin Lost
      BY <3>1 DEF IInv, LostIsSent, Queued
    <3>3. queue[i].event \notin lost
      <4>1. SUFFICES ASSUME NEW j \in rows[p], queue[j].event = queue[i].event PROVE FALSE
        BY DEF EventsOf
      <4>2. QED
        BY <1>1, <1>2, <3>1, <4>1, DistinctEvents
    <3>4. QED
      BY <1>6, <3>1, <3>2, <3>3
  <2>2. QED
    BY <2>1
<1> HIDE DEF lost
<1>7. ProcessesOK'
  BY <1>1, <1>2, <1>3 DEF ProcessesOK, Places, Flushed, LetGo
<1>8. \A q \in Procs : (At(q, "answered") /\ token[q])' =>
                        At(q, "answered") /\ token[q]
  BY <1>1, <1>2 DEF ProcessesOK, Flushed
<1>b. \A q \in Procs : payload'[q] \in {payload[q], {}}
  BY <1>1, <1>2 DEF ProcessesOK, Flushed, LetGo
<1>9. QED
  BY <1>2, <1>3, <1>5, <1>6, <1>a, <1>b, <1>7, <1>8, MarkStep

LEMMA MarkRetryStep == ASSUME IInv, NEW p \in Procs, MarkRetry(p) PROVE IInv'
<1> USE DEF At, Goto
<1>1. ProcessesOK /\ TableOK /\ TypeOK
  BY DEF IInv, TypeOK
<1>2. /\ queue' = Postpone(p) /\ Flushed(p)
      /\ UNCHANGED <<made, received, dropped, crossed, todo, token, calm>>
  BY DEF MarkRetry, server
<1>3. queue' \in Seq(Row) /\ SameRows /\ \A i \in Ids : queue'[i].status = queue[i].status
  BY <1>1, <1>2, PostponeType DEF SameRows, Ids
<1>4. ProcessesOK'
  BY <1>1, <1>2, <1>3 DEF ProcessesOK, Places, Flushed, LetGo
<1>5. \A q \in Procs : (At(q, "answered") /\ token[q])' =>
                        At(q, "answered") /\ token[q]
  BY <1>1, <1>2 DEF ProcessesOK, Flushed
<1>b. \A q \in Procs : payload'[q] \in {payload[q], {}}
  BY <1>1, <1>2 DEF ProcessesOK, Flushed, LetGo
<1>6. /\ dropped' \subseteq Events /\ crossed' \subseteq Events
      /\ Lost' = Lost /\ \A e \in Lost' : e <= made
      /\ \A i \in Ids : queue[i].status = "queued" => queue[i].event \notin Lost'
  BY <1>1, <1>2 DEF TableOK, IInv, Numbered, LostIsSent, Queued, Lost
<1>7. QED
  BY <1>2, <1>3, <1>4, <1>5, <1>6, <1>b, MarkStep

LEMMA RetryDueStep == ASSUME IInv, RetryDue PROVE IInv'
<1>1. ProcessesOK /\ TableOK /\ TypeOK
  BY DEF IInv, TypeOK
<1>2. queue' \in Seq(Row) /\ SameRows /\ \A i \in Ids : queue'[i].status = queue[i].status
  BY <1>1, RetryDueType DEF SameRows
<1>3. UNCHANGED <<made, received, dropped, crossed, pc, todo, token, rows, payload, calm>>
  BY DEF RetryDue, server, process, held
<1>4. ProcessesOK'
  BY <1>1, <1>2, <1>3 DEF ProcessesOK
<1>5. /\ dropped' \subseteq Events /\ crossed' \subseteq Events
      /\ Lost' = Lost /\ \A e \in Lost' : e <= made
      /\ \A i \in Ids : queue[i].status = "queued" => queue[i].event \notin Lost'
  BY <1>1, <1>3 DEF TableOK, IInv, Numbered, LostIsSent, Queued, Lost
<1>6. QED
  BY <1>2, <1>3, <1>4, <1>5, MarkStep DEF At

LEMMA NextInv == IInv /\ [Next]_vars => IInv'
<1> SUFFICES ASSUME IInv, [Next]_vars PROVE IInv'
  OBVIOUS
<1>1. CASE RetryDue
  BY <1>1, RetryDueStep
<1>2. CASE Calm \/ UNCHANGED vars
  <2>1. UNCHANGED <<queue, made, server, pc, todo, token, rows, payload>> /\ calm' \in {calm, TRUE}
    BY <1>2 DEF Calm, vars, process, held
  <2>2. ProcessesOK'
    BY <2>1 DEF IInv, TypeOK, ProcessesOK
  <2>3. QED
    BY <2>1, <2>2, ProcessStep DEF At
<1>3. ASSUME NEW p \in Procs, Step(p) PROVE IInv'
  <2>1. CASE ClearUsageEventQueue(p)
    BY <2>1, ClearStep
  <2>2. CASE BackfillApplyAnalytics(p) \/ TrackCommandEvent(p)
    BY <2>2, EnqueueStep DEF BackfillApplyAnalytics, TrackCommandEvent, NextIs
  <2>3. CASE ListReady(p)
    BY <2>3, ListReadyStep
  <2>4. CASE Accepted(p) \/ AnswerLost(p)
    BY <2>4, ReceivedStep
  <2>5. CASE MarkSent(p)
    BY <2>5, MarkSentStep
  <2>6. CASE MarkRetry(p)
    BY <2>6, MarkRetryStep
  <2>7. QED
    BY <1>3, <2>1, <2>2, <2>3, <2>4, <2>5, <2>6, QuietStep, Zenon DEF Step, Flush
<1>4. QED
  BY <1>1, <1>2, <1>3 DEF Next

LEMMA Invariant == Spec => []IInv
BY InitInv, NextInv, PTL DEF Spec

\* Types, for any number of processes, events and any batch size.
THEOREM TypeCorrect == Spec => []TypeOK
<1>1. IInv => TypeOK
  BY DEF IInv
<1>2. QED
  BY <1>1, Invariant, PTL

\* Only what the server has is sent, or what no login was possible for, or what
\* took the id of a row that was deleted under a flush.
THEOREM SentIsAccepted == Spec => []SentImpliesAccepted
<1>1. IInv => SentImpliesAccepted
  BY DEF IInv
<1>2. QED
  BY <1>1, Invariant, PTL

-----------------------------------------------------------------------------
(* The refinement.                                                         *)

\* The view of an event, by where its row is.
LEMMA StageOf ==
  ASSUME IInv, NEW i \in Ids
  PROVE  LET e == queue[i].event
         IN  /\ e \in Events /\ e <= made
             /\ Queued(i) => Stage(e) = "waiting" /\ e \notin Lost
             /\ ~Queued(i) => Stage(e) = IF e \in Lost THEN "abandoned" ELSE "settled"
<1> DEFINE e == queue[i].event
<1>1. queue[i] \in Row /\ TypeOK /\ made \in Int
  BY ElementOfSeq, LenProperties DEF IInv, TypeOK, TableOK, Ids
<1>2. e \in Events /\ e <= made /\ e \in Int /\ InQueue(e)
  BY <1>1, OutboxAssumption DEF IInv, Numbered, Row, Events, InQueue
<1>3. Queued(i) => e \notin Sent /\ e \notin Lost
  <2>1. Queued(i) => e \notin Sent
    <3>1. SUFFICES ASSUME Queued(i), NEW j \in Ids, ~Queued(j), queue[j].event = e PROVE FALSE
      BY DEF Sent
    <3>2. i = j
      BY <1>1, <3>1, DistinctEvents
    <3>3. QED
      BY <3>1, <3>2
  <2>2. QED
    BY <2>1 DEF IInv, LostIsSent
<1>4. ~Queued(i) => e \in Sent
  BY DEF Sent
<1>5. ~(e > made)
  BY <1>1, <1>2
<1> HIDE DEF e
<1>6. QED
  BY <1>2, <1>3, <1>4, <1>5 DEF Stage, Lost, e

\* The view depends on the statuses alone.
LEMMA SameStage ==
  ASSUME SameRows, UNCHANGED <<made, dropped, crossed>>,
         \A i \in Ids : queue'[i].status = queue[i].status
  PROVE  \A e \in Events : Stage(e)' = Stage(e)
<1>1. Sent' = Sent /\ \A e \in Events : InQueue(e)' = InQueue(e)
  BY DEF SameRows, Sent, Queued, InQueue
<1>2. QED
  BY <1>1 DEF Stage

LEMMA AbstractInit == Init => Abstract!Init
<1> SUFFICES ASSUME Init PROVE Abstract!Init
  OBVIOUS
<1>1. \A e \in Events : Stage(e) = "new"
  BY OutboxAssumption DEF Init, Stage, Events
<1>2. QED
  BY <1>1 DEF Init, Abstract!Init

LEMMA AbstractStep == IInv /\ [Next]_vars => [Abstract!Next]_(Abstract!vars)
<1> SUFFICES ASSUME IInv, [Next]_vars PROVE [Abstract!Next]_(Abstract!vars)
  OBVIOUS
<1> DEFINE view == [e \in Events |-> Stage(e)]
<1>0. IInv' /\ TypeOK /\ TableOK /\ ProcessesOK
  BY NextInv DEF IInv, TypeOK
<1>a. ASSUME \A e \in Events : Stage(e)' = Stage(e), UNCHANGED received
      PROVE  UNCHANGED <<view, received>>
  BY <1>a
<1>b. ASSUME UNCHANGED <<queue, made, server>> PROVE UNCHANGED <<view, received>>
  BY <1>b DEF Stage, Sent, InQueue, Queued, Ids, server
<1>1. CASE RetryDue
  <2>1. SameRows /\ \A i \in Ids : queue'[i].status = queue[i].status
    BY <1>0, <1>1, RetryDueType DEF SameRows
  <2>2. UNCHANGED <<made, dropped, crossed, received>>
    BY <1>1 DEF RetryDue, server
  <2>3. QED
    BY <1>a, <2>1, <2>2, SameStage DEF Abstract!vars
<1>2. CASE Calm \/ UNCHANGED vars
  BY <1>2, <1>b DEF Calm, vars, Abstract!vars
<1>3. ASSUME NEW p \in Procs, Step(p) PROVE [Abstract!Next]_(Abstract!vars)
  <2>1. CASE ClearUsageEventQueue(p)
    <3>1. queue' = <<>> /\ Ids' = {} /\ UNCHANGED <<made, received, dropped, crossed>>
      BY <2>1 DEF ClearUsageEventQueue, Ids, server
    <3>2. \A e \in Events : Stage(e)' = IF Stage(e) = "new" THEN "new" ELSE "deleted"
      BY <3>1 DEF Stage, InQueue
    <3>3. Abstract!Delete
      BY <3>1, <3>2 DEF Abstract!Delete, Abstract!Move
    <3>4. QED
      BY <3>3 DEF Abstract!Next
  <2>2. CASE Enqueue(p)
    <3>1. CASE UNCHANGED <<queue, made, pc>>
      BY <1>b, <2>2, <3>1 DEF Enqueue, server, Abstract!vars
    <3>2. CASE made < MaxEvents /\ made' = made + 1 /\ queue' = Append(queue, NewRow(made + 1))
      <4> DEFINE n == Len(queue) + 1
      <4>1. /\ made + 1 \in Events /\ NewRow(made + 1) \in Row /\ made \in Int
            /\ NewRow(made + 1).event = made + 1 /\ NewRow(made + 1).status = "queued"
        BY <1>0, <3>2, OutboxAssumption DEF TableOK, NewRow, Row, Events
      <4>2. /\ Ids' = Ids \cup {n} /\ n \notin Ids
            /\ queue'[n] = NewRow(made + 1) /\ \A i \in Ids : queue'[i] = queue[i]
        BY <1>0, <3>2, <4>1, Extended DEF TableOK, Ids
      <4> HIDE DEF n
      <4>3. UNCHANGED <<received, dropped, crossed>>
        BY <2>2 DEF Enqueue, server
      <4>4. Sent' = Sent
        BY <4>1, <4>2 DEF Sent, Queued
      <4>5. PICK m \in Events : m = made + 1
        BY <4>1
      <4>6. \A e \in Events : InQueue(e)' <=> InQueue(e) \/ e = m
        BY <4>1, <4>2, <4>5 DEF InQueue
      <4>7. m \notin Sent /\ m > made /\ ~(m > made')
        BY <3>2, <4>1, <4>5 DEF Sent, IInv, Numbered
      <4>8. Stage(m) = "new" /\ Stage(m)' = "waiting"
        BY <4>4, <4>6, <4>7 DEF Stage
      <4>9. ASSUME NEW e \in Events, e # m PROVE Stage(e)' = Stage(e)
        <5>1. e \in Int /\ (e > made' <=> e > made)
          BY <3>2, <4>1, <4>5, <4>9, OutboxAssumption DEF Events
        <5>2. QED
          BY <4>3, <4>4, <4>6, <4>9, <5>1 DEF Stage
      <4>10. view' = [e \in Events |-> IF e \in {m} THEN "waiting" ELSE view[e]]
        BY <4>8, <4>9
      <4>11. Abstract!Put(m)
        BY <4>3, <4>8, <4>10 DEF Abstract!Put, Abstract!Move
      <4>12. QED
        BY <4>11 DEF Abstract!Next
    <3>3. QED
      BY <2>2, <3>1, <3>2 DEF Enqueue
  <2>3. CASE Accepted(p) \/ AnswerLost(p)
    <3>1. received' = received \cup payload[p] /\ UNCHANGED <<queue, made, dropped, crossed>>
      BY <2>3 DEF Accepted, AnswerLost
    <3>2. view' = view
      BY <3>1 DEF Stage, Sent, InQueue, Queued, Ids
    <3>3. \A e \in payload[p] : e \in Events /\ Stage(e) # "new"
      <4>1. \A e \in payload[p] : e \in Events /\ e \in Int /\ e <= made /\ made \in Int
        BY <1>0, OutboxAssumption DEF ProcessesOK, TableOK, Events, IInv, Numbered
      <4>2. QED
        BY <4>1 DEF Stage
    <3>4. Abstract!Receive(payload[p])
      BY <3>1, <3>2, <3>3 DEF Abstract!Receive
    <3>5. QED
      BY <3>3, <3>4 DEF Abstract!Next
  <2>4. CASE MarkSent(p)
    <3> DEFINE b == EventsOf({j \in rows[p] : Queued(j)})
               lost == IF token[p] THEN b \ payload[p] ELSE b
               kept == b \ lost
    <3>1. /\ queue' = Mark(p) /\ dropped' = IF token[p] THEN dropped ELSE dropped \cup b
          /\ crossed' = crossed \cup (b \ payload[p]) /\ rows[p] \subseteq Ids
          /\ At(p, "answered") /\ UNCHANGED <<made, received>>
      BY <2>4 DEF MarkSent, Present
    <3>2. /\ Ids' = Ids /\ \A i \in Ids : queue'[i].event = queue[i].event
          /\ \A i \in Ids : Queued(i)' <=> Queued(i) /\ i \notin rows[p]
      BY <1>0, <3>1, MarkType DEF Queued, Ids
    <3>3. /\ \A e \in Events : InQueue(e)' = InQueue(e)
          /\ Sent' = Sent \cup b
      BY <3>1, <3>2 DEF InQueue, Sent, EventsOf
    <3>4. \A e \in b : /\ e \in Events /\ e <= made /\ InQueue(e)
                      /\ Stage(e) = "waiting" /\ e \notin Lost /\ ~(e > made)
      <4>1. ASSUME NEW i \in rows[p], Queued(i)
            PROVE  LET e == queue[i].event
                   IN  /\ e \in Events /\ e <= made /\ InQueue(e)
                       /\ Stage(e) = "waiting" /\ e \notin Lost /\ ~(e > made)
        <5>1. made \in Int /\ \A e \in Events : e \in Int
          BY <1>0, OutboxAssumption DEF TableOK, Events
        <5>2. QED
          BY <3>1, <4>1, <5>1, StageOf DEF InQueue
      <4>2. QED
        BY <4>1 DEF EventsOf
    <3>5. Lost' = Lost \cup lost /\ lost \subseteq b
      BY <3>1 DEF Lost
    <3>6. \A e \in Events \ b : Stage(e)' = Stage(e)
      BY <3>1, <3>3, <3>5 DEF Stage, Lost
    <3>7. \A e \in b : Stage(e)' = IF e \in lost THEN "abandoned" ELSE "settled"
      BY <3>1, <3>3, <3>4, <3>5 DEF Stage, Lost
    <3>8. view' = [e \in Events |-> IF e \in lost THEN "abandoned"
                                     ELSE IF e \in kept THEN "settled" ELSE view[e]]
      BY <3>4, <3>5, <3>6, <3>7
    <3>9. kept \subseteq received
      BY <3>1 DEF IInv, AnsweredIsAccepted
    <3>10. b \subseteq Events /\ \A e \in b : view[e] = "waiting"
      BY <3>4
    <3> HIDE DEF b, lost, kept
    <3>11. kept \subseteq b /\ lost \subseteq b /\ kept \cap lost = {}
      BY DEF kept, lost
    <3>12. Abstract!Close(kept, lost)
      BY <3>1, <3>8, <3>9, <3>10, <3>11 DEF Abstract!Close
    <3>13. QED
      BY <3>10, <3>11, <3>12 DEF Abstract!Next
  <2>5. CASE MarkRetry(p)
    <3>1. queue' = Postpone(p) /\ UNCHANGED <<made, received, dropped, crossed>>
      BY <2>5 DEF MarkRetry, server
    <3>2. SameRows /\ \A i \in Ids : queue'[i].status = queue[i].status
      BY <1>0, <3>1, PostponeType DEF SameRows, Ids
    <3>3. QED
      BY <1>a, <3>1, <3>2, SameStage DEF Abstract!vars
  <2>6. CASE \/ \E c \in Commands : Start(p, c)
             \/ Exit(p) \/ Crash(p) \/ SyncDone(p) \/ SyncFailed(p) \/ ListReady(p)
             \/ Login(p) \/ LoginFailed(p) \/ Refused(p) \/ MarkSentFailed(p) \/ MarkRetryFailed(p)
             \/ RowsGone(p)
    <3>1. UNCHANGED <<queue, made, server>>
      BY <2>6 DEF Start, Exit, Crash, Leave, SyncDone, SyncFailed, ListReady, Login, LoginFailed,
                  Refused, MarkSentFailed, MarkRetryFailed, RowsGone
    <3>2. QED
      BY <1>b, <3>1 DEF Abstract!vars
  <2>7. CASE BackfillApplyAnalytics(p) \/ TrackCommandEvent(p)
    BY <2>2, <2>7 DEF BackfillApplyAnalytics, TrackCommandEvent
  <2>8. QED
    BY <1>3, <2>1, <2>3, <2>4, <2>5, <2>6, <2>7, Zenon DEF Step, Flush
<1>4. QED
  BY <1>1, <1>2, <1>3 DEF Next

\* Killed, refused, locked out or run in parallel: the queue is a Delivery.
THEOREM ImplementsDelivery == Spec => Delivers
<1>1. QED
  BY AbstractInit, AbstractStep, Invariant, PTL DEF Spec, Delivers, Abstract!Spec
=============================================================================
