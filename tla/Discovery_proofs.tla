-------------------------- MODULE Discovery_proofs --------------------------
(***************************************************************************)
(* Proofs about Discovery, for any postings, lists of the server, page     *)
(* size and number of discoveries, uploads and other writers: which rows   *)
(* may say submitted, that no posting is applied to twice, that activity   *)
(* is reported, and that an undisturbed discovery mirrors the list.        *)
(***************************************************************************)
EXTENDS Discovery, SequenceTheorems, FiniteSetTheorems, TLAPS

LEMMA Settings ==
  /\ Friendly \subseteq Postings /\ NoUrl \notin Postings /\ Listings \subseteq Seq(Listing)
  /\ PageSize \in Nat \ {0} /\ MaxStarted \in Nat
BY DiscoveryAssumption

-----------------------------------------------------------------------------
(* The stable sort is a permutation                                        *)

Place(s, j) == Cardinality({i \in DOMAIN s : Before(s, i, j)})

LEMMA BeforeIsOrder ==
  ASSUME NEW s \in Seq(Listing)
  PROVE  /\ DOMAIN s = 1..Len(s) /\ Len(s) \in Nat
         /\ \A i \in DOMAIN s : s[i].listed \in Nat /\ s[i] \in Listing /\ Before(s, i, i)
         /\ \A i, j \in DOMAIN s : Before(s, i, j) \/ Before(s, j, i)
         /\ \A i, j \in DOMAIN s : Before(s, i, j) /\ Before(s, j, i) => i = j
         /\ \A i, j, k \in DOMAIN s : Before(s, i, j) /\ Before(s, j, k) => Before(s, i, k)
<1>1. DOMAIN s = 1..Len(s) /\ Len(s) \in Nat
  BY LenProperties
<1>2. \A i \in DOMAIN s : s[i] \in Listing
  BY <1>1, ElementOfSeq
<1>3. \A i \in DOMAIN s : s[i].listed \in Nat
  BY <1>2 DEF Listing
<1>4. QED
  BY <1>1, <1>2, <1>3 DEF Before

LEMMA PlaceBounds ==
  ASSUME NEW s \in Seq(Listing), NEW j \in DOMAIN s
  PROVE  /\ Place(s, j) \in 1..Len(s)
         /\ IsFiniteSet({i \in DOMAIN s : Before(s, i, j)})
<1> DEFINE B == {i \in DOMAIN s : Before(s, i, j)}
<1>1. DOMAIN s = 1..Len(s) /\ Len(s) \in Nat /\ j \in B /\ B \subseteq 1..Len(s)
  BY BeforeIsOrder
<1>2. IsFiniteSet(1..Len(s)) /\ Cardinality(1..Len(s)) = Len(s)
  <2>1. 1 \in Int /\ Len(s) \in Int
    BY <1>1
  <2>2. IsFiniteSet(1..Len(s)) /\ Cardinality(1..Len(s)) = IF 1 > Len(s) THEN 0 ELSE Len(s) - 1 + 1
    BY <2>1, FS_Interval
  <2>3. QED
    BY <1>1, <2>2
<1>3. IsFiniteSet(B) /\ Cardinality(B) <= Len(s) /\ Cardinality(B) \in Nat
  BY <1>1, <1>2, FS_Subset, FS_CardinalityType
<1>4. Cardinality(B) # 0
  BY <1>1, <1>3, FS_EmptySet
<1>5. QED
  BY <1>1, <1>3, <1>4 DEF Place

LEMMA PlaceInjective ==
  ASSUME NEW s \in Seq(Listing), NEW j \in DOMAIN s, NEW k \in DOMAIN s,
         Place(s, j) = Place(s, k)
  PROVE  j = k
<1>1. ASSUME NEW x \in DOMAIN s, NEW y \in DOMAIN s, Before(s, x, y), Place(s, x) = Place(s, y)
      PROVE  x = y
  <2> DEFINE X == {i \in DOMAIN s : Before(s, i, x)}
             Y == {i \in DOMAIN s : Before(s, i, y)}
  <2>1. X \subseteq Y
    BY <1>1, BeforeIsOrder
  <2>2. IsFiniteSet(Y) /\ Cardinality(X) = Cardinality(Y)
    BY <1>1, PlaceBounds DEF Place
  <2>3. X = Y
    BY <2>1, <2>2, FS_Subset
  <2>4. y \in X
    BY <2>3, BeforeIsOrder
  <2>5. QED
    BY <1>1, <2>4, BeforeIsOrder
<1>2. QED
  BY <1>1, BeforeIsOrder

LEMMA PlaceOnto ==
  ASSUME NEW s \in Seq(Listing), NEW k \in DOMAIN s
  PROVE  \E j \in DOMAIN s : Place(s, j) = k
<1> DEFINE f == [j \in DOMAIN s |-> Place(s, j)]
           C == 1..Len(s)
<1>1. DOMAIN s = C /\ Len(s) \in Nat
  BY BeforeIsOrder
<1>2. f \in [C -> C]
  BY <1>1, PlaceBounds
<1>3. f \in Injection(C, C)
  BY <1>1, <1>2, PlaceInjective DEF Injection, IsInjective
<1>4. IsFiniteSet(C)
  BY <1>1, FS_Interval
<1>5. f \in Surjection(C, C)
  BY <1>3, <1>4, FS_Injection
<1>6. QED
  BY <1>1, <1>5 DEF Surjection

LEMMA NewestFirstType ==
  ASSUME NEW s \in Seq(Listing)
  PROVE  NewestFirst(s) \in Seq(Listing)
<1>1. DOMAIN s = 1..Len(s) /\ Len(s) \in Nat
  BY BeforeIsOrder
<1> DEFINE c(k) == CHOOSE j \in DOMAIN s : Cardinality({i \in DOMAIN s : Before(s, i, j)}) = k
<1>2. NewestFirst(s) = [k \in DOMAIN s |-> s[c(k)]]
  BY DEF NewestFirst
<1>3. \A k \in DOMAIN s : c(k) \in DOMAIN s
  BY PlaceOnto DEF Place
<1> HIDE DEF c
<1>4. \A k \in DOMAIN s : s[c(k)] \in Listing
  BY <1>3, BeforeIsOrder
<1>5. NewestFirst(s) \in [1..Len(s) -> Listing]
  BY <1>1, <1>2, <1>4
<1>6. QED
  BY <1>1, <1>5, SeqDef

-----------------------------------------------------------------------------
(* Types                                                                   *)

Unique == \A i, j \in Ids : jobs[i].posting = jobs[j].posting => i = j
TableOK == jobs \in Seq(Job) /\ Unique /\ fresh \subseteq Ids /\ logs \subseteq Nat
DiscoverOK == /\ server \in Listings /\ old \in BOOLEAN /\ rows \in Seq(Listing)
              /\ disc \in {"idle", "fetch", "clear", "import"} /\ total \in Int
              /\ seen \subseteq Postings
HandOK == hand \in Hand /\ (hand.at # "none" => hand.posting \in Postings)
HistoryOK == /\ synced \in BOOLEAN /\ upload \in BOOLEAN
             /\ sync \subseteq Nat /\ late \subseteq Nat /\ reported \subseteq Nat
             /\ missed \subseteq Nat /\ applied \subseteq Postings /\ reused \subseteq Nat
             /\ forgotten \subseteq Postings \cup {NoUrl}
BoundsOK == mirror \in {"no", "going", "done"} /\ started \in Nat

LEMMA TypeParts == TypeOK <=> TableOK /\ DiscoverOK /\ HandOK /\ HistoryOK /\ BoundsOK
BY DEF TypeOK, TableOK, Unique, DiscoverOK, HandOK, HistoryOK, BoundsOK

LEMMA TypeInit == Init => TypeOK
<1> SUFFICES ASSUME Init PROVE TypeOK
  OBVIOUS
<1>1. jobs = <<>> /\ rows = <<>> /\ \A S : <<>> \in Seq(S)
  BY EmptySeq DEF Init
<1>2. Ids = {}
  BY <1>1 DEF Ids
<1>3. TableOK /\ HandOK
  BY <1>1, <1>2 DEF Init, TableOK, Unique, HandOK, Hand, Nothing
<1>4. DiscoverOK
  BY <1>1, EmptySeq DEF Init, DiscoverOK
<1>5. HistoryOK /\ BoundsOK
  BY DEF Init, HistoryOK, BoundsOK
<1>6. QED
  BY <1>3, <1>4, <1>5, TypeParts

LEMMA TableIs ==
  ASSUME TableOK
  PROVE  /\ Ids = 1..Len(jobs) /\ Len(jobs) \in Nat /\ Ids \subseteq Nat
         /\ \A i \in Ids : jobs[i] \in Job
BY LenProperties, ElementOfSeq DEF TableOK, Ids

LEMMA Created ==
  ASSUME TableOK, NEW job \in Job, Create(job), job.posting \notin Urls
  PROVE  /\ jobs' \in Seq(Job) /\ Unique' /\ Ids' = Ids \cup {Len(jobs) + 1} /\ Len(jobs) + 1 \notin Ids
         /\ jobs'[Len(jobs) + 1] = job /\ \A i \in Ids : jobs'[i] = jobs[i]
         /\ Touch({Len(jobs) + 1}) /\ Len(jobs) + 1 \in Nat
<1>1. jobs \in Seq(Job) /\ jobs' = Append(jobs, job) /\ Touch({Len(jobs) + 1})
  BY DEF Create, TableOK
<1>2. /\ jobs' \in Seq(Job) /\ Len(jobs') = Len(jobs) + 1 /\ jobs'[Len(jobs) + 1] = job
      /\ \A i \in 1..Len(jobs) : jobs'[i] = jobs[i]
  BY <1>1, AppendProperties
<1>3. Ids' = 1..Len(jobs')
  BY <1>2, LenProperties DEF Ids
<1>4. /\ Ids' = Ids \cup {Len(jobs) + 1} /\ Len(jobs) + 1 \notin Ids /\ Len(jobs) + 1 \in Nat
      /\ \A i \in Ids : jobs'[i] = jobs[i]
  BY <1>2, <1>3, TableIs
<1>5. \A i \in Ids : jobs[i].posting # job.posting
  BY DEF Urls
<1>6. Unique'
  <2>1. ASSUME NEW i \in Ids', NEW j \in Ids', jobs'[i].posting = jobs'[j].posting PROVE i = j
    BY <1>2, <1>4, <1>5, <2>1 DEF TableOK, Unique
  <2>2. QED
    BY <2>1 DEF Unique
<1>7. QED
  BY <1>1, <1>2, <1>4, <1>6

LEMMA Written ==
  ASSUME TableOK, NEW i \in Nat, NEW status \in Statuses, Write(i, status)
  PROVE  /\ jobs' \in Seq(Job) /\ Unique' /\ Ids' = Ids
         /\ \A k \in Ids : /\ k # i => jobs'[k] = jobs[k]
                           /\ jobs'[k].posting = jobs[k].posting /\ jobs'[k].already = jobs[k].already
         /\ i \in Ids => jobs'[i].status = status /\ Touch({i})
         /\ i \notin Ids => UNCHANGED <<jobs, fresh, late, reported, missed>>
<1>1. CASE i \in Ids
  <2>1. jobs' = [jobs EXCEPT ![i].status = status] /\ Touch({i})
    BY <1>1 DEF Write
  <2>2. jobs \in [1..Len(jobs) -> Job] /\ Ids = 1..Len(jobs) /\ Len(jobs) \in Nat
    BY TableIs, LenProperties DEF TableOK, Ids
  <2>3. jobs[i] \in Job /\ [jobs[i] EXCEPT !.status = status] \in Job
    BY <1>1, <2>2 DEF Job
  <2>4. jobs' = [jobs EXCEPT ![i] = [jobs[i] EXCEPT !.status = status]]
    BY <2>1
  <2>5. jobs' \in [1..Len(jobs) -> Job] /\ Ids' = Ids
    BY <2>2, <2>3, <2>4 DEF Ids
  <2>6. jobs' \in Seq(Job)
    BY <2>2, <2>5, SeqDef
  <2>7. /\ \A k \in Ids : k # i => jobs'[k] = jobs[k]
        /\ jobs'[i].status = status /\ jobs'[i].posting = jobs[i].posting
        /\ jobs'[i].already = jobs[i].already
    BY <1>1, <2>2, <2>3, <2>4 DEF Job
  <2>8. Unique'
    BY <2>5, <2>7 DEF TableOK, Unique
  <2>9. QED
    BY <1>1, <2>1, <2>5, <2>6, <2>7, <2>8
<1>2. CASE i \notin Ids
  <2>1. UNCHANGED <<jobs, fresh, late, reported, missed>>
    BY <1>2 DEF Write
  <2>2. QED
    BY <1>2, <2>1 DEF TableOK, Unique, Ids
<1>3. QED
  BY <1>1, <1>2

LEMMA NewJobType ==
  ASSUME NEW p \in Postings, NEW status \in Statuses, NEW already \in BOOLEAN
  PROVE  /\ NewJob(p, status, already) \in Job /\ NewJob(p, status, already).posting = p
         /\ NewJob(p, status, already).status = status
         /\ NewJob(p, status, already).already = already
BY DEF NewJob, Job

\* What an import writes, or passes over.
LEMMA Imported ==
  ASSUME DiscoverOK, ImportRow
  PROVE  /\ Head(rows) \in Listing /\ rows' \in Seq(Listing) /\ seen' \subseteq Postings
         /\ \/ UNCHANGED <<jobs, fresh, late, reported, missed>>
            \/ LET r == Head(rows) job == NewJob(r.posting, ListedStatus(r), r.already)
               IN  job \in Job /\ job.posting \notin Urls /\ Create(job)
                   /\ (job.status = "submitted" => job.already) /\ job.status # "failed"
<1>1. rows \in Seq(Listing) /\ rows # <<>> /\ rows' = Tail(rows)
  BY DEF DiscoverOK, ImportRow
<1>2. Head(rows) \in Listing /\ rows' \in Seq(Listing)
  BY <1>1, HeadTailProperties
<1> DEFINE r == Head(rows)
           job == NewJob(r.posting, ListedStatus(r), r.already)
<1>3. r.posting \in Postings \cup {NoUrl} /\ r.already \in BOOLEAN
  BY <1>2 DEF Listing
<1>4. seen' \subseteq Postings
  BY <1>3 DEF ImportRow, DiscoverOK
<1>5. CASE Importable(r)
  <2>1. r.posting \in Postings /\ r.posting \notin Urls /\ Create(job)
    BY <1>3, <1>5 DEF Importable, ImportRow
  <2>2. ListedStatus(r) \in {"submitted", "pending", "skipped"} /\ (ListedStatus(r) = "submitted" => r.already)
    BY DEF ListedStatus
  <2>3. job \in Job /\ job.posting = r.posting /\ job.status = ListedStatus(r) /\ job.already = r.already
    BY <1>3, <2>1, <2>2, NewJobType DEF Statuses
  <2>4. QED
    BY <1>2, <1>4, <2>1, <2>2, <2>3
<1>6. CASE ~Importable(r)
  BY <1>2, <1>4, <1>6 DEF ImportRow
<1>7. QED
  BY <1>5, <1>6

LEMMA Added ==
  ASSUME NEW p \in Postings, AddJob(p)
  PROVE  LET job == NewJob(p, "pending", FALSE)
         IN  job \in Job /\ job.posting \notin Urls /\ Create(job) /\ job.status = "pending"
<1>1. "pending" \in Statuses /\ FALSE \in BOOLEAN
  BY DEF Statuses
<1>2. p \notin Urls /\ Create(NewJob(p, "pending", FALSE))
  BY DEF AddJob
<1>3. QED
  BY <1>1, <1>2, NewJobType

\* A run asked for by URL writes a new row, or the posting's own, or neither.
LEMMA AskedFor ==
  ASSUME TypeOK, NEW p \in Postings, ApplyUrl(p)
  PROVE  /\ \/ LET job == NewJob(p, "pending", FALSE)
               IN  /\ job \in Job /\ job.posting = p /\ job.status = "pending"
                   /\ job.posting \notin Urls /\ Create(job)
                   /\ hand' = Holding(Len(jobs) + 1, p)
            \/ \E i \in Ids, k \in Nat : /\ jobs[i].posting = p /\ Write(k, "pending")
                                        /\ k \in {0, i} /\ hand' = Holding(i, p)
         /\ hand = Nothing /\ forgotten' = forgotten \cup {p} /\ mirror' = "no"
         /\ UNCHANGED <<logs, server, discovery, synced, upload, sync, applied, reused>>
<1>1. Ids = 1..Len(jobs) /\ Ids \subseteq Nat /\ 0 \notin Ids
  BY TypeParts, TableIs
<1>2. /\ \/ p \notin Urls /\ Create(NewJob(p, "pending", FALSE)) /\ hand' = Holding(Len(jobs) + 1, p)
         \/ \E i \in Ids : jobs[i].posting = p /\ ResetToPending(i) /\ hand' = Holding(i, p)
      /\ hand = Nothing /\ forgotten' = forgotten \cup {p} /\ mirror' = "no"
      /\ UNCHANGED <<logs, server, discovery, synced, upload, sync, applied, reused>>
  BY DEF ApplyUrl, Disturb, syncing
<1>3. ASSUME NEW i \in Ids, ResetToPending(i)
      PROVE  \E k \in Nat : Write(k, "pending") /\ k \in {0, i}
  <2>1. CASE UNCHANGED <<jobs, fresh, late, reported, missed>>
    <3>1. Write(0, "pending")
      BY <1>1, <2>1 DEF Write
    <3>2. QED
      BY <3>1
  <2>2. CASE Write(i, "pending")
    BY <1>1, <2>2
  <2>3. QED
    BY <1>3, <2>1, <2>2 DEF ResetToPending
<1>4. CASE p \notin Urls /\ Create(NewJob(p, "pending", FALSE)) /\ hand' = Holding(Len(jobs) + 1, p)
  <2>1. "pending" \in Statuses /\ FALSE \in BOOLEAN
    BY DEF Statuses
  <2>2. QED
    BY <1>2, <1>4, <2>1, NewJobType
<1>5. CASE \E i \in Ids : jobs[i].posting = p /\ ResetToPending(i) /\ hand' = Holding(i, p)
  BY <1>2, <1>3, <1>5
<1>6. QED
  BY <1>2, <1>4, <1>5

\* The ways the table is written, and what the other actions leave alone.
Deletes == ClearJobRelatedData \/ ClearJobs
Creates == ImportRow \/ \E p \in Postings : DiscoverPlaywright(p) \/ Scan(p)
Updates == \/ Take \/ StoreSubmitted \/ \E s \in {"failed", "skipped"} : NotSubmitted(s)
           \/ Interrupted \/ \E i \in Ids : Reconcile(i)
Asks    == \E p \in Postings : ApplyUrl(p)
Uploads == \E uploaded \in {sync, {}} : RecordSync(uploaded)
Weeks   == \E i \in Ids : WeekPasses(i)
Lists   == \E i \in Ids : ListPending(i) \/ ListPendingAshby(i) \/ JobsFromCheckpoint(i)
Others  == \/ Change \/ StartDiscover \/ FetchPage \/ ImportDone \/ FetchFailed \/ DiscoverKilled
           \/ Lists \/ Submit \/ LogSuccess \/ RunKilled \/ StartSync \/ SyncFailed

LEMMA Moves ==
  [Next]_vars => Deletes \/ Creates \/ Updates \/ Asks \/ Uploads \/ Weeks \/ Others \/ UNCHANGED vars
BY Zenon DEF Next, Step, Run, DiscoverStep, Deletes, Creates, Updates, Asks, Uploads, Weeks, Lists, Others

\* What the actions of Others touch.
LEMMA OthersKeep ==
  Others => /\ UNCHANGED <<jobs, fresh, reused>>
            /\ LogSuccess \/ UNCHANGED logs
            /\ Submit \/ UNCHANGED applied
            /\ RunKilled \/ UNCHANGED forgotten
            /\ Lists \/ Submit \/ LogSuccess \/ RunKilled \/ UNCHANGED hand
            /\ StartSync \/ SyncFailed \/ UNCHANGED activity
<1>1. CASE \/ Change \/ StartDiscover \/ FetchPage \/ ImportDone \/ FetchFailed \/ DiscoverKilled
  BY <1>1 DEF Change, StartDiscover, FetchPage, ImportDone, FetchFailed, DiscoverKilled, history
<1>2. CASE Lists
  <2>1. PICK i \in Ids : Listed(i)
    BY <1>2 DEF Lists, ListPending, ListPendingAshby, JobsFromCheckpoint
  <2>2. QED
    BY <1>2, <2>1 DEF Listed, history
<1>3. CASE Submit \/ LogSuccess
  BY <1>3 DEF Submit, LogSuccess, history
<1>4. CASE RunKilled
  BY <1>4 DEF RunKilled, LetGo, activity, syncing
<1>5. CASE StartSync \/ SyncFailed
  BY <1>5 DEF StartSync, SyncFailed, history
<1>6. QED
  BY <1>1, <1>2, <1>3, <1>4, <1>5 DEF Others

\* A write to one row, or to none.
LEMMA UpdatesWrite ==
  ASSUME TypeOK, Updates
  PROVE  /\ \E i \in Nat, status \in Statuses : Write(i, status)
         /\ UNCHANGED <<logs, synced, upload, sync, applied, reused>>
<1>1. hand.id \in Nat /\ Ids \subseteq Nat /\ 0 \notin Ids
  BY TypeParts, TableIs DEF HandOK, Hand
<1>2. CASE Take \/ StoreSubmitted
  BY <1>1, <1>2 DEF Take, StoreSubmitted, syncing, history, Statuses
<1>3. CASE \E s \in {"failed", "skipped"} : NotSubmitted(s)
  BY <1>1, <1>3 DEF NotSubmitted, LetGo, syncing, Statuses
<1>4. CASE Interrupted
  <2>1. Write(hand.id, "pending") \/ UNCHANGED <<jobs, fresh, late, reported, missed>>
    BY <1>4 DEF Interrupted
  <2>2. UNCHANGED <<jobs, fresh, late, reported, missed>> => Write(0, "pending")
    BY <1>1 DEF Write
  <2>3. "pending" \in Statuses /\ UNCHANGED <<logs, synced, upload, sync, applied, reused>>
    BY <1>4 DEF Interrupted, LetGo, syncing, Statuses
  <2>4. QED
    BY <1>1, <2>1, <2>2, <2>3
<1>5. CASE \E i \in Ids : Reconcile(i)
  BY <1>1, <1>5 DEF Reconcile, syncing, Statuses
<1>6. QED
  BY <1>2, <1>3, <1>4, <1>5 DEF Updates

\* What a creation or a write does to the table's types.
LEMMA TableCreated ==
  ASSUME TableOK, NEW job \in Job, job.posting \notin Urls, Create(job), UNCHANGED logs
  PROVE  TableOK'
<1>1. jobs' \in Seq(Job) /\ Unique' /\ Ids' = Ids \cup {Len(jobs) + 1} /\ Touch({Len(jobs) + 1})
  BY Created
<1>2. QED
  BY <1>1 DEF TableOK, Touch

LEMMA TableWritten ==
  ASSUME TableOK, NEW i \in Nat, NEW status \in Statuses, Write(i, status), UNCHANGED logs
  PROVE  TableOK'
<1>1. jobs' \in Seq(Job) /\ Unique' /\ Ids' = Ids
      /\ (i \in Ids => Touch({i})) /\ (i \notin Ids => UNCHANGED fresh)
  BY Written
<1>2. fresh' \subseteq Ids
  BY <1>1 DEF TableOK, Touch
<1>3. QED
  BY <1>1, <1>2 DEF TableOK

LEMMA TableStep ==
  ASSUME TypeOK, [Next]_vars
  PROVE  TableOK'
<1>0. TableOK /\ DiscoverOK /\ HandOK /\ HistoryOK
  BY TypeParts
<1>1. CASE Deletes
  <2>1. jobs' = <<>> /\ fresh' = {} /\ logs' = logs
    BY <1>1 DEF Deletes, ClearJobRelatedData, ClearJobs, DeleteAll
  <2>2. Ids' = {} /\ jobs' \in Seq(Job)
    BY <2>1, EmptySeq DEF Ids
  <2>3. QED
    BY <1>0, <2>1, <2>2 DEF TableOK, Unique
<1>2. CASE Creates
  <2>1. logs' = logs
    BY <1>2 DEF Creates, ImportRow, DiscoverPlaywright, Scan, AddJob
  <2>2. UNCHANGED <<jobs, fresh>> \/ \E job \in Job : job.posting \notin Urls /\ Create(job)
    <3>1. CASE ImportRow
      BY <1>0, <3>1, Imported
    <3>2. CASE \E p \in Postings : DiscoverPlaywright(p) \/ Scan(p)
      BY <3>2, Added DEF DiscoverPlaywright, Scan
    <3>3. QED
      BY <1>2, <3>1, <3>2 DEF Creates
  <2>3. CASE UNCHANGED <<jobs, fresh>>
    BY <1>0, <2>1, <2>3 DEF TableOK, Unique, Ids
  <2>4. QED
    BY <1>0, <2>1, <2>2, <2>3, TableCreated
<1>3. CASE Updates
  BY <1>0, <1>3, UpdatesWrite, TableWritten
<1>4. CASE Asks
  <2>1. PICK p \in Postings : ApplyUrl(p)
    BY <1>4 DEF Asks
  <2>2. "pending" \in Statuses /\ UNCHANGED logs
    BY <2>1, AskedFor DEF Statuses
  <2>3. \/ \E job \in Job : job.posting \notin Urls /\ Create(job)
        \/ \E k \in Nat : Write(k, "pending")
    BY <2>1, AskedFor
  <2>4. QED
    BY <1>0, <2>2, <2>3, TableCreated, TableWritten
<1>5. CASE Uploads
  BY <1>0, <1>5 DEF Uploads, RecordSync, TableOK, Unique, Ids
<1>6. CASE Weeks
  BY <1>0, <1>6 DEF Weeks, WeekPasses, TableOK, Unique, Ids
<1>7. CASE Others
  <2>1. logs' \subseteq Nat
    BY <1>0, <1>7, OthersKeep DEF LogSuccess, TableOK, HandOK, Hand
  <2>2. QED
    BY <1>0, <1>7, <2>1, OthersKeep DEF TableOK, Unique, Ids
<1>8. CASE UNCHANGED vars
  BY <1>0, <1>8 DEF vars, TableOK, Unique, Ids
<1>9. QED
  BY <1>1, <1>2, <1>3, <1>4, <1>5, <1>6, <1>7, <1>8, Moves

LEMMA WindowType ==
  ASSUME DiscoverOK, NEW offset \in Nat
  PROVE  Window(offset) \in Seq(Listing) /\ Len(Window(offset)) \in Nat
<1> DEFINE m == offset + 1
           n == Smaller(offset + PageSize, Len(server))
<1>1. server \in Seq(Listing) /\ Len(server) \in Nat
  BY Settings, LenProperties DEF DiscoverOK
<1>2. n \in Int /\ n <= Len(server) /\ m \in Int /\ m >= 1
  BY <1>1, Settings DEF Smaller
<1>3. Window(offset) = SubSeq(server, m, n)
  BY DEF Window
<1>4. \A i \in m..n : i \in 1..Len(server)
  BY <1>1, <1>2
<1>5. SubSeq(server, m, n) \in Seq(Listing)
  BY <1>1, <1>2, <1>4, SubSeqProperties
<1>6. QED
  BY <1>3, <1>5, LenProperties

LEMMA RunApart == Run => UNCHANGED <<server, discovery>>
<1>1. ASSUME NEW i \in Ids, Listed(i) PROVE UNCHANGED <<server, discovery>>
  BY <1>1 DEF Listed
<1>2. ASSUME NEW p \in Postings, ApplyUrl(p) PROVE UNCHANGED <<server, discovery>>
  BY <1>2 DEF ApplyUrl
<1>3. ASSUME Take \/ Submit \/ LogSuccess \/ StoreSubmitted PROVE UNCHANGED <<server, discovery>>
  BY <1>3 DEF Take, Submit, LogSuccess, StoreSubmitted
<1>4. ASSUME LetGo PROVE UNCHANGED <<server, discovery>>
  BY <1>4 DEF LetGo
<1>5. QED
  BY <1>1, <1>2, <1>3, <1>4, Zenon DEF Run, ListPending, ListPendingAshby, JobsFromCheckpoint,
     Interrupted, RunKilled, NotSubmitted

LEMMA ApartMoves ==
  [Next]_vars => \/ Change \/ StartDiscover \/ FetchPage \/ FetchFailed \/ DiscoverKilled
                 \/ ClearJobRelatedData \/ ImportRow \/ ImportDone \/ UNCHANGED <<server, discovery>>
BY RunApart, Zenon DEF Next, Step, DiscoverStep, DiscoverPlaywright, Scan, AddJob, ClearJobs,
   Reconcile, WeekPasses, StartSync, SyncFailed, RecordSync, vars

LEMMA DiscoverStepOK ==
  ASSUME TypeOK, [Next]_vars
  PROVE  DiscoverOK'
<1>0. DiscoverOK /\ TableOK
  BY TypeParts
<1>1. old' = old
  BY DEF Next, vars
<1>2. CASE Change
  BY <1>0, <1>1, <1>2 DEF Change, discovery, DiscoverOK
<1>3. CASE StartDiscover
  BY <1>0, <1>1, <1>3, EmptySeq DEF StartDiscover, DiscoverOK
<1>4. CASE FetchPage
  <2> DEFINE data == Window(Len(rows))
             all == IF total = -1 THEN TotalInWindow ELSE total
  <2>1. Len(rows) \in Nat /\ rows \in Seq(Listing) /\ server \in Seq(Listing) /\ Len(server) \in Nat /\ total \in Int
    BY <1>0, Settings, LenProperties DEF DiscoverOK
  <2>2. data \in Seq(Listing)
    BY <1>0, <2>1, WindowType
  <2>3. all \in Int
    BY <1>0, <2>1, WindowType DEF TotalInWindow
  <2>4. rows \o data \in Seq(Listing)
    BY <2>1, <2>2, ConcatProperties
  <2>5. rows' = rows \o data /\ total' = all /\ disc' \in {"clear", "fetch"} /\ UNCHANGED <<server, seen>>
    BY <1>4 DEF FetchPage
  <2> HIDE DEF data, all
  <2>6. QED
    BY <1>0, <1>1, <2>3, <2>4, <2>5 DEF DiscoverOK
<1>5. CASE FetchFailed \/ DiscoverKilled
  BY <1>0, <1>1, <1>5, EmptySeq DEF FetchFailed, DiscoverKilled, DiscoverOK
<1>6. CASE ClearJobRelatedData
  <2>1. rows' \in Seq(Listing)
    BY <1>0, <1>6, NewestFirstType DEF ClearJobRelatedData, DiscoverOK
  <2>2. QED
    BY <1>0, <1>1, <1>6, <2>1 DEF ClearJobRelatedData, DiscoverOK
<1>7. CASE ImportRow
  <2>1. rows' \in Seq(Listing) /\ seen' \subseteq Postings
    BY <1>0, <1>7, Imported
  <2>2. QED
    BY <1>0, <1>1, <1>7, <2>1 DEF ImportRow, DiscoverOK
<1>8. CASE ImportDone
  BY <1>0, <1>1, <1>8 DEF ImportDone, DiscoverOK
<1>9. CASE UNCHANGED <<server, discovery>>
  BY <1>0, <1>1, <1>9 DEF discovery, DiscoverOK
<1>10. \/ Change \/ StartDiscover \/ FetchPage \/ FetchFailed \/ DiscoverKilled \/ ClearJobRelatedData
       \/ ImportRow \/ ImportDone \/ UNCHANGED <<server, discovery>>
  BY ApartMoves
<1>11. QED
  BY <1>2, <1>3, <1>4, <1>5, <1>6, <1>7, <1>8, <1>9, <1>10

LEMMA HandStep ==
  ASSUME TypeOK, [Next]_vars
  PROVE  HandOK'
<1>0. HandOK /\ TableOK /\ Ids = 1..Len(jobs) /\ Len(jobs) \in Nat /\ Ids \subseteq Nat
  BY TypeParts, TableIs
<1>1. CASE Lists
  <2>1. PICK i \in Ids : Listed(i)
    BY <1>1 DEF Lists, ListPending, ListPendingAshby, JobsFromCheckpoint
  <2>2. i \in Nat /\ jobs[i].posting \in Postings
    BY <1>0, TableIs DEF Job
  <2>3. QED
    BY <2>1, <2>2 DEF Listed, Holding, HandOK, Hand
<1>2. CASE Asks
  <2>1. PICK p \in Postings : ApplyUrl(p)
    BY <1>2 DEF Asks
  <2>2. hand' = Holding(Len(jobs) + 1, p) \/ \E i \in Ids : hand' = Holding(i, p)
    BY <2>1 DEF ApplyUrl
  <2>3. Len(jobs) + 1 \in Nat
    BY <1>0
  <2>4. QED
    BY <1>0, <2>2, <2>3 DEF Holding, HandOK, Hand
<1>3. CASE Take
  BY <1>0, <1>3 DEF Take, HandOK, Hand
<1>4. CASE Submit \/ LogSuccess
  BY <1>0, <1>4 DEF Submit, LogSuccess, HandOK, Hand
<1>5. CASE hand' = Nothing
  BY <1>5 DEF Nothing, HandOK, Hand
<1>6. CASE UNCHANGED hand
  BY <1>0, <1>6 DEF HandOK
<1>7. Updates => Take \/ hand' = Nothing \/ UNCHANGED hand
  BY DEF Updates, StoreSubmitted, NotSubmitted, Interrupted, LetGo, Reconcile
<1>8. Deletes \/ Creates \/ Uploads \/ Weeks \/ UNCHANGED vars => UNCHANGED hand
  BY Zenon DEF Deletes, Creates, Uploads, Weeks, vars, ClearJobRelatedData, ClearJobs, ImportRow,
     DiscoverPlaywright, Scan, AddJob, RecordSync, WeekPasses
<1>9. Others => Lists \/ Submit \/ LogSuccess \/ hand' = Nothing \/ UNCHANGED hand
  BY OthersKeep DEF RunKilled, LetGo
<1>10. QED
  BY <1>1, <1>2, <1>3, <1>4, <1>5, <1>6, <1>7, <1>8, <1>9, Moves

LEMMA BoundsStep ==
  ASSUME TypeOK, [Next]_vars
  PROVE  BoundsOK'
<1>0. BoundsOK
  BY TypeParts
<1>1. UNCHANGED started \/ started' = started + 1
  BY Zenon DEF Next, Step, Run, DiscoverStep, DiscoverPlaywright, Scan, AddJob, ClearJobs,
     Reconcile, WeekPasses, StoreSubmitted, RunKilled, NotSubmitted, Interrupted, LetGo, StartSync,
     SyncFailed, RecordSync, vars, Take, Submit, LogSuccess, ListPending, ListPendingAshby,
     JobsFromCheckpoint, Listed, ApplyUrl, Started, Change, StartDiscover, FetchPage, FetchFailed,
     DiscoverKilled, ClearJobRelatedData, ImportRow, ImportDone
<1>2. mirror' \in {mirror, "no", "going", "done"}
  BY Zenon DEF Next, Step, Run, DiscoverStep, DiscoverPlaywright, Scan, AddJob, ClearJobs,
     Reconcile, WeekPasses, Disturb, StoreSubmitted, RunKilled, NotSubmitted, Interrupted,
     StartSync, SyncFailed, RecordSync, vars, Take, Submit, LogSuccess, ListPending,
     ListPendingAshby, JobsFromCheckpoint, Listed, ApplyUrl, Change, StartDiscover, FetchPage,
     FetchFailed, DiscoverKilled, ClearJobRelatedData, ImportRow, ImportDone
<1>3. QED
  BY <1>0, <1>1, <1>2 DEF BoundsOK

\* Activity is touched as a whole, or is not.
Marks == UNCHANGED <<late, reported, missed>> \/ \E ids \in SUBSET Nat : Touch(ids)

LEMMA MarksWritten ==
  ASSUME TypeOK
  PROVE  /\ \A job \in Job : Create(job) => Marks
         /\ \A i \in Nat, status \in Statuses : Write(i, status) => Marks
<1>1. Len(jobs) + 1 \in Nat
  BY TypeParts, TableIs
<1>2. QED
  BY <1>1 DEF Create, Write, Marks

LEMMA ForgottenStep ==
  ASSUME TypeOK, [Next]_vars
  PROVE  forgotten' \subseteq Postings \cup {NoUrl} /\ applied' \subseteq Postings
<1>0. HistoryOK /\ HandOK /\ hand.posting \in Postings \cup {NoUrl}
  BY TypeParts DEF HandOK, Hand
<1>1. CASE Deletes
  BY <1>0, <1>1 DEF Deletes, ClearJobRelatedData, ClearJobs, DeleteAll, HistoryOK
<1>2. CASE Updates
  <2>1. /\ UNCHANGED applied
        /\ forgotten' = forgotten \cup {hand.posting} \/ forgotten' \subseteq forgotten
    BY <1>2 DEF Updates, Take, StoreSubmitted, NotSubmitted, Interrupted, LetGo, Reconcile, history
  <2>2. QED
    BY <1>0, <2>1 DEF HistoryOK
<1>3. CASE Asks
  <2>1. PICK p \in Postings : ApplyUrl(p)
    BY <1>3 DEF Asks
  <2>2. forgotten' = forgotten \cup {p} /\ UNCHANGED applied
    BY <2>1, AskedFor
  <2>3. QED
    BY <1>0, <2>2 DEF HistoryOK
<1>4. CASE Creates \/ Uploads \/ Weeks \/ UNCHANGED vars
  BY <1>0, <1>4 DEF Creates, Uploads, Weeks, vars, ImportRow, DiscoverPlaywright, Scan, AddJob,
     RecordSync, WeekPasses, history, HistoryOK
<1>5. CASE Others
  <2>1. CASE Submit
    BY <1>0, <2>1 DEF Submit, HandOK, Hand, HistoryOK
  <2>2. CASE RunKilled
    BY <1>0, <2>2 DEF RunKilled, LetGo, HistoryOK
  <2>3. QED
    BY <1>0, <1>5, <2>1, <2>2, OthersKeep DEF HistoryOK
<1>6. QED
  BY <1>1, <1>2, <1>3, <1>4, <1>5, Moves

LEMMA HistoryStep ==
  ASSUME TypeOK, [Next]_vars
  PROVE  HistoryOK'
<1>0. TableOK /\ DiscoverOK /\ HandOK /\ HistoryOK /\ hand.id \in Nat /\ Ids \subseteq Nat
  BY TypeParts, TableIs DEF HandOK, Hand
<1>a. forgotten' \subseteq Postings \cup {NoUrl} /\ applied' \subseteq Postings
  BY ForgottenStep
<1>1. CASE Deletes
  <2>1. DeleteAll /\ UNCHANGED <<upload, sync>> /\ synced' \in {synced, FALSE}
    BY <1>1 DEF Deletes, ClearJobRelatedData, ClearJobs, syncing
  <2>2. QED
    BY <1>0, <1>a, <2>1 DEF DeleteAll, HistoryOK
<1>2. CASE Marks /\ UNCHANGED <<synced, upload, sync, reused>>
  BY <1>0, <1>a, <1>2 DEF Marks, Touch, HistoryOK
<1>3. CASE Creates
  <2>1. UNCHANGED <<synced, upload, sync, reused>>
    BY <1>3 DEF Creates, ImportRow, DiscoverPlaywright, Scan, AddJob, syncing, history
  <2>2. CASE ImportRow
    BY <1>0, <1>2, <2>1, <2>2, Imported, MarksWritten DEF Marks
  <2>3. CASE \E p \in Postings : DiscoverPlaywright(p) \/ Scan(p)
    BY <1>2, <2>1, <2>3, Added, MarksWritten DEF DiscoverPlaywright, Scan
  <2>4. QED
    BY <1>3, <2>2, <2>3 DEF Creates
<1>4. CASE Updates
  BY <1>2, <1>4, UpdatesWrite, MarksWritten
<1>5. CASE Asks
  <2>1. PICK p \in Postings : ApplyUrl(p)
    BY <1>5 DEF Asks
  <2>2. "pending" \in Statuses
    BY DEF Statuses
  <2>3. Marks /\ UNCHANGED <<synced, upload, sync, reused>>
    BY <2>1, <2>2, AskedFor, MarksWritten
  <2>4. QED
    BY <1>2, <2>3
<1>6. CASE Uploads
  <2>1. PICK uploaded \in {sync, {}} : RecordSync(uploaded)
    BY <1>6 DEF Uploads
  <2>2. sync' = {} /\ late' = {} /\ synced' = TRUE /\ upload' = FALSE /\ UNCHANGED reused
    BY <2>1 DEF RecordSync, SyncEnds, history
  <2>3. reported' \subseteq Nat /\ missed' \subseteq Nat
    BY <1>0, <2>1 DEF RecordSync, HistoryOK
  <2>4. QED
    BY <1>0, <1>a, <2>2, <2>3 DEF HistoryOK
<1>7. CASE Weeks
  BY <1>0, <1>a, <1>7 DEF Weeks, WeekPasses, syncing, history, HistoryOK
<1>8. CASE Others
  <2>1. CASE StartSync
    BY <1>0, <1>a, <2>1 DEF StartSync, HistoryOK, history, RecentActivity, TableOK
  <2>2. CASE SyncFailed
    BY <1>0, <1>a, <2>2 DEF SyncFailed, SyncEnds, HistoryOK, history
  <2>3. CASE UNCHANGED activity
    BY <1>0, <1>a, <1>8, <2>3, OthersKeep DEF HistoryOK, activity
  <2>4. QED
    BY <1>8, <2>1, <2>2, <2>3, OthersKeep
<1>9. CASE UNCHANGED vars
  BY <1>0, <1>9 DEF vars, activity, history, HistoryOK
<1>10. QED
  BY <1>1, <1>3, <1>4, <1>5, <1>6, <1>7, <1>8, <1>9, Moves

LEMMA TypeStep == TypeOK /\ [Next]_vars => TypeOK'
<1> SUFFICES ASSUME TypeOK, [Next]_vars PROVE TypeOK'
  OBVIOUS
<1>1. TableOK' /\ DiscoverOK' /\ HandOK' /\ HistoryOK' /\ BoundsOK'
  BY TableStep, DiscoverStepOK, HandStep, HistoryStep, BoundsStep
<1>2. QED
  BY <1>1 DEF TypeOK, TableOK, Unique, DiscoverOK, HandOK, HistoryOK, BoundsOK

\* The table, the discovery, the job a run holds and the ids of an upload are
\* always what their names say; above all, no two rows are of one posting
\* (storage/repositories.py, the UNIQUE job URL), whoever imports beside whom.
THEOREM TypeCorrect == Spec => []TypeOK
BY TypeInit, TypeStep, PTL DEF Spec

-----------------------------------------------------------------------------
(* A submitted row is justified                                            *)

Justified ==
  /\ SubmittedIsJustified
  /\ hand.at # "none" => hand.id \in reused \/ Matches
  /\ hand.at \in {"sent", "logged"} => hand.posting \in applied
  /\ \A i \in logs : i \in reused \/ (i \in Ids /\ jobs[i].posting \in applied)

\* A new row, or none; the run's own is still the one its id names.
LEMMA JustifiedCreate ==
  ASSUME TypeOK, Justified, UNCHANGED <<logs, applied, reused>>,
         \/ UNCHANGED <<jobs, hand>>
         \/ \E job \in Job : /\ job.posting \notin Urls /\ Create(job)
                             /\ (job.status = "submitted" => job.already)
                             /\ \/ UNCHANGED hand
                                \/ hand' = Holding(Len(jobs) + 1, job.posting)
  PROVE  Justified'
<1>0. TableOK
  BY TypeParts
<1>1. CASE UNCHANGED <<jobs, hand>>
  BY <1>1 DEF Justified, SubmittedIsJustified, Matches, Ids
<1>2. ASSUME NEW job \in Job, job.posting \notin Urls, Create(job),
             job.status = "submitted" => job.already,
             UNCHANGED hand \/ hand' = Holding(Len(jobs) + 1, job.posting)
      PROVE  Justified'
  <2>1. /\ Ids' = Ids \cup {Len(jobs) + 1} /\ jobs'[Len(jobs) + 1] = job
        /\ \A i \in Ids : jobs'[i] = jobs[i]
    BY <1>0, <1>2, Created
  <2>2. SubmittedIsJustified'
    BY <1>2, <2>1 DEF Justified, SubmittedIsJustified
  <2>3. \A i \in logs' : i \in reused' \/ (i \in Ids' /\ jobs'[i].posting \in applied')
    BY <2>1 DEF Justified
  <2>4. CASE UNCHANGED hand
    BY <2>1, <2>2, <2>3, <2>4 DEF Justified, Matches
  <2>5. CASE hand' = Holding(Len(jobs) + 1, job.posting)
    <3>1. hand'.at = "listed" /\ hand'.id = Len(jobs) + 1 /\ hand'.posting = job.posting
      BY <2>5 DEF Holding
    <3>2. Matches'
      BY <2>1, <3>1 DEF Matches
    <3>3. QED
      BY <2>2, <2>3, <3>1, <3>2 DEF Justified
  <2>6. QED
    BY <1>2, <2>4, <2>5
<1>3. QED
  BY <1>1, <1>2

\* A write to one row, that says submitted only where there is a cause.
LEMMA JustifiedWrite ==
  ASSUME TypeOK, Justified, UNCHANGED <<logs, applied, reused>>,
         NEW i \in Nat, NEW status \in Statuses, Write(i, status),
         status = "submitted" => (i = hand.id /\ hand.at = "logged") \/ i \in logs
  PROVE  /\ SubmittedIsJustified'
         /\ \A k \in logs' : k \in reused' \/ (k \in Ids' /\ jobs'[k].posting \in applied')
         /\ Ids' = Ids /\ \A k \in Ids : jobs'[k].posting = jobs[k].posting
<1>0. TableOK
  BY TypeParts
<1>1. Ids' = Ids /\ (i \in Ids => jobs'[i].status = status)
      /\ \A k \in Ids : /\ k # i => jobs'[k] = jobs[k]
                        /\ jobs'[k].posting = jobs[k].posting /\ jobs'[k].already = jobs[k].already
  BY <1>0, Written
<1>2. ASSUME NEW k \in Ids', jobs'[k].status = "submitted"
      PROVE  jobs'[k].posting \in applied' \/ jobs'[k].already \/ k \in reused'
  <2>1. CASE k # i
    BY <1>1, <1>2, <2>1 DEF Justified, SubmittedIsJustified
  <2>2. CASE k = i
    <3>1. jobs[k].posting \in applied \/ k \in reused
      BY <1>1, <1>2, <2>2 DEF Justified, Matches
    <3>2. QED
      BY <1>1, <1>2, <3>1
  <2>3. QED
    BY <2>1, <2>2
<1>3. \A k \in logs' : k \in reused' \/ (k \in Ids' /\ jobs'[k].posting \in applied')
  BY <1>1 DEF Justified
<1>4. QED
  BY <1>1, <1>2, <1>3 DEF SubmittedIsJustified

LEMMA JustifiedStep == TypeOK /\ Justified /\ [Next]_vars => Justified'
<1> SUFFICES ASSUME TypeOK, Justified, [Next]_vars PROVE Justified'
  OBVIOUS
<1>0. TableOK /\ DiscoverOK /\ HandOK /\ hand.id \in Nat /\ Ids \subseteq Nat
  BY TypeParts, TableIs DEF HandOK, Hand
<1>1. CASE Deletes
  <2>1. DeleteAll /\ UNCHANGED <<hand, logs, applied>>
    BY <1>1 DEF Deletes, ClearJobRelatedData, ClearJobs
  <2>2. Ids' = {} /\ reused' = reused \cup (Ids \cap (logs \cup {hand.id}))
    BY <2>1 DEF DeleteAll, Ids
  <2>3. QED
    BY <2>1, <2>2 DEF Justified, SubmittedIsJustified, Matches
<1>2. CASE Creates
  <2>1. UNCHANGED <<hand, logs, applied, reused>>
    BY <1>2 DEF Creates, ImportRow, DiscoverPlaywright, Scan, AddJob, history
  <2>2. CASE ImportRow
    BY <1>0, <2>1, <2>2, Imported, JustifiedCreate
  <2>3. CASE \E p \in Postings : DiscoverPlaywright(p) \/ Scan(p)
    BY <2>1, <2>3, Added, JustifiedCreate DEF DiscoverPlaywright, Scan
  <2>4. QED
    BY <1>2, <2>2, <2>3 DEF Creates
<1>3. CASE Updates
  <2>1. UNCHANGED <<logs, applied, reused>>
    BY <1>3, UpdatesWrite
  <2>2. \E i \in Nat, status \in Statuses :
          /\ Write(i, status)
          /\ status = "submitted" => (i = hand.id /\ hand.at = "logged") \/ i \in logs
    <3>1. CASE Take \/ StoreSubmitted
      BY <1>0, <3>1 DEF Take, StoreSubmitted, Statuses
    <3>2. CASE \E s \in {"failed", "skipped"} : NotSubmitted(s)
      BY <1>0, <3>2 DEF NotSubmitted, Statuses
    <3>3. CASE \E i \in Ids : Reconcile(i)
      BY <1>0, <3>3 DEF Reconcile, Logged, Statuses
    <3>4. CASE Interrupted
      <4>1. 0 \notin Ids
        BY <1>0, TableIs
      <4>2. Write(hand.id, "pending") \/ Write(0, "pending")
        BY <3>4, <4>1 DEF Interrupted, Write
      <4>3. QED
        BY <1>0, <4>2 DEF Statuses
    <3>5. QED
      BY <1>3, <3>1, <3>2, <3>3, <3>4 DEF Updates
  <2>3. /\ SubmittedIsJustified'
        /\ \A k \in logs' : k \in reused' \/ (k \in Ids' /\ jobs'[k].posting \in applied')
        /\ Ids' = Ids /\ \A k \in Ids : jobs'[k].posting = jobs[k].posting
    BY <2>1, <2>2, JustifiedWrite
  <2>4. hand' = hand \/ (Take /\ hand' = [hand EXCEPT !.at = "applying"]) \/ hand' = Nothing
    BY <1>3 DEF Updates, Take, StoreSubmitted, NotSubmitted, Interrupted, LetGo, Reconcile
  <2>5. /\ hand'.at # "none" => hand.at # "none" /\ hand'.id = hand.id /\ hand'.posting = hand.posting
        /\ hand'.at \in {"sent", "logged"} => hand.at \in {"sent", "logged"}
    BY <1>0, <2>4 DEF Take, Nothing, HandOK, Hand
  <2>6. QED
    BY <2>1, <2>3, <2>5 DEF Justified, Matches
<1>4. CASE Asks
  <2>1. PICK p \in Postings : ApplyUrl(p)
    BY <1>4 DEF Asks
  <2>2. UNCHANGED <<logs, applied, reused>>
    BY <2>1, AskedFor
  <2>3. CASE \E job \in Job : /\ job.status = "pending" /\ job.posting = p
                              /\ job.posting \notin Urls /\ Create(job)
                              /\ hand' = Holding(Len(jobs) + 1, p)
    BY <2>2, <2>3, JustifiedCreate
  <2>4. CASE \E i \in Ids, k \in Nat : jobs[i].posting = p /\ Write(k, "pending") /\ hand' = Holding(i, p)
    <3>1. PICK i \in Ids, k \in Nat : jobs[i].posting = p /\ Write(k, "pending") /\ hand' = Holding(i, p)
      BY <2>4
    <3>2. "pending" \in Statuses
      BY DEF Statuses
    <3>3. /\ SubmittedIsJustified'
          /\ \A n \in logs' : n \in reused' \/ (n \in Ids' /\ jobs'[n].posting \in applied')
          /\ Ids' = Ids /\ \A n \in Ids : jobs'[n].posting = jobs[n].posting
      BY <2>2, <3>1, <3>2, JustifiedWrite
    <3>4. hand'.at = "listed" /\ hand'.id = i /\ hand'.posting = p
      BY <3>1 DEF Holding
    <3>5. QED
      BY <3>1, <3>3, <3>4 DEF Justified, Matches
  <2>5. QED
    BY <2>1, <2>3, <2>4, AskedFor
<1>5. CASE Uploads \/ Weeks \/ UNCHANGED vars
  <2>1. UNCHANGED <<jobs, hand, logs, applied, reused>>
    BY <1>5 DEF Uploads, RecordSync, Weeks, WeekPasses, vars, history
  <2>2. QED
    BY <2>1, JustifiedCreate
<1>6. CASE Others
  <2>1. UNCHANGED <<jobs, reused>>
    BY <1>6, OthersKeep
  <2>2. CASE Submit
    <3>1. /\ hand.at = "applying" /\ hand' = [hand EXCEPT !.at = "sent"]
          /\ applied' = applied \cup {hand.posting} /\ UNCHANGED logs
      BY <2>2 DEF Submit
    <3>2. hand'.id = hand.id /\ hand'.posting = hand.posting
      BY <1>0, <3>1 DEF HandOK, Hand
    <3>3. QED
      BY <2>1, <3>1, <3>2 DEF Justified, SubmittedIsJustified, Matches, Ids
  <2>3. CASE LogSuccess
    <3>1. /\ hand.at = "sent" /\ hand' = [hand EXCEPT !.at = "logged"]
          /\ logs' = logs \cup {hand.id} /\ UNCHANGED applied
      BY <2>3 DEF LogSuccess, history
    <3>2. hand'.id = hand.id /\ hand'.posting = hand.posting
      BY <1>0, <3>1 DEF HandOK, Hand
    <3>3. QED
      BY <2>1, <3>1, <3>2 DEF Justified, SubmittedIsJustified, Matches, Ids
  <2>4. CASE Lists
    <3>1. PICK i \in Ids : Listed(i)
      BY <2>4 DEF Lists, ListPending, ListPendingAshby, JobsFromCheckpoint
    <3>2. hand'.at = "listed" /\ hand'.id = i /\ hand'.posting = jobs[i].posting
          /\ UNCHANGED <<logs, applied>>
      BY <3>1 DEF Listed, Holding, history
    <3>3. QED
      BY <2>1, <3>2 DEF Justified, SubmittedIsJustified, Matches, Ids
  <2>5. CASE RunKilled
    BY <2>1, <2>5 DEF RunKilled, LetGo, Nothing, Justified, SubmittedIsJustified, Matches, Ids
  <2>6. CASE UNCHANGED <<hand, logs, applied>>
    BY <2>1, <2>6, JustifiedCreate
  <2>7. QED
    BY <1>6, <2>2, <2>3, <2>4, <2>5, <2>6, OthersKeep
<1>7. QED
  BY <1>1, <1>2, <1>3, <1>4, <1>5, <1>6, Moves

LEMMA JustifiedInit == Init => Justified
<1> SUFFICES ASSUME Init PROVE Justified
  OBVIOUS
<1>1. Ids = {} /\ hand.at = "none" /\ logs = {}
  BY EmptySeq DEF Init, Ids, Nothing
<1>2. QED
  BY <1>1 DEF Justified, SubmittedIsJustified

\* Whatever is listed again, scanned, killed, reset or reconciled, and in what
\* order, a row says submitted because its posting was applied to or the server
\* says so; only an id the emptied table gave again can be wrong.
THEOREM JustifiedAlways == Spec => []SubmittedIsJustified
<1>1. Spec => [](TypeOK /\ Justified)
  BY TypeInit, TypeStep, JustifiedInit, JustifiedStep, PTL DEF Spec
<1>2. Justified => SubmittedIsJustified
  BY DEF Justified
<1>3. QED
  BY <1>1, <1>2, PTL

-----------------------------------------------------------------------------
(* Activity is reported                                                    *)

Tell(i) == jobs[i].status \in {"submitted", "failed"}

Telling ==
  /\ ActivityIsReported
  /\ upload => \A i \in fresh : Tell(i) => i \in sync \cup late

LEMMA TellingKept ==
  ASSUME Telling, UNCHANGED <<jobs, fresh, late, reported, missed, upload, sync>>
  PROVE  Telling'
BY DEF Telling, ActivityIsReported, Tell, Ids

LEMMA TellingTouch ==
  ASSUME TypeOK, Telling, NEW n \in Nat, Touch({n}), UNCHANGED <<upload, sync>>,
         Ids' \subseteq Ids \cup {n}, \A i \in Ids : i # n => jobs'[i] = jobs[i]
  PROVE  Telling'
<1>0. fresh \subseteq Ids
  BY TypeParts DEF TableOK
<1>1. \A i \in Ids' : i # n => jobs'[i] = jobs[i] /\ i \in Ids
  OBVIOUS
<1>2. ActivityIsReported'
  BY <1>1 DEF Touch, Telling, ActivityIsReported
<1>3. upload' => \A i \in fresh' : Tell(i)' => i \in sync' \cup late'
  <2>1. SUFFICES ASSUME upload, NEW i \in fresh', Tell(i)' PROVE i \in sync' \cup late'
    OBVIOUS
  <2>2. late' = late \cup {n} /\ fresh' = fresh \cup {n}
    BY <2>1 DEF Touch
  <2>3. CASE i = n
    BY <2>2, <2>3
  <2>4. CASE i # n
    <3>1. i \in fresh /\ i \in Ids
      BY <1>0, <2>1, <2>2, <2>4
    <3>2. Tell(i)
      BY <2>1, <2>4, <3>1 DEF Tell
    <3>3. QED
      BY <2>1, <2>2, <3>1, <3>2 DEF Telling
  <2>5. QED
    BY <2>3, <2>4
<1>4. QED
  BY <1>2, <1>3 DEF Telling

LEMMA TellingCreate ==
  ASSUME TypeOK, Telling, NEW job \in Job, job.posting \notin Urls, Create(job),
         UNCHANGED <<upload, sync>>
  PROVE  Telling'
<1>1. /\ Ids' = Ids \cup {Len(jobs) + 1} /\ \A i \in Ids : jobs'[i] = jobs[i]
      /\ Touch({Len(jobs) + 1}) /\ Len(jobs) + 1 \in Nat
  BY TypeParts, Created
<1>2. QED
  BY <1>1, TellingTouch

LEMMA TellingWrite ==
  ASSUME TypeOK, Telling, NEW i \in Nat, NEW status \in Statuses, Write(i, status),
         UNCHANGED <<upload, sync>>
  PROVE  Telling'
<1>1. /\ Ids' = Ids /\ \A k \in Ids : k # i => jobs'[k] = jobs[k]
      /\ i \in Ids => Touch({i})
      /\ i \notin Ids => UNCHANGED <<jobs, fresh, late, reported, missed>>
  BY TypeParts, Written
<1>2. QED
  BY <1>1, TellingKept, TellingTouch

LEMMA TellingStep == TypeOK /\ Telling /\ [Next]_vars => Telling'
<1> SUFFICES ASSUME TypeOK, Telling, [Next]_vars PROVE Telling'
  OBVIOUS
<1>0. TableOK /\ DiscoverOK /\ HandOK
  BY TypeParts
<1>1. CASE Deletes
  <2>1. DeleteAll
    BY <1>1 DEF Deletes, ClearJobRelatedData, ClearJobs
  <2>2. Ids' = {} /\ fresh' = {}
    BY <2>1 DEF DeleteAll, Ids
  <2>3. QED
    BY <2>2 DEF Telling, ActivityIsReported
<1>2. CASE Creates
  <2>1. UNCHANGED <<upload, sync>>
    BY <1>2 DEF Creates, ImportRow, DiscoverPlaywright, Scan, AddJob, syncing
  <2>2. CASE ImportRow
    BY <1>0, <2>1, <2>2, Imported, TellingCreate, TellingKept
  <2>3. CASE \E p \in Postings : DiscoverPlaywright(p) \/ Scan(p)
    BY <2>1, <2>3, Added, TellingCreate DEF DiscoverPlaywright, Scan
  <2>4. QED
    BY <1>2, <2>2, <2>3 DEF Creates
<1>3. CASE Updates
  BY <1>3, UpdatesWrite, TellingWrite
<1>4. CASE Asks
  <2>1. PICK p \in Postings : ApplyUrl(p)
    BY <1>4 DEF Asks
  <2>2. UNCHANGED <<upload, sync>> /\ "pending" \in Statuses
    BY <2>1, AskedFor DEF Statuses
  <2>3. \/ \E job \in Job : job.posting \notin Urls /\ Create(job)
        \/ \E k \in Nat : Write(k, "pending")
    BY <2>1, AskedFor
  <2>4. QED
    BY <2>2, <2>3, TellingCreate, TellingWrite
<1>5. CASE Uploads
  <2>1. PICK uploaded \in {sync, {}} : RecordSync(uploaded)
    BY <1>5 DEF Uploads
  <2>2. /\ upload /\ ~upload' /\ fresh' = {} /\ UNCHANGED jobs
        /\ reported' = reported \cup (uploaded \ late)
        /\ missed' = missed \cup (sync \ uploaded) \cup late
    BY <2>1 DEF RecordSync, SyncEnds
  <2>3. \A i \in fresh : Tell(i) => i \in reported' \cup missed'
    BY <2>2 DEF Telling
  <2>4. \A i \in Ids : Tell(i) => i \in fresh \cup reported \cup missed
    BY DEF Telling, ActivityIsReported, Tell
  <2>5. \A i \in Ids : Tell(i) => i \in reported' \cup missed'
    BY <2>2, <2>3, <2>4
  <2>6. QED
    BY <2>2, <2>5 DEF Telling, ActivityIsReported, Tell, Ids
<1>6. CASE Weeks
  <2>1. PICK n \in Ids : fresh' = fresh \ {n} /\ missed' = missed \cup {n}
                         /\ UNCHANGED <<jobs, upload, sync, late, reported>>
    BY <1>6 DEF Weeks, WeekPasses, syncing
  <2>2. QED
    BY <2>1 DEF Telling, ActivityIsReported, Tell, Ids
<1>7. CASE Others
  <2>1. UNCHANGED <<jobs, fresh>>
    BY <1>7, OthersKeep
  <2>2. CASE StartSync
    BY <2>1, <2>2 DEF StartSync, RecentActivity, Telling, ActivityIsReported, Tell, Ids
  <2>3. CASE SyncFailed
    BY <2>1, <2>3 DEF SyncFailed, SyncEnds, Telling, ActivityIsReported, Tell, Ids
  <2>4. CASE UNCHANGED activity
    BY <2>1, <2>4, TellingKept DEF activity
  <2>5. QED
    BY <1>7, <2>2, <2>3, <2>4, OthersKeep
<1>8. CASE UNCHANGED vars
  BY <1>8, TellingKept DEF vars, activity
<1>9. QED
  BY <1>1, <1>2, <1>3, <1>4, <1>5, <1>6, <1>7, <1>8, Moves

LEMMA TellingInit == Init => Telling
<1> SUFFICES ASSUME Init PROVE Telling
  OBVIOUS
<1>1. Ids = {} /\ upload = FALSE
  BY EmptySeq DEF Init, Ids
<1>2. QED
  BY <1>1 DEF Telling, ActivityIsReported

\* A row that became submitted or failed is uploaded, or will be with the next
\* upload; or its upload failed, or it was written while one ran, or it was a week
\* old before the first: last_sync_at hides no other activity.
THEOREM ReportedAlways == Spec => []ActivityIsReported
<1>1. Spec => [](TypeOK /\ Telling)
  BY TypeInit, TypeStep, TellingInit, TellingStep, PTL DEF Spec
<1>2. Telling => ActivityIsReported
  BY DEF Telling
<1>3. QED
  BY <1>1, <1>2, PTL

-----------------------------------------------------------------------------
(* No second application                                                   *)

\* Everything applied to, and what the run holds, was in a table since emptied.
Forgot == applied \cup {hand.posting} \subseteq forgotten

\* The run has applied to the posting, and not yet written so.
Pledged(p) == hand.posting = p /\ hand.at \in {"sent", "logged"} /\ Matches

Recorded(p) == \E i \in Ids : jobs[i].posting = p /\ jobs[i].status = "submitted"

\* A posting applied to, and not forgotten, has a row that says so, or is in hand;
\* the run holds the row it took, unless all of that is forgotten.
Guarded ==
  /\ \A p \in applied \ forgotten : Recorded(p) \/ Pledged(p)
  /\ hand.at \in {"listed", "applying"} => hand.posting \notin applied \ forgotten
  /\ hand.at # "none" => Forgot \/ Matches

\* No row another run may take is of a posting applied to and not forgotten.
LEMMA OpenIsUnsent ==
  ASSUME TypeOK, Guarded, hand = Nothing, NEW i \in Ids, jobs[i].status # "submitted"
  PROVE  jobs[i].posting \notin applied \ forgotten
<1>1. Unique /\ hand.at = "none"
  BY TypeParts DEF TableOK, Nothing
<1>2. QED
  BY <1>1 DEF Guarded, Recorded, Pledged, Unique

\* A write of another status than submitted is to no row that records one not
\* forgotten, if it is to the run's own before the submission, or to none.
LEMMA RecordedWrite ==
  ASSUME TypeOK, NEW i \in Nat, NEW status \in Statuses, Write(i, status)
  PROVE  /\ Ids' = Ids /\ \A k \in Ids : jobs'[k].posting = jobs[k].posting
         /\ \A p : Recorded(p) /\ (status = "submitted" \/ ~(i \in Ids /\ jobs[i].posting = p))
                     => Recorded(p)'
         /\ \A p : i \in Ids /\ jobs[i].posting = p /\ status = "submitted" => Recorded(p)'
<1>1. Ids' = Ids /\ (i \in Ids => jobs'[i].status = status)
      /\ \A k \in Ids : (k # i => jobs'[k] = jobs[k]) /\ jobs'[k].posting = jobs[k].posting
  BY TypeParts, Written
<1>2. ASSUME NEW p, Recorded(p), status = "submitted" \/ ~(i \in Ids /\ jobs[i].posting = p)
      PROVE  Recorded(p)'
  <2>1. PICK k \in Ids : jobs[k].posting = p /\ jobs[k].status = "submitted"
    BY <1>2 DEF Recorded
  <2>2. jobs'[k].posting = p /\ jobs'[k].status = "submitted"
    BY <1>1, <1>2, <2>1
  <2>3. QED
    BY <1>1, <2>2 DEF Recorded
<1>3. QED
  BY <1>1, <1>2 DEF Recorded

\* What the run writes, before it has sent or as it lets go of what it has.
LEMMA GuardedTake ==
  ASSUME TypeOK, Guarded, Take
  PROVE  Guarded'
<1>0. HandOK /\ hand \in Hand /\ hand.id \in Nat /\ "in_progress" \in Statuses
  BY TypeParts DEF HandOK, Hand, Statuses
<1>1. hand.at = "listed" /\ Write(hand.id, "in_progress") /\ UNCHANGED <<applied, forgotten>>
  BY DEF Take, history
<1>2. hand'.id = hand.id /\ hand'.posting = hand.posting /\ hand'.at = "applying"
  BY <1>0 DEF Take, Hand
<1>3. /\ Ids' = Ids /\ \A k \in Ids : jobs'[k].posting = jobs[k].posting
      /\ \A p : Recorded(p) /\ ~(hand.id \in Ids /\ jobs[hand.id].posting = p) => Recorded(p)'
  BY <1>0, <1>1, RecordedWrite
<1>4. ASSUME NEW p \in applied \ forgotten PROVE Recorded(p)'
  <2>1. Recorded(p)
    BY <1>1, <1>4 DEF Guarded, Pledged
  <2>2. Matches
    BY <1>1, <1>4 DEF Guarded, Forgot
  <2>3. hand.posting # p
    BY <1>1, <1>4 DEF Guarded
  <2>4. QED
    BY <1>3, <2>1, <2>2, <2>3 DEF Matches
<1>5. Forgot' \/ Matches'
  BY <1>1, <1>2, <1>3 DEF Guarded, Forgot, Matches
<1>6. QED
  BY <1>1, <1>2, <1>4, <1>5 DEF Guarded

LEMMA GuardedLetGo ==
  ASSUME TypeOK, Guarded, LetGo,
         \/ UNCHANGED jobs
         \/ hand.at # "none" /\ \E status \in Statuses : Write(hand.id, status)
  PROVE  Guarded'
<1>0. HandOK /\ hand.id \in Nat
  BY TypeParts DEF HandOK, Hand
<1>1. /\ hand'.at = "none" /\ UNCHANGED applied /\ forgotten \subseteq forgotten'
      /\ hand.at \in {"sent", "logged"} => hand.posting \in forgotten'
  BY DEF LetGo, Nothing
<1>2. ASSUME NEW p \in applied' \ forgotten' PROVE Recorded(p)'
  <2>1. p \in applied \ forgotten /\ Recorded(p)
    BY <1>1, <1>2 DEF Guarded, Pledged
  <2>2. CASE UNCHANGED jobs
    BY <2>1, <2>2 DEF Recorded, Ids
  <2>3. ASSUME hand.at # "none", NEW status \in Statuses, Write(hand.id, status)
        PROVE  Recorded(p)'
    <3>1. Matches
      BY <2>1, <2>3 DEF Guarded, Forgot
    <3>2. hand.posting # p
      <4>1. CASE hand.at \in {"sent", "logged"}
        BY <1>1, <1>2, <4>1
      <4>2. CASE hand.at \in {"listed", "applying"}
        BY <2>1, <4>2 DEF Guarded
      <4>3. QED
        BY <2>3, <4>1, <4>2, <1>0 DEF HandOK, Hand
    <3>3. QED
      BY <1>0, <2>1, <2>3, <3>1, <3>2, RecordedWrite DEF Matches
  <2>4. QED
    BY <2>2, <2>3
<1>3. QED
  BY <1>1, <1>2 DEF Guarded

LEMMA GuardedStore ==
  ASSUME TypeOK, Guarded, StoreSubmitted
  PROVE  Guarded'
<1>0. HandOK /\ hand.id \in Nat /\ "submitted" \in Statuses
  BY TypeParts DEF HandOK, Hand, Statuses
<1>1. /\ hand.at = "logged" /\ Write(hand.id, "submitted") /\ hand'.at = "none" /\ UNCHANGED applied
      /\ forgotten' = IF Matches THEN forgotten \ {hand.posting} ELSE forgotten
  BY DEF StoreSubmitted, Nothing
<1>2. /\ \A p : Recorded(p) => Recorded(p)'
      /\ \A p : hand.id \in Ids /\ jobs[hand.id].posting = p => Recorded(p)'
  BY <1>0, <1>1, RecordedWrite
<1>3. ASSUME NEW p \in applied' \ forgotten' PROVE Recorded(p)'
  <2>1. CASE Matches /\ p = hand.posting
    BY <1>2, <2>1 DEF Matches
  <2>2. CASE ~(Matches /\ p = hand.posting)
    <3>1. p \in applied \ forgotten
      BY <1>1, <1>3, <2>2
    <3>2. Recorded(p)
      BY <2>2, <3>1 DEF Guarded, Pledged
    <3>3. QED
      BY <1>2, <3>2
  <2>3. QED
    BY <2>1, <2>2
<1>4. QED
  BY <1>1, <1>3 DEF Guarded

LEMMA GuardedReconcile ==
  ASSUME TypeOK, Guarded, NEW i \in Ids, Reconcile(i)
  PROVE  Guarded'
<1>0. i \in Nat /\ "submitted" \in Statuses
  BY TypeParts, TableIs DEF Statuses
<1>1. /\ Write(i, "submitted") /\ UNCHANGED <<hand, applied>>
      /\ forgotten' = IF hand = Nothing THEN forgotten \ {jobs[i].posting} ELSE forgotten
  BY DEF Reconcile
<1>2. /\ Ids' = Ids /\ \A k \in Ids : jobs'[k].posting = jobs[k].posting
      /\ \A p : Recorded(p) => Recorded(p)'
      /\ \A p : jobs[i].posting = p => Recorded(p)'
  BY <1>0, <1>1, RecordedWrite
<1>3. \A p : Pledged(p) => Pledged(p)'
  BY <1>1, <1>2 DEF Pledged, Matches
<1>4. \A p \in applied' \ forgotten' : Recorded(p)' \/ Pledged(p)'
  BY <1>1, <1>2, <1>3 DEF Guarded
<1>5. hand.at # "none" => UNCHANGED forgotten
  BY <1>1 DEF Nothing
<1>6. (hand.at \in {"listed", "applying"} => hand.posting \notin applied \ forgotten')
      /\ (hand.at # "none" => Forgot' \/ Matches')
  BY <1>1, <1>2, <1>5 DEF Guarded, Forgot, Matches
<1>7. QED
  BY <1>1, <1>4, <1>6 DEF Guarded

\* A new row takes nothing away.
LEMMA GuardedCreate ==
  ASSUME TypeOK, Guarded, NEW job \in Job, job.posting \notin Urls, Create(job),
         UNCHANGED <<hand, applied, forgotten>>
  PROVE  Guarded'
<1>1. Ids \subseteq Ids' /\ \A i \in Ids : jobs'[i] = jobs[i]
  BY TypeParts, Created
<1>2. \A p : (Recorded(p) => Recorded(p)') /\ (Pledged(p) => Pledged(p)')
  BY <1>1 DEF Recorded, Pledged, Matches
<1>3. Forgot \/ Matches => Forgot' \/ Matches'
  BY <1>1 DEF Forgot, Matches
<1>4. QED
  BY <1>2, <1>3 DEF Guarded

LEMMA GuardedKept ==
  ASSUME Guarded, UNCHANGED <<jobs, hand, applied, forgotten>>
  PROVE  Guarded'
BY DEF Guarded, Recorded, Pledged, Forgot, Matches, Ids

\* apply --url gives its posting up first; no other is touched.
LEMMA GuardedAsk ==
  ASSUME TypeOK, Guarded, NEW p \in Postings, ApplyUrl(p)
  PROVE  Guarded'
<1>1. hand.at = "none" /\ forgotten' = forgotten \cup {p} /\ UNCHANGED applied
  <2>1. hand = Nothing /\ forgotten' = forgotten \cup {p} /\ UNCHANGED applied
    BY DEF ApplyUrl
  <2>2. QED
    BY <2>1 DEF Nothing
<1>2. \A q \in applied' \ forgotten' : Recorded(q) /\ q # p
  BY <1>1 DEF Guarded, Pledged
<1>3. CASE \E job \in Job : /\ job.posting = p /\ job.posting \notin Urls /\ Create(job)
                            /\ hand' = Holding(Len(jobs) + 1, p)
  <2>1. /\ Ids \subseteq Ids' /\ Len(jobs) + 1 \in Ids' /\ jobs'[Len(jobs) + 1].posting = p
        /\ \A i \in Ids : jobs'[i] = jobs[i]
    BY <1>3, TypeParts, Created
  <2>2. hand'.at = "listed" /\ hand'.posting = p /\ Matches'
    BY <1>3, <2>1 DEF Holding, Matches
  <2>3. \A q : Recorded(q) => Recorded(q)'
    BY <2>1 DEF Recorded
  <2>4. QED
    BY <1>1, <1>2, <2>2, <2>3 DEF Guarded
<1>4. CASE \E i \in Ids, k \in Nat : /\ jobs[i].posting = p /\ Write(k, "pending")
                                    /\ k \in {0, i} /\ hand' = Holding(i, p)
  <2>1. PICK i \in Ids, k \in Nat : /\ jobs[i].posting = p /\ Write(k, "pending")
                                    /\ k \in {0, i} /\ hand' = Holding(i, p)
    BY <1>4
  <2>2. "pending" \in Statuses /\ 0 \notin Ids
    BY TypeParts, TableIs DEF Statuses
  <2>3. /\ Ids' = Ids /\ \A n \in Ids : jobs'[n].posting = jobs[n].posting
        /\ \A q : Recorded(q) /\ ~(k \in Ids /\ jobs[k].posting = q) => Recorded(q)'
    BY <2>1, <2>2, RecordedWrite
  <2>4. hand'.at = "listed" /\ hand'.posting = p /\ Matches'
    BY <2>1, <2>3 DEF Holding, Matches
  <2>5. \A q \in applied' \ forgotten' : Recorded(q)'
    BY <1>2, <2>1, <2>2, <2>3
  <2>6. QED
    BY <1>1, <2>4, <2>5 DEF Guarded
<1>5. QED
  BY <1>3, <1>4, AskedFor

LEMMA GuardedStep == TypeOK /\ Guarded /\ [Next]_vars => Guarded'
<1> SUFFICES ASSUME TypeOK, Guarded, [Next]_vars PROVE Guarded'
  OBVIOUS
<1>0. TableOK /\ DiscoverOK /\ HandOK /\ hand \in Hand
  BY TypeParts DEF HandOK
<1>1. CASE Deletes
  <2>1. forgotten' = forgotten \cup applied \cup {hand.posting} /\ UNCHANGED <<hand, applied>>
    BY <1>1 DEF Deletes, ClearJobRelatedData, ClearJobs, DeleteAll
  <2>2. Forgot' /\ applied' \ forgotten' = {}
    BY <2>1 DEF Forgot
  <2>3. QED
    BY <2>2 DEF Guarded
<1>2. CASE Creates
  <2>1. UNCHANGED <<hand, applied, forgotten>>
    BY <1>2 DEF Creates, ImportRow, DiscoverPlaywright, Scan, AddJob, history
  <2>2. CASE ImportRow
    BY <1>0, <2>1, <2>2, Imported, GuardedCreate, GuardedKept
  <2>3. CASE \E p \in Postings : DiscoverPlaywright(p) \/ Scan(p)
    BY <2>1, <2>3, Added, GuardedCreate DEF DiscoverPlaywright, Scan
  <2>4. QED
    BY <1>2, <2>2, <2>3 DEF Creates
<1>3. CASE Updates
  <2>1. CASE \E s \in {"failed", "skipped"} : NotSubmitted(s)
    BY <2>1, GuardedLetGo DEF NotSubmitted, Statuses
  <2>2. CASE Interrupted
    BY <2>2, GuardedLetGo DEF Interrupted, Statuses
  <2>3. QED
    BY <1>3, <2>1, <2>2, GuardedTake, GuardedStore, GuardedReconcile DEF Updates
<1>4. CASE Asks
  BY <1>4, GuardedAsk DEF Asks
<1>5. CASE Uploads \/ Weeks \/ UNCHANGED vars
  BY <1>5, GuardedKept DEF Uploads, RecordSync, Weeks, WeekPasses, vars, history
<1>6. CASE Others
  <2>1. UNCHANGED jobs
    BY <1>6, OthersKeep
  <2>2. CASE Submit
    <3>1. /\ hand.at = "applying" /\ hand' = [hand EXCEPT !.at = "sent"]
          /\ applied' = applied \cup {hand.posting} /\ UNCHANGED forgotten
      BY <2>2 DEF Submit
    <3>2. hand'.id = hand.id /\ hand'.posting = hand.posting /\ hand'.at = "sent"
      BY <1>0, <3>1 DEF Hand
    <3>3. Forgot \/ Matches
      BY <3>1 DEF Guarded
    <3>4. Forgot' \/ Matches'
      BY <2>1, <3>1, <3>2, <3>3 DEF Forgot, Matches, Ids
    <3>5. ASSUME NEW p \in applied' \ forgotten' PROVE Recorded(p)' \/ Pledged(p)'
      <4>1. CASE p = hand.posting
        BY <3>1, <3>2, <3>4, <3>5, <4>1 DEF Forgot, Pledged
      <4>2. CASE p # hand.posting
        BY <2>1, <3>1, <3>5, <4>2 DEF Guarded, Recorded, Pledged, Ids
      <4>3. QED
        BY <4>1, <4>2
    <3>6. QED
      BY <3>2, <3>4, <3>5 DEF Guarded
  <2>3. CASE LogSuccess
    <3>1. hand.at = "sent" /\ hand' = [hand EXCEPT !.at = "logged"] /\ UNCHANGED <<applied, forgotten>>
      BY <2>3 DEF LogSuccess, history
    <3>2. hand'.id = hand.id /\ hand'.posting = hand.posting /\ hand'.at = "logged"
      BY <1>0, <3>1 DEF Hand
    <3>3. QED
      BY <2>1, <3>1, <3>2 DEF Guarded, Recorded, Pledged, Forgot, Matches, Ids
  <2>4. CASE Lists
    <3>1. PICK i \in Ids : Listed(i) /\ jobs[i].status # "submitted"
      BY <2>4 DEF Lists, ListPending, ListPendingAshby, JobsFromCheckpoint, Eligible, Unsent
    <3>2. /\ hand = Nothing /\ UNCHANGED <<applied, forgotten>>
          /\ hand'.at = "listed" /\ hand'.id = i /\ hand'.posting = jobs[i].posting
      BY <3>1 DEF Listed, Holding, history
    <3>3. hand'.posting \notin applied \ forgotten
      BY <3>1, <3>2, OpenIsUnsent
    <3>4. Matches' /\ hand.at = "none"
      BY <2>1, <3>2 DEF Matches, Ids, Nothing
    <3>5. QED
      BY <2>1, <3>2, <3>3, <3>4 DEF Guarded, Recorded, Pledged, Ids
  <2>5. CASE RunKilled
    BY <2>1, <2>5, GuardedLetGo DEF RunKilled
  <2>6. CASE UNCHANGED <<hand, applied, forgotten>>
    BY <2>1, <2>6, GuardedKept
  <2>7. QED
    BY <1>6, <2>2, <2>3, <2>4, <2>5, <2>6, OthersKeep
<1>7. QED
  BY <1>1, <1>2, <1>3, <1>4, <1>5, <1>6, Moves

LEMMA GuardedInit == Init => Guarded
BY DEF Init, Guarded, Nothing

LEMMA SecondIsForgotten ==
  Guarded /\ [Next]_vars =>
    [(hand.at = "applying" /\ hand'.at = "sent" /\ hand.posting \in applied)
     => hand.posting \in forgotten]_vars
BY DEF Guarded

\* Whatever is scanned, listed, continued, asked for of Ashby's, reconciled, or
\* written by a run that outlived its row, a posting a row records as submitted is
\* applied to again only once its row is deleted, or after apply --url; a run that
\* ended otherwise than SUBMITTED after sending records nothing.
THEOREM AppliedOnce == Spec => NoSecondApplication
<1>1. Spec => [](TypeOK /\ Guarded)
  BY TypeInit, TypeStep, GuardedInit, GuardedStep, PTL DEF Spec
<1>2. QED
  BY <1>1, SecondIsForgotten, PTL DEF Spec, NoSecondApplication
-----------------------------------------------------------------------------
(* The mirror                                                              *)

LEMMA PlaceOrders ==
  ASSUME NEW s \in Seq(Listing), NEW i \in DOMAIN s, NEW j \in DOMAIN s
  PROVE  /\ Place(s, i) \in Nat /\ Place(s, j) \in Nat
         /\ Before(s, i, j) <=> Place(s, i) <= Place(s, j)
<1>1. ASSUME NEW x \in DOMAIN s, NEW y \in DOMAIN s, Before(s, x, y)
      PROVE  Place(s, x) <= Place(s, y)
  <2>1. {k \in DOMAIN s : Before(s, k, x)} \subseteq {k \in DOMAIN s : Before(s, k, y)}
    BY <1>1, BeforeIsOrder
  <2>2. QED
    BY <2>1, PlaceBounds, FS_Subset DEF Place
<1>2. Place(s, i) \in 1..Len(s) /\ Place(s, j) \in 1..Len(s) /\ Len(s) \in Nat
  BY PlaceBounds, LenProperties
<1>3. ASSUME Place(s, i) <= Place(s, j) PROVE Before(s, i, j)
  <2>1. CASE Before(s, i, j)
    BY <2>1
  <2>2. CASE Before(s, j, i)
    <3>1. Place(s, i) = Place(s, j)
      BY <1>1, <1>2, <1>3, <2>2
    <3>2. QED
      BY <2>2, <3>1, PlaceInjective
  <2>3. QED
    BY <2>1, <2>2, BeforeIsOrder
<1>4. QED
  BY <1>1, <1>2, <1>3

LEMMA NewestFirstIs ==
  ASSUME NEW s \in Seq(Listing)
  PROVE  /\ Len(NewestFirst(s)) = Len(s)
         /\ \A k \in 1..Len(s) : \E j \in DOMAIN s : Place(s, j) = k /\ NewestFirst(s)[k] = s[j]
<1>1. DOMAIN s = 1..Len(s) /\ Len(s) \in Nat
  BY BeforeIsOrder
<1> DEFINE c(k) == CHOOSE j \in DOMAIN s : Cardinality({i \in DOMAIN s : Before(s, i, j)}) = k
<1>2. NewestFirst(s) = [k \in DOMAIN s |-> s[c(k)]]
  BY DEF NewestFirst
<1>3. \A k \in DOMAIN s : c(k) \in DOMAIN s /\ Place(s, c(k)) = k
  BY PlaceOnto DEF Place
<1> HIDE DEF c
<1>4. Len(NewestFirst(s)) = Len(s)
  <2>1. NewestFirst(s) \in Seq(Listing) /\ DOMAIN NewestFirst(s) = 1..Len(s)
    BY <1>1, <1>2, NewestFirstType
  <2>2. DOMAIN NewestFirst(s) = 1..Len(NewestFirst(s)) /\ Len(NewestFirst(s)) \in Nat
    BY <2>1, LenProperties
  <2>3. QED
    BY <1>1, <2>1, <2>2
<1>5. QED
  BY <1>1, <1>2, <1>3, <1>4

\* What the discovery has to go by while nobody disturbs it: while it fetches, a
\* prefix of the list; while it imports, the table is the mirror of the first rows
\* of the sorted list, and what is left of that is still to come.
Whole == old => Len(server) <= PageSize

Fetching ==
  /\ seen = {} /\ Len(rows) <= Len(server) /\ \A k \in 1..Len(rows) : rows[k] = server[k]
  /\ total \in {-1, Len(server)} /\ (disc = "clear" => Len(rows) = Len(server))

Is(i, k) == /\ server[k].posting = jobs[i].posting /\ server[k].already = jobs[i].already
            /\ jobs[i].status = "submitted" <=> server[k].already
            /\ jobs[i].status = "pending" => server[k].posting \in Friendly

InOrder(i, k) == \A j \in Ids, q \in Newest :
                   (i < j /\ server[q].posting = jobs[j].posting) => Before(server, k, q)

Mirrors(n) ==
  /\ \A p : p \in Urls <=> \E k \in Newest : Place(server, k) <= n /\ server[k].allowed /\ server[k].posting = p
  /\ \A i \in Ids : \E k \in Newest : Place(server, k) <= n /\ Is(i, k) /\ InOrder(i, k)

Sorted == Len(server) - Len(rows)

Importing ==
  /\ Len(rows) <= Len(server)
  /\ \A k \in 1..Len(rows) : rows[k] = NewestFirst(server)[Sorted + k]
  /\ \A p : p \in seen <=> p # NoUrl /\ \E k \in DOMAIN server : Place(server, k) <= Sorted /\ server[k].posting = p
  /\ Mirrors(Sorted)

MirrorOK ==
  /\ mirror = "going" /\ Whole /\ disc \in {"fetch", "clear"} => Fetching
  /\ mirror = "going" /\ Whole /\ disc = "import" => Importing
  /\ mirror = "done" => disc = "idle" /\ MirrorsListing

LEMMA ListIs ==
  ASSUME DiscoverOK
  PROVE  /\ server \in Seq(Listing) /\ Len(server) \in Nat /\ DOMAIN server = 1..Len(server)
         /\ \A k \in DOMAIN server : server[k] \in Listing
         /\ rows \in Seq(Listing) /\ Len(rows) \in Nat
<1>1. server \in Seq(Listing) /\ rows \in Seq(Listing)
  BY Settings DEF DiscoverOK
<1>2. QED
  BY <1>1, LenProperties, ElementOfSeq

\* Two listings that count are of different postings.
LEMMA NewestIsOne ==
  ASSUME DiscoverOK, NEW k \in Newest, NEW q \in Newest, server[k].posting = server[q].posting
  PROVE  k = q
<1>1. k \in DOMAIN server /\ q \in DOMAIN server /\ Before(server, k, q) /\ Before(server, q, k)
  BY DEF Newest
<1>2. QED
  BY <1>1, ListIs, BeforeIsOrder

LEMMA MirrorPage ==
  ASSUME DiscoverOK, Whole, Fetching, FetchPage
  PROVE  Fetching'
<1> DEFINE d == Window(Len(rows))
           m == Len(rows) + 1
           n == Smaller(Len(rows) + PageSize, Len(server))
           all == IF total = -1 THEN TotalInWindow ELSE total
<1>0. /\ server \in Seq(Listing) /\ Len(server) \in Nat /\ DOMAIN server = 1..Len(server)
      /\ rows \in Seq(Listing) /\ Len(rows) \in Nat /\ PageSize \in Nat \ {0} /\ Len(rows) <= Len(server)
  BY ListIs, Settings DEF Fetching
<1>1. /\ rows' = rows \o d /\ total' = all /\ UNCHANGED <<server, seen>>
      /\ disc' = IF LastPage(d, Len(rows) + Len(d), all) THEN "clear" ELSE "fetch"
  BY DEF FetchPage
<1>2. /\ n \in Nat /\ Len(rows) <= n /\ n <= Len(server) /\ (n = Len(server) \/ n = Len(rows) + PageSize)
      /\ (IF m <= n THEN n - m + 1 ELSE 0) = n - Len(rows) /\ n - Len(rows) \in Nat
      /\ Len(rows) + (n - Len(rows)) = n
      /\ \A i \in 1..n - Len(rows) : i \in 1..n - m + 1 /\ m + i - 1 = Len(rows) + i
      /\ \A k \in 1..n : ~(k <= Len(rows)) =>
           k - Len(rows) \in 1..n - Len(rows) /\ Len(rows) + (k - Len(rows)) = k
  <2>1. n = Smaller(Len(rows) + PageSize, Len(server)) /\ m = Len(rows) + 1
    OBVIOUS
  <2> HIDE DEF n, m
  <2>2. PICK a, b, z : a = Len(rows) /\ b = Len(server) /\ z = PageSize
    OBVIOUS
  <2>3. a \in Nat /\ b \in Nat /\ z \in Nat \ {0} /\ a <= b /\ n = Smaller(a + z, b) /\ m = a + 1
    BY <1>0, <2>1, <2>2
  <2>4. /\ n \in Nat /\ a <= n /\ n <= b /\ (n = b \/ n = a + z)
        /\ (IF a + 1 <= n THEN n - (a + 1) + 1 ELSE 0) = n - a /\ n - a \in Nat /\ a + (n - a) = n
        /\ \A i \in 1..n - a : i \in 1..n - (a + 1) + 1 /\ a + 1 + i - 1 = a + i
        /\ \A k \in 1..n : ~(k <= a) => k - a \in 1..n - a /\ a + (k - a) = k
    <3>1. a + z \in Nat /\ n = IF a + z < b THEN a + z ELSE b
      BY <2>3 DEF Smaller
    <3>2. n \in Nat /\ a <= n /\ n <= b /\ (n = b \/ n = a + z)
      BY <2>3, <3>1
    <3>3. QED
      BY <2>3, <3>2
  <2>5. QED
    BY <2>2, <2>3, <2>4, Zenon
<1>3. /\ d \in Seq(Listing) /\ Len(d) = n - Len(rows)
      /\ \A i \in 1..n - Len(rows) : d[i] = server[Len(rows) + i]
  <2>1. \A i \in m..n : server[i] \in Listing
    BY <1>0, <1>2, ListIs
  <2>2. m \in Int /\ n \in Int
    BY <1>0, <1>2
  <2>3. /\ SubSeq(server, m, n) \in Seq(Listing)
        /\ Len(SubSeq(server, m, n)) = IF m <= n THEN n - m + 1 ELSE 0
        /\ \A i \in 1..n - m + 1 : SubSeq(server, m, n)[i] = server[m + i - 1]
    BY <2>1, <2>2, SubSeqProperties
  <2>4. d = SubSeq(server, m, n)
    BY DEF Window
  <2> HIDE DEF n, d
  <2>5. Len(d) = n - Len(rows)
    BY <1>2, <2>3, <2>4
  <2>6. QED
    BY <1>2, <2>3, <2>4, <2>5
<1> HIDE DEF n, d
<1>4. all = Len(server)
  <2>1. TotalInWindow = Len(server)
    <3>1. CASE ~old
      BY <3>1 DEF TotalInWindow
    <3>2. CASE old
      <4>1. Len(server) <= PageSize /\ Len(server) \in Nat /\ PageSize \in Nat
        BY <1>0, <3>2 DEF Whole
      <4>2. Smaller(0 + PageSize, Len(server)) = Len(server)
        BY <4>1 DEF Smaller
      <4>3. Window(0) = SubSeq(server, 1, Len(server))
        BY <4>2 DEF Window
      <4>4. \A i \in 1..Len(server) : server[i] \in Listing
        BY <1>0, ListIs
      <4>5. Len(SubSeq(server, 1, Len(server))) = Len(server)
        <5>1. 1 \in Int /\ Len(server) \in Int
          BY <1>0
        <5>2. Len(SubSeq(server, 1, Len(server))) = IF 1 <= Len(server) THEN Len(server) - 1 + 1 ELSE 0
          BY <4>4, <5>1, SubSeqProperties
        <5>3. QED
          BY <1>0, <5>2
      <4>6. QED
        BY <3>2, <4>3, <4>5 DEF TotalInWindow
    <3>3. QED
      BY <3>1, <3>2
  <2>2. QED
    BY <2>1 DEF Fetching
<1> HIDE DEF all
<1>5. /\ Len(rows') = n /\ \A k \in 1..n : rows'[k] = server[k]
  <2>1. /\ Len(rows \o d) = Len(rows) + Len(d)
        /\ \A i \in 1..Len(rows) + Len(d) :
             (rows \o d)[i] = IF i <= Len(rows) THEN rows[i] ELSE d[i - Len(rows)]
    BY <1>0, <1>3, ConcatProperties
  <2>2. Len(rows) + Len(d) = n
    BY <1>2, <1>3, Zenon
  <2>3. ASSUME NEW k \in 1..n PROVE rows'[k] = server[k]
    <3>1. k \in Nat /\ 1 <= k /\ k <= n
      BY <1>2, <2>3
    <3>2. CASE k <= Len(rows)
      <4>1. k \in 1..Len(rows)
        BY <1>0, <3>1, <3>2
      <4>2. QED
        BY <1>1, <2>1, <2>2, <2>3, <3>2, <4>1 DEF Fetching
    <3>3. CASE ~(k <= Len(rows))
      <4>1. k - Len(rows) \in 1..n - Len(rows) /\ Len(rows) + (k - Len(rows)) = k
        BY <1>2, <2>3, <3>3, Zenon
      <4>2. d[k - Len(rows)] = server[k]
        BY <1>3, <4>1
      <4>3. QED
        BY <1>1, <2>1, <2>2, <2>3, <3>3, <4>2
    <3>4. QED
      BY <3>2, <3>3
  <2>4. QED
    BY <1>1, <2>1, <2>2, <2>3
<1>6. ASSUME disc' = "clear" PROVE n = Len(server)
  <2>1. d = <<>> \/ Len(d) < PageSize \/ Len(rows) + Len(d) >= all
    BY <1>1, <1>6 DEF LastPage
  <2>2. d = <<>> => Len(d) = 0
    OBVIOUS
  <2>3. PICK a, b, z, l : a = Len(rows) /\ b = Len(server) /\ z = PageSize /\ l = Len(d)
    OBVIOUS
  <2>4. /\ l = 0 \/ l < z \/ a + l >= b
        /\ l = n - a /\ n \in Nat /\ a \in Nat /\ b \in Nat /\ z \in Nat \ {0}
        /\ a <= n /\ n <= b /\ (n = b \/ n = a + z)
    BY <1>0, <1>2, <1>3, <1>4, <2>1, <2>2, <2>3, Zenon
  <2>5. n = b
    BY <2>4
  <2>6. QED
    BY <2>3, <2>5
<1>7. QED
  BY <1>1, <1>2, <1>4, <1>5, <1>6 DEF Fetching

\* The table is emptied, and nothing of the sorted list is in it yet.
LEMMA MirrorClear ==
  ASSUME DiscoverOK, Fetching, disc = "clear", ClearJobRelatedData
  PROVE  Importing'
<1>0. /\ server \in Seq(Listing) /\ Len(server) \in Nat /\ DOMAIN server = 1..Len(server)
      /\ rows \in Seq(Listing) /\ Len(rows) = Len(server)
  BY ListIs DEF Fetching
<1>1. rows = server
  BY <1>0, SeqEqual DEF Fetching
<1>2. /\ rows' = NewestFirst(server) /\ jobs' = <<>> /\ seen' = {} /\ server' = server
  BY <1>1 DEF ClearJobRelatedData, DeleteAll, Fetching
<1>3. Len(rows') = Len(server) /\ Sorted' = 0
  BY <1>0, <1>2, NewestFirstIs DEF Sorted
<1>4. \A k \in 1..Len(rows') : rows'[k] = NewestFirst(server)[0 + k]
  BY <1>0, <1>2, <1>3
<1>5. \A k \in DOMAIN server : ~(Place(server, k) <= 0)
  <2>1. \A k \in DOMAIN server : Place(server, k) \in 1..Len(server)
    BY <1>0, PlaceBounds
  <2>2. QED
    BY <1>0, <2>1
<1>6. Ids' = {} /\ Urls' = {}
  BY <1>2, EmptySeq DEF Ids, Urls
<1>7. Newest' = Newest /\ \A k \in Newest : k \in DOMAIN server
  BY <1>2 DEF Newest
<1>8. Mirrors(0)'
  BY <1>2, <1>5, <1>6, <1>7 DEF Mirrors
<1>9. Len(rows') <= Len(server')
  BY <1>0, <1>2, <1>3
<1>10. QED
  BY <1>2, <1>3, <1>4, <1>5, <1>8, <1>9 DEF Importing, Mirrors

\* A row is imported, or passed over, as the mirror wants it.
LEMMA MirrorImport ==
  ASSUME TypeOK, disc = "import", Importing, ImportRow
  PROVE  Importing'
<1>0. TableOK /\ DiscoverOK
  BY TypeParts
<1>1. /\ server \in Seq(Listing) /\ Len(server) \in Nat /\ DOMAIN server = 1..Len(server)
      /\ rows \in Seq(Listing) /\ Len(rows) \in Nat /\ rows # <<>> /\ rows' = Tail(rows) /\ server' = server
  BY <1>0, ListIs DEF ImportRow
<1> DEFINE n == Sorted
           r == Head(rows)
<1>2. /\ Len(rows') = Len(rows) - 1 /\ Len(rows) # 0
      /\ \A i \in 1..Len(rows') : rows'[i] = rows[i + 1]
      /\ r = rows[1]
  BY <1>1, HeadTailProperties, EmptySeq
<1>3. n \in Nat /\ n + 1 \in 1..Len(server) /\ Sorted' = n + 1
  BY <1>1, <1>2 DEF Sorted, Importing
<1> HIDE DEF n
<1>4. r = NewestFirst(server)[n + 1]
  <2>1. 1 \in 1..Len(rows)
    BY <1>1, <1>2
  <2>2. QED
    BY <1>2, <2>1 DEF Importing, n
<1> HIDE DEF r
<1>5. PICK x \in DOMAIN server : Place(server, x) = n + 1 /\ r = server[x]
  BY <1>1, <1>3, <1>4, NewestFirstIs
<1>6. \A k \in 1..Len(rows') : rows'[k] = NewestFirst(server)[n + 1 + k]
  <2>1. ASSUME NEW k \in 1..Len(rows') PROVE rows'[k] = NewestFirst(server)[n + 1 + k]
    <3>1. k + 1 \in 1..Len(rows) /\ n + (k + 1) = n + 1 + k
      BY <1>1, <1>2, <1>3
    <3>2. rows[k + 1] = NewestFirst(server)[n + (k + 1)]
      BY <3>1 DEF Importing, n
    <3>3. QED
      BY <1>2, <3>1, <3>2
  <2>2. QED
    BY <2>1
<1>7. \A k \in DOMAIN server : /\ Place(server, k) \in Nat
                               /\ Place(server, k) <= n + 1 <=> Place(server, k) <= n \/ k = x
  <2>1. ASSUME NEW k \in DOMAIN server
        PROVE  Place(server, k) \in Nat /\ (Place(server, k) <= n + 1 <=> Place(server, k) <= n \/ k = x)
    <3>1. Place(server, k) \in Nat
      BY <1>1, PlaceOrders
    <3>2. Place(server, k) = n + 1 => k = x
      BY <1>1, <1>5, PlaceInjective
    <3>3. QED
      BY <1>3, <1>5, <3>1, <3>2
  <2>2. QED
    BY <2>1
<1>8. /\ \A p : p \in seen <=> p # NoUrl /\ \E k \in DOMAIN server : Place(server, k) <= n /\ server[k].posting = p
      /\ \A p : p \in Urls <=> \E k \in Newest : Place(server, k) <= n /\ server[k].allowed /\ server[k].posting = p
      /\ \A i \in Ids : \E k \in Newest : Place(server, k) <= n /\ Is(i, k) /\ InOrder(i, k)
  BY DEF Importing, Mirrors, n
<1>9. \A p : p \in seen' <=> p # NoUrl /\ \E k \in DOMAIN server : Place(server, k) <= n + 1 /\ server[k].posting = p
  <2>1. seen' = seen \cup ({r.posting} \ {NoUrl})
    BY DEF ImportRow, r
  <2>2. QED
    BY <1>5, <1>7, <1>8, <2>1
<1>10. Newest' = Newest /\ \A k \in Newest : k \in DOMAIN server /\ server[k].posting # NoUrl
  BY <1>1 DEF Newest
\* The row counts if it was not seen before.
<1>11. x \in Newest <=> r.posting # NoUrl /\ r.posting \notin seen
  <2>1. ASSUME r.posting # NoUrl, r.posting \notin seen PROVE x \in Newest
    <3>1. ASSUME NEW q \in DOMAIN server, server[q].posting = server[x].posting PROVE Before(server, x, q)
      <4>1. ~(Place(server, q) <= n) /\ Place(server, q) \in Nat
        BY <1>5, <1>7, <1>8, <2>1, <3>1
      <4>2. Place(server, x) <= Place(server, q)
        BY <1>3, <1>5, <4>1
      <4>3. QED
        BY <1>1, <4>2, PlaceOrders
    <3>2. QED
      BY <1>5, <2>1, <3>1 DEF Newest
  <2>2. ASSUME x \in Newest PROVE r.posting # NoUrl /\ r.posting \notin seen
    <3>1. \A q \in DOMAIN server : server[q].posting = r.posting => n + 1 <= Place(server, q)
      BY <1>1, <1>5, <2>2, PlaceOrders DEF Newest
    <3>2. ASSUME NEW q \in DOMAIN server, server[q].posting = r.posting PROVE ~(Place(server, q) <= n)
      BY <1>3, <1>7, <3>1, <3>2
    <3>3. QED
      BY <1>5, <1>8, <1>10, <2>2, <3>2
  <2>3. QED
    BY <2>1, <2>2
<1>12. Importable(r) <=> x \in Newest /\ r.allowed
  <2>1. r.posting \notin seen => r.posting \notin Urls
    BY <1>8, <1>10
  <2>2. QED
    BY <1>11, <2>1 DEF Importable
<1>13. CASE ~Importable(r)
  <2>1. UNCHANGED jobs
    BY <1>13 DEF ImportRow, r
  <2>2. Ids' = Ids /\ Urls' = Urls /\ \A i \in Ids, k \in Newest : Is(i, k)' = Is(i, k) /\ InOrder(i, k)' = InOrder(i, k)
    BY <1>1, <1>10, <2>1 DEF Ids, Urls, Is, InOrder
  <2>3. \A p : p \in Urls' <=> \E k \in Newest : Place(server, k) <= n + 1 /\ server[k].allowed /\ server[k].posting = p
    BY <1>5, <1>7, <1>8, <1>10, <1>12, <1>13, <2>2
  <2>4. \A i \in Ids' : \E k \in Newest : Place(server, k) <= n + 1 /\ Is(i, k)' /\ InOrder(i, k)'
    BY <1>7, <1>8, <1>10, <2>2
  <2>5. Len(rows') <= Len(server)
    BY <1>1, <1>2 DEF Importing
  <2>6. QED
    BY <1>1, <1>3, <1>6, <1>9, <1>10, <2>3, <2>4, <2>5 DEF Importing, Mirrors
<1>14. CASE Importable(r)
  <2> DEFINE job == NewJob(r.posting, ListedStatus(r), r.already)
             l == Len(jobs) + 1
  <2>1. x \in Newest /\ r.allowed /\ r.posting \notin Urls /\ r.posting \in Postings
    <3>1. r.posting \in Postings \cup {NoUrl}
      BY <1>1, <1>5, <1>0, ListIs DEF Listing
    <3>2. QED
      BY <1>12, <1>14, <3>1 DEF Importable
  <2>2. Create(job) /\ job \in Job /\ job.posting = r.posting /\ job.already = r.already
        /\ job.status = ListedStatus(r)
    <3>1. Create(job)
      BY <1>14 DEF ImportRow, r
    <3>2. r.already \in BOOLEAN /\ ListedStatus(r) \in Statuses
      BY <1>0, <1>5, ListIs DEF Listing, ListedStatus, Statuses
    <3>3. QED
      BY <2>1, <3>1, <3>2, NewJobType
  <2> HIDE DEF job
  <2>3. /\ Ids' = Ids \cup {l} /\ l \notin Ids /\ jobs'[l] = job /\ \A i \in Ids : jobs'[i] = jobs[i]
    BY <1>0, <2>1, <2>2, Created
  <2>4. /\ l \in Nat /\ \A i \in Ids : i \in Nat /\ i < l
    BY <1>0, TableIs
  <2> HIDE DEF l
  <2>5. Urls' = Urls \cup {r.posting}
    BY <2>2, <2>3 DEF Urls
  <2>6. \A p : p \in Urls' <=> \E k \in Newest : Place(server, k) <= n + 1 /\ server[k].allowed /\ server[k].posting = p
    BY <1>5, <1>7, <1>8, <1>10, <2>1, <2>5
  <2>7. ASSUME NEW i \in Ids PROVE \E k \in Newest : Place(server, k) <= n + 1 /\ Is(i, k)' /\ InOrder(i, k)'
    <3>1. PICK k \in Newest : Place(server, k) <= n /\ Is(i, k) /\ InOrder(i, k)
      BY <1>8
    <3>2. Is(i, k)'
      BY <1>1, <2>3, <3>1 DEF Is
    <3>3. ASSUME NEW j \in Ids', NEW q \in Newest, i < j, server[q].posting = jobs'[j].posting
          PROVE  Before(server, k, q)
      <4>1. CASE j \in Ids
        BY <2>3, <3>1, <3>3, <4>1 DEF InOrder
      <4>2. CASE j = l
        <5>1. server[q].posting = server[x].posting
          BY <1>5, <2>2, <2>3, <3>3, <4>2
        <5>2. q = x
          BY <1>0, <2>1, <5>1, NewestIsOne
        <5>3. k \in DOMAIN server /\ Place(server, k) \in Nat /\ Place(server, k) <= Place(server, x)
          BY <1>3, <1>5, <1>7, <1>10, <3>1
        <5>4. QED
          BY <1>1, <5>2, <5>3, PlaceOrders
      <4>3. QED
        BY <2>3, <4>1, <4>2
    <3>4. InOrder(i, k)'
      BY <1>1, <1>10, <3>3 DEF InOrder
    <3>5. QED
      BY <1>7, <1>10, <3>1, <3>2, <3>4
  <2>8. /\ Place(server, x) <= n + 1
        /\ server'[x].posting = jobs'[l].posting /\ server'[x].already = jobs'[l].already
        /\ jobs'[l].status = "submitted" <=> server'[x].already
        /\ jobs'[l].status = "pending" => server'[x].posting \in Friendly
        /\ \A j \in Ids' : ~(l < j)
    <3>1. ListedStatus(r) = "submitted" <=> r.already
      BY DEF ListedStatus
    <3>2. ListedStatus(r) = "pending" => r.posting \in Friendly
      BY DEF ListedStatus
    <3>3. /\ server'[x].posting = jobs'[l].posting /\ server'[x].already = jobs'[l].already
          /\ jobs'[l].status = "submitted" <=> server'[x].already
          /\ jobs'[l].status = "pending" => server'[x].posting \in Friendly
      BY <1>1, <1>5, <2>2, <2>3, <3>1, <3>2
    <3>4. \A j \in Ids' : ~(l < j)
      BY <2>3, <2>4
    <3>5. Place(server, x) <= n + 1
      BY <1>3, <1>5
    <3>6. QED
      BY <3>3, <3>4, <3>5
  <2>9. \A i \in Ids' : \E k \in Newest : Place(server, k) <= n + 1 /\ Is(i, k)' /\ InOrder(i, k)'
    <3>1. ASSUME NEW i \in Ids', i = l PROVE Is(i, x)' /\ InOrder(i, x)'
      BY <2>8, <3>1 DEF Is, InOrder
    <3>2. QED
      BY <2>1, <2>3, <2>7, <2>8, <3>1
  <2>10. Len(rows') <= Len(server)
    BY <1>1, <1>2 DEF Importing
  <2>11. QED
    BY <1>1, <1>3, <1>6, <1>9, <1>10, <2>6, <2>9, <2>10 DEF Importing, Mirrors
<1>15. QED
  BY <1>13, <1>14

LEMMA MirrorDone ==
  ASSUME DiscoverOK, Importing, ImportDone
  PROVE  MirrorsListing'
<1>0. /\ server \in Seq(Listing) /\ Len(server) \in Nat /\ DOMAIN server = 1..Len(server)
  BY ListIs
<1>1. rows = <<>> /\ UNCHANGED <<jobs, server>>
  BY DEF ImportDone
<1>2. Sorted = Len(server)
  BY <1>0, <1>1, EmptySeq DEF Sorted
<1>3. \A k \in Newest : k \in DOMAIN server /\ Place(server, k) <= Len(server)
  <2>1. \A k \in Newest : k \in DOMAIN server
    BY DEF Newest
  <2>2. \A k \in Newest : Place(server, k) \in 1..Len(server)
    BY <1>0, <2>1, PlaceBounds, Zenon
  <2>3. QED
    BY <1>0, <2>1, <2>2
<1>4. Urls = {server[k].posting : k \in {n \in Newest : server[n].allowed}}
  <2>1. \A p : p \in Urls <=> \E k \in Newest : server[k].allowed /\ server[k].posting = p
    BY <1>2, <1>3 DEF Importing, Mirrors
  <2>2. QED
    BY <2>1
<1>5. \A i \in Ids : \E k \in Newest : Is(i, k) /\ InOrder(i, k)
  BY DEF Importing, Mirrors
<1>6. Newest' = Newest /\ Ids' = Ids /\ Urls' = Urls
  BY <1>1 DEF Newest, Ids, Urls
<1>7. QED
  BY <1>1, <1>4, <1>5, <1>6 DEF MirrorsListing, Is, InOrder

LEMMA MirrorInit == Init => MirrorOK
BY DEF Init, MirrorOK

\* What leaves the mirror to be what it was.
Apart == UNCHANGED <<jobs, server, discovery, mirror>>

LEMMA RunMirror == Run => mirror' = "no" \/ Apart
<1>1. ASSUME NEW i \in Ids, Listed(i) PROVE Apart
  BY <1>1 DEF Listed, Apart
<1>2. ASSUME NEW p \in Postings, ApplyUrl(p) PROVE mirror' = "no"
  BY <1>2, Zenon DEF ApplyUrl, Disturb
<1>3. ASSUME Submit \/ LogSuccess PROVE Apart
  BY <1>3 DEF Submit, LogSuccess, Apart
<1>4. ASSUME RunKilled PROVE Apart
  BY <1>4 DEF RunKilled, LetGo, Apart
<1>5. ASSUME Take \/ StoreSubmitted \/ Interrupted PROVE mirror' = "no"
  BY <1>5, Zenon DEF Take, StoreSubmitted, Interrupted, Disturb
<1>6. ASSUME NEW s, NotSubmitted(s) PROVE mirror' = "no"
  BY <1>6, Zenon DEF NotSubmitted, Disturb
<1>7. QED
  BY <1>1, <1>2, <1>3, <1>4, <1>5, <1>6, Zenon DEF Run, ListPending, ListPendingAshby, JobsFromCheckpoint

LEMMA MirrorMoves ==
  [Next]_vars => \/ mirror' = "no" \/ StartDiscover \/ FetchPage \/ ClearJobRelatedData
                 \/ ImportRow \/ ImportDone \/ Apart
BY RunMirror, Zenon DEF Next, Step, DiscoverStep, Change, FetchFailed, DiscoverKilled,
   DiscoverPlaywright, Scan, AddJob, ClearJobs, Reconcile, WeekPasses, StartSync, SyncFailed,
   RecordSync, Disturb, Apart, vars

LEMMA MirrorStep == TypeOK /\ MirrorOK /\ [Next]_vars => MirrorOK'
<1> SUFFICES ASSUME TypeOK, MirrorOK, [Next]_vars PROVE MirrorOK'
  OBVIOUS
<1>0. TableOK /\ DiscoverOK /\ old' = old
  BY TypeParts DEF Next, vars
<1>1. CASE mirror' = "no"
  BY <1>1 DEF MirrorOK
<1>2. CASE StartDiscover
  <2>1. /\ rows' = <<>> /\ total' = -1 /\ seen' = {} /\ mirror' = "going" /\ disc' = "fetch"
        /\ server' = server
    BY <1>2 DEF StartDiscover
  <2>2. Len(server) \in Nat
    BY <1>0, ListIs
  <2>3. Fetching'
    BY <2>1, <2>2, EmptySeq DEF Fetching
  <2>4. QED
    BY <2>1, <2>3 DEF MirrorOK
<1>3. CASE FetchPage
  <2>1. disc = "fetch" /\ mirror' = mirror /\ Whole' = Whole /\ disc' \in {"fetch", "clear"}
    BY <1>0, <1>3 DEF FetchPage, Whole
  <2>2. QED
    BY <1>0, <1>3, <2>1, MirrorPage DEF MirrorOK
<1>4. CASE ClearJobRelatedData
  <2>1. disc = "clear" /\ mirror' = mirror /\ Whole' = Whole /\ disc' = "import"
    BY <1>0, <1>4 DEF ClearJobRelatedData, Whole
  <2>2. QED
    BY <1>0, <1>4, <2>1, MirrorClear DEF MirrorOK
<1>5. CASE ImportRow
  <2>1. disc = "import" /\ mirror' = mirror /\ Whole' = Whole /\ disc' = disc
    BY <1>0, <1>5 DEF ImportRow, Whole
  <2>2. QED
    BY <1>5, <2>1, MirrorImport DEF MirrorOK
<1>6. CASE ImportDone
  <2>1. /\ disc = "import" /\ disc' = "idle" /\ Whole' = Whole
        /\ mirror' = IF mirror = "going" THEN "done" ELSE mirror
    BY <1>0, <1>6 DEF ImportDone, Whole
  <2>2. mirror # "done"
    BY <2>1 DEF MirrorOK
  <2>3. CASE mirror = "going"
    <3>1. Whole => MirrorsListing'
      BY <1>0, <1>6, <2>1, <2>3, MirrorDone DEF MirrorOK
    <3>2. ~Whole => MirrorsListing'
      BY <2>1 DEF MirrorsListing, Whole
    <3>3. QED
      BY <2>1, <2>3, <3>1, <3>2 DEF MirrorOK
  <2>4. CASE mirror # "going"
    BY <2>1, <2>2, <2>4 DEF MirrorOK
  <2>5. QED
    BY <2>3, <2>4
<1>7. CASE Apart
  <2>1. UNCHANGED <<jobs, server, disc, rows, total, seen, mirror, old>>
    BY <1>0, <1>7 DEF Apart, discovery
  <2>2. /\ Newest' = Newest /\ Ids' = Ids /\ Urls' = Urls /\ Whole' = Whole /\ Sorted' = Sorted
    BY <2>1 DEF Newest, Ids, Urls, Whole, Sorted
  <2>3. Mirrors(Sorted)' = Mirrors(Sorted)
    BY <2>1, <2>2 DEF Mirrors, Is, InOrder
  <2>4. Fetching' = Fetching /\ Importing' = Importing /\ MirrorsListing' = MirrorsListing
    BY <2>1, <2>2, <2>3 DEF Fetching, Importing, MirrorsListing
  <2>5. QED
    BY <2>1, <2>2, <2>4 DEF MirrorOK
<1>8. QED
  BY <1>1, <1>2, <1>3, <1>4, <1>5, <1>6, <1>7, MirrorMoves

\* After a discovery nobody disturbed the table is the mirror of the list, for any
\* list and page size: none of its postings is left out between two pages, comes
\* twice, or stands in the place of a newer one.
THEOREM MirrorsAlways == Spec => []MirrorsListing
<1>1. TypeOK /\ MirrorOK => MirrorsListing
  BY DEF MirrorOK, MirrorsListing
<1>2. QED
  BY TypeInit, TypeStep, MirrorInit, MirrorStep, <1>1, PTL DEF Spec
=============================================================================
