----------------------------- MODULE Discovery -----------------------------
(***************************************************************************)
(* How the table of jobs is filled, replaced and repaired: discover        *)
(* (orchestration/wbox_discoverer.py, sync/client.py), the portal scan     *)
(* (orchestration/scanner.py), the repository (storage/repositories.py),   *)
(* db clear-jobs and db reset (cli/main.py), the reconciliation with the   *)
(* log files (analytics/backfill.py), and the upload of activity           *)
(* (sync/manager.py).  They run beside an application run, which is here   *)
(* one job at a time (ApplyBatch has the run itself).                      *)
(*                                                                         *)
(* A posting is a URL after normalize_job_url.  A row is named by its id,  *)
(* and SQLite gives ids from 1 again once the table is empty.              *)
(***************************************************************************)
EXTENDS Integers, Sequences, FiniteSets, SequencesExt

CONSTANTS
  Postings,      \* normalized URLs
  Friendly,      \* those job_url_is_cli_friendly accepts
  Ashby,         \* those list_pending_ashby takes for Ashby's
  NoUrl,         \* the URL of a listing without one
  Listings,      \* what the server may list: sequences of Listing
  PageSize,      \* JOBCLI_DISCOVER_PAGE_SIZE
  MaxStarted     \* bound: commands started, and changes of the server's list

Listing == [posting : Postings \cup {NoUrl}, allowed : BOOLEAN,
            already : BOOLEAN, listed : Nat]

ASSUME DiscoveryAssumption ==
  /\ Friendly \subseteq Postings /\ Ashby \subseteq Postings /\ NoUrl \notin Postings
  /\ Listings \subseteq Seq(Listing) /\ PageSize \in Nat \ {0}
  /\ MaxStarted \in Nat

VARIABLES
  jobs,     \* the table: the row with id i is jobs[i]
  fresh,    \* ids of the rows with updated_at > since, of _sync_activity
  logs,     \* ids whose job_<id>/application.jsonl has the success marker
  server,   \* what it lists now
  old,      \* it has no cli_window route
  disc, rows, total, seen,  \* the discovery: place, rows, total_in_window, seen
  hand,     \* the job the application run holds
  synced,   \* last_sync_at is set
  upload,   \* a sync is under way
  sync,     \* ids whose activity it uploads
  applied,  \* history: postings the engine sent, or took for sent
  reused,   \* history: ids deleted while logged, or while a run held them
  forgotten,\* history: postings whose row was deleted, or reset by apply --url, or
            \*   whose run ended otherwise than SUBMITTED after sending; or held then
  late,     \* history: ids written since the activity was read
  reported, \* history: ids whose activity was uploaded
  missed,   \* history: ids of a failed upload, or written during one, or of
            \*   rows that were a week old before the first
  mirror,   \* history: "going", "done" while discover is alone on the table
  started   \* what the bound counts

discovery == <<disc, rows, total, seen>>
history   == <<applied, reused, forgotten>>
syncing   == <<synced, upload, sync>>
activity  == <<synced, upload, sync, late, reported, missed>>
vars == <<jobs, fresh, logs, server, old, discovery, hand, activity, history,
          mirror, started>>

Statuses == {"pending", "in_progress", "submitted", "failed", "skipped"}
Job  == [posting : Postings, status : Statuses, already : BOOLEAN,
         friendly : BOOLEAN]
Hand == [at : {"none", "listed", "applying", "sent", "logged"}, id : Nat,
         posting : Postings \cup {NoUrl}]

Ids  == DOMAIN jobs
Urls == {jobs[i].posting : i \in Ids}
Nothing == [at |-> "none", id |-> 0, posting |-> NoUrl]

TypeOK ==
  /\ jobs \in Seq(Job) /\ \A i, j \in Ids : jobs[i].posting = jobs[j].posting => i = j
  /\ fresh \subseteq Ids /\ logs \subseteq Nat
  /\ server \in Listings /\ old \in BOOLEAN /\ rows \in Seq(Listing)
  /\ disc \in {"idle", "fetch", "clear", "import"} /\ total \in Int
  /\ seen \subseteq Postings
  /\ hand \in Hand /\ (hand.at # "none" => hand.posting \in Postings)
  /\ synced \in BOOLEAN /\ upload \in BOOLEAN
  /\ sync \subseteq Nat /\ late \subseteq Nat /\ reported \subseteq Nat
  /\ missed \subseteq Nat /\ applied \subseteq Postings /\ reused \subseteq Nat
  /\ forgotten \subseteq Postings \cup {NoUrl}
  /\ mirror \in {"no", "going", "done"}
  /\ started \in Nat

-----------------------------------------------------------------------------
Init ==
  /\ jobs = <<>> /\ fresh = {} /\ logs = {}
  /\ server \in Listings /\ old \in BOOLEAN
  /\ disc = "idle" /\ rows = <<>> /\ total = -1 /\ seen = {} /\ hand = Nothing
  /\ synced = FALSE /\ upload = FALSE
  /\ sync = {} /\ late = {} /\ reported = {} /\ missed = {}
  /\ applied = {} /\ reused = {} /\ forgotten = {}
  /\ mirror = "no" /\ started = 0

Started == started < MaxStarted /\ started' = started + 1

\* Somebody else than the discovery has a part in what the table holds.
Disturb == mirror' = "no"

\* A commit of rows ids: updated_at is now.
Touch(ids) == /\ fresh' = fresh \cup ids
              /\ late' = IF upload THEN late \cup ids ELSE {}
              /\ reported' = reported \ ids /\ missed' = missed \ ids

Write(i, status) ==
  IF i \in Ids THEN /\ jobs' = [jobs EXCEPT ![i].status = status]
                    /\ Touch({i})
               ELSE UNCHANGED <<jobs, fresh, late, reported, missed>>

\* JobRepository.create
NewJob(p, status, already) ==
  [posting |-> p, status |-> status, already |-> already,
   friendly |-> p \in Friendly]

Create(job) == jobs' = Append(jobs, job) /\ Touch({Len(jobs) + 1})

\* clear_job_related_data.  The log files stay.
DeleteAll ==
  /\ jobs' = <<>> /\ fresh' = {} /\ late' = {} /\ reported' = {} /\ missed' = {}
  /\ reused' = reused \cup (Ids \cap (logs \cup {hand.id}))
  /\ forgotten' = forgotten \cup applied \cup {hand.posting}

-----------------------------------------------------------------------------
(* discover                                                                *)

Change == /\ Started /\ server' \in Listings \ {server}
          /\ Disturb
          /\ UNCHANGED <<jobs, fresh, logs, discovery, hand, activity, history>>

\* With credentials, and a server that gave a token.
StartDiscover ==
  /\ Started /\ disc = "idle"
  /\ disc' = "fetch" /\ rows' = <<>> /\ total' = -1 /\ seen' = {}
  /\ mirror' = "going"
  /\ UNCHANGED <<jobs, fresh, logs, server, hand, activity, history>>

Smaller(a, b) == IF a < b THEN a ELSE b
Window(offset) == SubSeq(server, offset + 1, Smaller(offset + PageSize, Len(server)))

\* fetch_cli_window_listings; its fallback walks every page of the old route,
\* cuts the rows as asked, and gives the number left as the total.
TotalInWindow == IF old THEN Len(Window(0)) ELSE Len(server)

LastPage(data, offset, all) == data = <<>> \/ Len(data) < PageSize \/ offset >= all

FetchPage ==
  /\ disc = "fetch"
  /\ LET data == Window(Len(rows))
         all  == IF total = -1 THEN TotalInWindow ELSE total
     IN  /\ rows' = rows \o data /\ total' = all
         /\ disc' = IF LastPage(data, Len(rows) + Len(data), all)
                    THEN "clear" ELSE "fetch"
  /\ UNCHANGED <<jobs, fresh, logs, server, seen, hand, activity, history,
                 mirror, started>>

\* An error answer, no JSON, or no data: RuntimeError.
FetchFailed ==
  /\ disc = "fetch" /\ disc' = "idle" /\ rows' = <<>> /\ Disturb
  /\ UNCHANGED <<jobs, fresh, logs, server, total, seen, hand, activity,
                 history, started>>

\* Fault: as the server sent them.
AsListed(s) == s

\* The sort by created_at, newest first, is stable.
Before(s, i, j) ==
  s[i].listed > s[j].listed \/ (s[i].listed = s[j].listed /\ i <= j)

NewestFirst(s) ==
  [k \in DOMAIN s |-> s[CHOOSE j \in DOMAIN s :
                          Cardinality({i \in DOMAIN s : Before(s, i, j)}) = k]]

ClearJobRelatedData ==
  /\ disc = "clear" /\ disc' = "import"
  /\ rows' = NewestFirst(rows) /\ DeleteAll
  /\ UNCHANGED <<logs, server, total, seen, hand, syncing, applied, mirror, started>>

ListedStatus(r) == IF r.already THEN "submitted"
                   ELSE IF r.posting \in Friendly THEN "pending" ELSE "skipped"

Importable(r) == /\ r.posting # NoUrl /\ r.posting \notin seen
                 /\ r.allowed /\ r.posting \notin Urls

\* Rows without a URL, seen before, of a source that is not allowed, or of a
\* posting in the table (IntegrityError) are passed over; each of the others
\* is a commit of its own.
ImportRow ==
  /\ disc = "import" /\ rows # <<>> /\ rows' = Tail(rows)
  /\ LET r == Head(rows) IN
     /\ seen' = seen \cup ({r.posting} \ {NoUrl})
     /\ IF Importable(r)
        THEN Create(NewJob(r.posting, ListedStatus(r), r.already))
        ELSE UNCHANGED <<jobs, fresh, late, reported, missed>>
  /\ UNCHANGED <<logs, server, disc, total, hand, syncing, history, mirror, started>>

ImportDone ==
  /\ disc = "import" /\ rows = <<>> /\ disc' = "idle"
  /\ mirror' = IF mirror = "going" THEN "done" ELSE mirror
  /\ UNCHANGED <<jobs, fresh, logs, server, rows, total, seen, hand, activity,
                 history, started>>

\* The process dies.
DiscoverKilled ==
  /\ disc # "idle" /\ disc' = "idle" /\ rows' = <<>> /\ Disturb
  /\ UNCHANGED <<jobs, fresh, logs, server, total, seen, hand, activity,
                 history, started>>

-----------------------------------------------------------------------------
(* The other writers of the table                                          *)

\* get_by_url, then create; a UNIQUE violation ends the same way.
AddJob(p) ==
  /\ Started /\ p \notin Urls
  /\ Create(NewJob(p, "pending", FALSE)) /\ Disturb
  /\ UNCHANGED <<logs, server, discovery, hand, syncing, history>>

\* The scrape of the old dashboard; a job is pending whatever its URL.
DiscoverPlaywright(p) == disc = "idle" /\ AddJob(p)

\* The scan of the portals' own listings.
Scan(p) == AddJob(p)

\* db clear-jobs; or db reset: the database is gone, last_sync_at with it, and
\* the log files stay.
ClearJobs ==
  /\ Started /\ jobs # <<>> /\ DeleteAll /\ Disturb
  /\ synced' \in {synced, FALSE}
  /\ UNCHANGED <<logs, server, discovery, hand, upload, sync, applied>>

-----------------------------------------------------------------------------
(* The application run                                                     *)

Holding(i, p) == [at |-> "listed", id |-> i, posting |-> p]

\* A list a run begins with: it has the row as it was, and its id.
Listed(i) ==
  /\ Started
  /\ hand = Nothing /\ hand' = Holding(i, jobs[i].posting)
  /\ UNCHANGED <<jobs, fresh, logs, server, discovery, activity, history, mirror>>

Eligible(i) == /\ jobs[i].status = "pending"
               /\ jobs[i].friendly /\ ~jobs[i].already

\* apply
ListPending(i) == Eligible(i) /\ Listed(i)

\* Fault: what is submitted is listed too.
AnyAshby(i) == jobs[i].posting \in Ashby /\ ~jobs[i].already

Unsent(i) == /\ jobs[i].posting \in Ashby /\ ~jobs[i].already
             /\ jobs[i].status # "submitted"

\* apply --ats ashby: the failed and the skipped too.
ListPendingAshby(i) == Unsent(i) /\ Listed(i)

\* continue: the rows of the checkpoint's ids, which may be of a table since
\* replaced; any row, here.
JobsFromCheckpoint(i) ==
  jobs[i].status \in {"pending", "in_progress"} /\ Listed(i)

ResetToPending(i) ==
  \/ /\ jobs[i].status = "pending"
     /\ UNCHANGED <<jobs, fresh, late, reported, missed>>
  \/ jobs[i].status # "pending" /\ Write(i, "pending")

\* apply --url: a new row, or the posting's own, whatever its status is.
ApplyUrl(p) ==
  /\ Started /\ hand = Nothing /\ Disturb
  /\ \/ /\ p \notin Urls /\ Create(NewJob(p, "pending", FALSE))
        /\ hand' = Holding(Len(jobs) + 1, p)
     \/ \E i \in Ids : /\ jobs[i].posting = p /\ ResetToPending(i)
                       /\ hand' = Holding(i, p)
  /\ forgotten' = forgotten \cup {p}
  /\ UNCHANGED <<logs, server, discovery, syncing, applied, reused>>

\* update_status is an UPDATE by id: of the row that has it now, if any.
Take ==
  /\ hand.at = "listed" /\ Write(hand.id, "in_progress") /\ Disturb
  /\ hand' = [hand EXCEPT !.at = "applying"]
  /\ UNCHANGED <<logs, server, discovery, syncing, history, started>>

\* The application goes out.
Submit ==
  /\ hand.at = "applying" /\ hand' = [hand EXCEPT !.at = "sent"]
  /\ applied' = applied \cup {hand.posting}
  /\ UNCHANGED <<jobs, fresh, logs, server, discovery, activity, reused, forgotten,
                 mirror, started>>

\* The engine thinks so too, and logs it.
LogSuccess ==
  /\ hand.at = "sent" /\ hand' = [hand EXCEPT !.at = "logged"]
  /\ logs' = logs \cup {hand.id}
  /\ UNCHANGED <<jobs, fresh, server, discovery, activity, history, mirror, started>>

\* The row the run took is still the one its id names.
Matches == hand.id \in Ids /\ jobs[hand.id].posting = hand.posting

StoreSubmitted ==
  /\ hand.at = "logged" /\ Write(hand.id, "submitted") /\ Disturb
  /\ hand' = Nothing
  /\ forgotten' = IF Matches THEN forgotten \ {hand.posting} ELSE forgotten
  /\ UNCHANGED <<logs, server, discovery, syncing, applied, reused, started>>

\* The run lets go of the job, which may have been sent.
LetGo == /\ hand' = Nothing
         /\ forgotten' = IF hand.at \in {"sent", "logged"}
                         THEN forgotten \cup {hand.posting} ELSE forgotten
         /\ UNCHANGED <<logs, server, discovery, syncing, applied, reused, started>>

\* The engine saw no success, or the stop button or an error came after it; the
\* user skips the job.
NotSubmitted(status) ==
  /\ \/ hand.at \in {"applying", "sent"}
     \/ hand.at = "logged" /\ status = "failed"
  /\ Write(hand.id, status) /\ Disturb /\ LetGo

\* Ctrl+C, in _check_stop or between two jobs: reset_interrupted_job_to_pending.
Interrupted ==
  /\ hand.at \in {"listed", "applying", "sent"}
  /\ \/ /\ hand.id \in Ids /\ jobs[hand.id].status = "in_progress"
        /\ Write(hand.id, "pending")
     \/ /\ ~(hand.id \in Ids /\ jobs[hand.id].status = "in_progress")
        /\ UNCHANGED <<jobs, fresh, late, reported, missed>>
  /\ Disturb /\ LetGo

\* The row stays as it is.
RunKilled ==
  /\ hand # Nothing /\ LetGo
  /\ UNCHANGED <<jobs, fresh, late, reported, missed, mirror>>

\* Fault: every row of a job with a log, successful or not.
Tried == {i \in Ids : i \in logs \/ jobs[i].status = "failed"}

Logged == Ids \cap logs

\* reconcile_submitted_from_logs, a commit for each row.
Reconcile(i) ==
  /\ i \in Logged /\ jobs[i].status # "submitted"
  /\ Write(i, "submitted") /\ Disturb
  /\ forgotten' = IF hand = Nothing THEN forgotten \ {jobs[i].posting} ELSE forgotten
  /\ UNCHANGED <<logs, server, discovery, hand, syncing, applied, reused, started>>

-----------------------------------------------------------------------------
(* _sync_activity and record_sync                                          *)

\* Fault: failures are not activity.
Submitted == {i \in fresh : jobs[i].status = "submitted"}

\* list_recent_activity
RecentActivity == {i \in fresh : jobs[i].status \in {"submitted", "failed"}}

\* Until the first upload is recorded it looks back seven days.  (The age of
\* other rows makes no difference.)
WeekPasses(i) ==
  /\ ~synced /\ i \in RecentActivity
  /\ fresh' = fresh \ {i} /\ missed' = missed \cup {i}
  /\ UNCHANGED <<jobs, logs, server, discovery, hand, syncing, late, reported,
                 history, mirror, started>>

\* An upload of nothing is skipped, and recorded like any other.
StartSync ==
  /\ Started /\ ~upload /\ upload' = TRUE
  /\ sync' = RecentActivity /\ late' = {}
  /\ UNCHANGED <<jobs, fresh, logs, server, discovery, hand, synced, reported, missed,
                 history, mirror>>

SyncEnds == upload /\ upload' = FALSE /\ sync' = {} /\ late' = {}

\* An upload that fails, or answers with an error, is logged, and last_sync_at
\* set to now all the same.  Rows changed after the list was read are behind it.
RecordSync(uploaded) ==
  /\ SyncEnds /\ synced' = TRUE /\ fresh' = {}
  /\ reported' = reported \cup (uploaded \ late)
  /\ missed' = missed \cup (sync \ uploaded) \cup late
  /\ UNCHANGED <<jobs, logs, server, discovery, hand, history, mirror, started>>

\* The download that follows the upload fails: last_sync_at stays.
SyncFailed ==
  /\ SyncEnds
  /\ UNCHANGED <<jobs, fresh, logs, server, discovery, hand, synced, reported, missed,
                 history, mirror, started>>

-----------------------------------------------------------------------------
DiscoverStep == FetchPage \/ ClearJobRelatedData \/ ImportRow \/ ImportDone

Run ==
  \/ \E i \in Ids : ListPending(i) \/ ListPendingAshby(i) \/ JobsFromCheckpoint(i)
  \/ \E p \in Postings : ApplyUrl(p)
  \/ Take \/ Submit \/ LogSuccess \/ StoreSubmitted \/ Interrupted \/ RunKilled
  \/ \E s \in {"failed", "skipped"} : NotSubmitted(s)

Step ==
  \/ Change \/ StartDiscover \/ DiscoverStep \/ FetchFailed \/ DiscoverKilled
  \/ \E p \in Postings : DiscoverPlaywright(p) \/ Scan(p)
  \/ ClearJobs \/ Run
  \/ \E i \in Ids : Reconcile(i) \/ WeekPasses(i)
  \/ StartSync \/ SyncFailed
  \/ \E uploaded \in {sync, {}} : RecordSync(uploaded)

Next == Step /\ UNCHANGED old

Spec == Init /\ [][Next]_vars

\* The discovery goes on as long as nobody kills it.
FairSpec == Spec /\ WF_vars(DiscoverStep /\ UNCHANGED old)

-----------------------------------------------------------------------------
(* Properties                                                              *)

\* The listings that count: of each posting the newest, the first of them if
\* several are of one date.
Newest ==
  {k \in DOMAIN server :
     /\ server[k].posting # NoUrl
     /\ \A q \in DOMAIN server :
          server[q].posting = server[k].posting => Before(server, k, q)}

\* "local jobs are replaced with a mirror of the server listing set": after a
\* discovery nobody disturbed the table has the postings of the whole list whose
\* newest listing is allowed, once each and newest first, as that listing has
\* them.  An old server is mirrored only up to one page.
MirrorsListing ==
  (mirror = "done" /\ (old => Len(server) <= PageSize)) =>
    /\ Urls = {server[k].posting : k \in {n \in Newest : server[n].allowed}}
    /\ \A i \in Ids : \E k \in Newest :
         /\ server[k].posting = jobs[i].posting /\ server[k].already = jobs[i].already
         /\ jobs[i].status = "submitted" <=> server[k].already
         /\ jobs[i].status = "pending" => server[k].posting \in Friendly
         /\ \A j \in Ids, q \in Newest :
              (i < j /\ server[q].posting = jobs[j].posting) => Before(server, k, q)

\* A job is submitted because its posting was applied to, or the server says
\* so, unless its id once named another row: neither a discovery, nor a
\* reconciliation, nor a run cut short marks any other.
SubmittedIsJustified ==
  \A i \in Ids : jobs[i].status = "submitted" =>
    jobs[i].posting \in applied \/ jobs[i].already \/ i \in reused

\* What the finding is about: the same, without the exception.
SubmittedWasApplied ==
  \A i \in Ids : jobs[i].status = "submitted" =>
    jobs[i].posting \in applied \/ jobs[i].already

\* An application that a row records as submitted is the last one to its posting,
\* whether the run wrote it or a reconciliation after the run was killed, and
\* whatever is scanned, listed, continued or asked for of Ashby's: only deleting the
\* row, or apply --url, opens the posting again.
NoSecondApplication ==
  [][(hand.at = "applying" /\ hand'.at = "sent" /\ hand.posting \in applied)
     => hand.posting \in forgotten]_vars

\* A job that was submitted or failed is reported to the server, or will be by
\* the next upload, unless its upload failed, it was written during one, or a week
\* went by before the first.
ActivityIsReported ==
  \A i \in Ids : jobs[i].status \in {"submitted", "failed"} =>
    i \in fresh \cup reported \cup missed

\* The paging ends, also when the list gets shorter between two pages.
DiscoverEnds == disc # "idle" ~> disc = "idle"
=============================================================================
