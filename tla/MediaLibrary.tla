------------------------------ MODULE MediaLibrary ------------------------------
(***************************************************************************)
(* The media library and those who write it: syncs, which import all of    *)
(* AgendaScope in one transaction, and collectors, which add what they find*)
(* on a site; and captures, which freeze articles into a world snapshot.   *)
(* Statements wait for the rows other transactions have written.  An       *)
(* article is its URL, which is unique in media_articles (url_hash).       *)
(***************************************************************************)
EXTENDS Naturals, FiniteSets

CONSTANTS
  Syncs,        \* processes that refresh: the scheduled worker, a manual command
  Collectors,   \* native collections, each of one source
  Captures,     \* requests that create world snapshots
  Urls,         \* where articles are
  Src,          \* the row of the media source of AgendaScope's articles
  Natives,      \* the rows of the sources made here, which no import touches
  Site,         \* the source each collector visits
  Nobody,
  MaxRuns,      \* bound: sync runs
  MaxVisits,    \* bound: native collection runs
  MaxEdits,     \* bound: changes at AgendaScope
  MaxFaults     \* bound: failures, broken connections, processes killed

Actors  == Syncs \cup Collectors \cup Captures
Sources == {Src} \cup Natives
Rows    == Urls \cup Sources
Runs    == 1..MaxRuns

ASSUME MediaAssumption ==
  /\ Syncs \cap Collectors = {} /\ Syncs \cap Captures = {} /\ Collectors \cap Captures = {}
  /\ Nobody \notin Actors /\ Sources \cap Urls = {} /\ Site \in [Collectors -> Sources]
  /\ MaxRuns \in Nat /\ MaxVisits \in Nat /\ MaxEdits \in Nat /\ MaxFaults \in Nat

(* A row of media_articles: its primary key, its content, source_present,  *)
(* source_last_observed_at and source_absent_at (0 is NULL), source_id.  A *)
(* collector gives its articles keys AgendaScope does not have.            *)
Native  == 1
Entry   == [id : Nat, rev : Nat]
Gone    == [id |-> 0, rev |-> 0]
Nothing == [u \in Urls |-> Gone]
Article == [id : Nat, rev : Nat, present : BOOLEAN, seen : Nat, absent : Nat,
            source : Sources]
NoRow   == [id |-> 0, rev |-> 0, present |-> FALSE, seen |-> 0, absent |-> 0,
            source |-> Src]

VARIABLES
  agenda,       \* the articles of AgendaScope
  edits,        \* how often they have changed
  clock,        \* the last timestamp taken
  visits,       \* how often a source has been collected
  faults,       \* how often something has failed of itself
  shelf,        \* media_articles as committed
  draft,        \* its rows as open transactions have written them
  owner,        \* who has locked which row
  sharing,      \* who has a key-share lock of the row of its source
  holder,       \* who has the import advisory lock
  runs,         \* media_sync_runs.status, by number in order of started_at
  observed,     \* media_sync_runs.source_observed_at
  born,         \* the number of runs that have been given an id
  content,      \* what the latest successful run has read
  at,           \* where each actor is
  run,          \* the run of a sync
  task          \* what each actor is at

(* The task of an actor: what a sync reads at AgendaScope, or a capture is *)
(* to freeze; source_observed_at of a sync, collected_at of a collector;   *)
(* the articles yet to process; those a collector has found to be there.   *)
Task   == [snap : [Urls -> Entry], stamp : Nat, todo : SUBSET Urls, known : SUBSET Urls]
NoTask == [snap |-> Nothing, stamp |-> 0, todo |-> {}, known |-> {}]

world  == <<agenda, edits, clock, visits>>
table  == <<shelf, draft, owner, sharing>>
ledger == <<runs, observed, born, content>>
vars   == <<world, faults, table, holder, ledger, at, run, task>>

-------------------------------------------------------------------------------
Goes(a, there) == at' = [at EXCEPT ![a] = there]
Visible(a, u)  == IF owner[u] = a THEN draft[u] ELSE shelf[u]
Free(a, r)     == owner[r] \in {Nobody, a}
Todo(a, u)     == u \in task[a].todo /\ Free(a, u)

(* What a is at: from the start, and going on.                             *)
Plan(a, entries, time, urls) ==
  task' = [task EXCEPT ![a] = [snap |-> entries, stamp |-> time, todo |-> urls, known |-> {}]]

Proceed(a, urls, there) ==
  task' = [task EXCEPT ![a] =
    [snap |-> task[a].snap, stamp |-> task[a].stamp, todo |-> urls, known |-> there]]

(* a writes row u, which is one thing less to do.                          *)
Write(a, u, row) ==
  /\ owner' = [owner EXCEPT ![u] = a]
  /\ draft' = [draft EXCEPT ![u] = row]
  /\ Proceed(a, task[a].todo \ {u}, task[a].known)

(* Faulty variant: the source row stays locked.                            *)
FreedArticles(a) ==
  [r \in Rows |-> IF owner[r] = a /\ r \notin Sources THEN Nobody ELSE owner[r]]

Freed(a) == [r \in Rows |-> IF owner[r] = a THEN Nobody ELSE owner[r]]

(* The transaction of a ends.                                              *)
Close(a) ==
  /\ owner' = Freed(a)
  /\ draft' = [u \in Urls |-> IF owner[u] = a THEN NoRow ELSE draft[u]]
  /\ sharing' = sharing \ {a}
  /\ task' = [task EXCEPT ![a] = NoTask]

RollBack(a) == Close(a) /\ UNCHANGED shelf
Commit(a)   == Close(a) /\ shelf' = [u \in Urls |-> Visible(a, u)]

(* A session lock ends with its connection at the latest.                  *)
LetGo(a) == holder' = IF holder = a THEN Nobody ELSE holder

(* Whom a waits for at article u, at source r, and for its next statement. *)
(* The insert of an article checks its foreign key, which needs a key-share*)
(* lock of the source row.                                                 *)
Owners(a, r) == {owner[r]} \ {Nobody, a}
Sharers(r)   == {c \in sharing : Site[c] = r}

BlockersAt(a, u) ==
  Owners(a, u) \cup (IF a \in Collectors /\ u \notin task[a].known
                       THEN Owners(a, Site[a]) \cap Captures ELSE {})
BlockersAtSource(k, r) == Owners(k, r) \cup Sharers(r)

(* The sources of the articles capture k is to freeze that it has not      *)
(* locked.                                                                 *)
Lacks(k) ==
  {r \in Sources : /\ owner[r] # k
                   /\ \E u \in Urls : task[k].snap[u] # Gone /\ shelf[u].source = r}

Waits(a) ==
  CASE at[a] = "waiting" -> {holder} \ {Nobody}
    [] at[a] \in {"upserting", "reconciling", "storing", "locking"} /\ task[a].todo # {} ->
         {b \in UNION {BlockersAt(a, u) : u \in task[a].todo} :
            \A u \in task[a].todo : BlockersAt(a, u) # {}}
    [] at[a] = "snapped" -> Owners(a, Src)
    [] at[a] = "storing" /\ task[a].todo = {} -> Owners(a, Site[a])
    [] at[a] = "locking" /\ task[a].todo = {} ->
         {b \in UNION {BlockersAtSource(a, r) : r \in Lacks(a)} :
            \A r \in Lacks(a) : BlockersAtSource(a, r) # {}}
    [] OTHER -> {}

-------------------------------------------------------------------------------
(* AgendaScope publishes, corrects or withdraws an article; one published  *)
(* again has another key.                                                  *)
Edit ==
  /\ edits < MaxEdits /\ edits' = edits + 1
  /\ \E u \in Urls :
       \/ agenda' = [agenda EXCEPT ![u] =
                        [id  |-> IF agenda[u] = Gone THEN edits + 3 ELSE agenda[u].id,
                         rev |-> edits + 3]]
       \/ agenda[u] # Gone /\ agenda' = [agenda EXCEPT ![u] = Gone]
  /\ UNCHANGED <<clock, visits, table, holder, ledger, at, run, task>>

-------------------------------------------------------------------------------
(* Syncs.  The id and started_at of a run are made before anything else.   *)
Begin(s) ==
  /\ at[s] = "idle" /\ born < MaxRuns
  /\ born' = born + 1
  /\ run' = [run EXCEPT ![s] = born + 1]
  /\ Goes(s, "asking")
  /\ UNCHANGED <<world, table, holder, runs, observed, content, task>>

(* Faulty variant: the lock is had by everyone.                            *)
LockIsNoMatter == TRUE

(* pg_try_advisory_lock does not overtake those who wait for the lock.     *)
LockIsFree == holder = Nobody /\ \A k \in Captures : at[k] # "waiting"

SkipConcurrent(s) ==
  /\ at[s] = "asking" /\ ~LockIsFree
  /\ runs' = [runs EXCEPT ![run[s]] = "skipped"]
  /\ Goes(s, "idle")
  /\ UNCHANGED <<world, table, holder, observed, born, content, run, task>>

(* Faulty variant: no run is taken for stale.                              *)
NoneStale == {}

StaleRuns == {r \in Runs : runs[r] = "running"}

(* A stale run that began after this one cannot be given the start of this *)
(* one as its end (ck_media_sync_runs_time_order).                         *)
OutOfOrder(s) == \E r \in StaleRuns : r > run[s]

Open(s) ==
  /\ at[s] = "asking" /\ LockIsFree /\ ~OutOfOrder(s)
  /\ holder' = s
  /\ runs' = [r \in Runs |-> IF r = run[s] THEN "running"
                             ELSE IF r \in StaleRuns THEN "failed" ELSE runs[r]]
  /\ Goes(s, "opened")
  /\ UNCHANGED <<world, table, observed, born, content, run, task>>

OpenRefused(s) ==
  /\ at[s] = "asking" /\ LockIsFree /\ OutOfOrder(s)
  /\ holder' = s
  /\ Goes(s, "releasing")
  /\ UNCHANGED <<world, table, ledger, run, task>>

(* BEGIN at the source, REPEATABLE READ READ ONLY, and the watermarks.     *)
TakeSnapshot(s) ==
  /\ at[s] = "opened"
  /\ clock' = clock + 1
  /\ Plan(s, agenda, clock + 1, {u \in Urls : agenda[u] # Gone})
  /\ Goes(s, "snapped")
  /\ UNCHANGED <<agenda, edits, visits, table, holder, ledger, run>>

(* AgendaScope's sources come first, and only those are locked; an upsert  *)
(* locks a row even if it is unchanged.                                    *)
ImportSources(s) ==
  /\ at[s] = "snapped" /\ Free(s, Src)
  /\ owner' = [owner EXCEPT ![Src] = s]
  /\ Goes(s, "upserting")
  /\ UNCHANGED <<world, shelf, draft, sharing, holder, ledger, run, task>>

(* INSERT ... ON CONFLICT (id): another row with that URL is no conflict it*)
(* handles.                                                                *)
Twin(s, u) == shelf[u] # NoRow /\ shelf[u].id # task[s].snap[u].id

Upserted(s, u) ==
  [id |-> task[s].snap[u].id, rev |-> task[s].snap[u].rev,
   present |-> TRUE, seen |-> task[s].stamp, absent |-> 0, source |-> Src]

Upsert(s, u) ==
  /\ at[s] = "upserting" /\ Todo(s, u) /\ ~Twin(s, u)
  /\ Write(s, u, Upserted(s, u))
  /\ UNCHANGED <<world, shelf, sharing, holder, ledger, at, run>>

(* The exception ends the transaction; the failure is recorded next.       *)
Aborts(s, how) ==
  /\ RollBack(s)
  /\ Goes(s, how)
  /\ UNCHANGED <<world, holder, ledger, run>>

UpsertTwin(s, u) ==
  /\ at[s] = "upserting" /\ Todo(s, u) /\ Twin(s, u)
  /\ Aborts(s, "failing")

(* Faulty variant: what the snapshot did not have stays as it is.          *)
NothingAbsent(s) == {}

(* _reconcile_absent_articles: the snapshot did not have them.             *)
Absent(s) ==
  {u \in Urls : Visible(s, u).present /\ Visible(s, u).seen # task[s].stamp}

Reconcile(s) ==
  /\ at[s] = "upserting" /\ task[s].todo = {}
  /\ Proceed(s, Absent(s), {})
  /\ Goes(s, "reconciling")
  /\ UNCHANGED <<world, table, holder, ledger, run>>

(* Faulty variant: without ck_media_articles_source_observation_time.      *)
AnyTime(s, u) == TRUE

(* source_absent_at must not lie before source_last_observed_at.           *)
InTime(s, u) == shelf[u].seen <= task[s].stamp

Hide(s, u) ==
  /\ at[s] = "reconciling" /\ Todo(s, u) /\ InTime(s, u)
  /\ Write(s, u, [id |-> shelf[u].id, rev |-> shelf[u].rev,
                  present |-> FALSE, seen |-> shelf[u].seen, absent |-> task[s].stamp,
                  source |-> shelf[u].source])
  /\ UNCHANGED <<world, shelf, sharing, holder, ledger, at, run>>

(* A collector has seen the article since the snapshot.                    *)
HideRefused(s, u) ==
  /\ at[s] = "reconciling" /\ Todo(s, u) /\ ~InTime(s, u)
  /\ Aborts(s, "failing")

(* _complete_success in the same transaction, then the commit.             *)
Succeeds(s) ==
  /\ at[s] = "reconciling" /\ task[s].todo = {} /\ runs[run[s]] = "running"
  /\ runs' = [runs EXCEPT ![run[s]] = "succeeded"]
  /\ observed' = [observed EXCEPT ![run[s]] = task[s].stamp]
  /\ content' = task[s].snap
  /\ Commit(s)
  /\ UNCHANGED <<world, born, run>>

Publish(s) ==
  /\ Succeeds(s)
  /\ Goes(s, "releasing")
  /\ UNCHANGED holder

(* The commit is done but the connection breaks before it says so.         *)
PublishUnheard(s) ==
  /\ Succeeds(s)
  /\ Goes(s, "failing")
  /\ LetGo(s)

Importing == {"opened", "snapped", "upserting", "reconciling"}
Failures  == {"failing", "refusing", "cancelling"}

(* The import fails for a database error, an error of configuration or     *)
(* schema, or is cancelled.                                                *)
Fail(s) ==
  /\ at[s] \in Importing
  /\ \E how \in Failures : Aborts(s, how)

(* The target connection breaks, and with it the transaction and the lock. *)
Lose(s) ==
  /\ at[s] \in Importing
  /\ RollBack(s) /\ LetGo(s)
  /\ Goes(s, "failing")
  /\ UNCHANGED <<world, ledger, run>>

(* Faulty variant: the failure is written whatever has become of the run.  *)
FailsAnyway(s) == TRUE

(* _complete_failure, on a connection of its own: UPDATE ... WHERE         *)
(* status = 'running'.  If it changes nothing that is an error of its own. *)
StillRunning(s) == runs[run[s]] = "running"

RecordFailure(s) ==
  /\ at[s] \in Failures /\ StillRunning(s)
  /\ runs' = [runs EXCEPT ![run[s]] = "failed"]
  /\ Goes(s, IF at[s] = "failing" THEN "releasing" ELSE "leaving")
  /\ UNCHANGED <<world, table, holder, observed, born, content, run, task>>

(* Nothing is recorded, because the run has changed or the database cannot *)
(* be reached; the worker takes that for an error of the database.         *)
Unrecorded(s) ==
  /\ at[s] \in Failures
  /\ Goes(s, IF at[s] = "cancelling" THEN "leaving" ELSE "releasing")
  /\ UNCHANGED <<world, table, holder, ledger, run, task>>

FailureTooLate(s) == Unrecorded(s) /\ ~StillRunning(s)

(* The lock is released, or went with the connection; the worker sleeps and*)
(* begins again, or stops for good.                                        *)
Release(s) ==
  /\ at[s] \in {"releasing", "leaving"}
  /\ LetGo(s)
  /\ Goes(s, IF at[s] = "leaving" THEN "stopped" ELSE "idle")
  /\ UNCHANGED <<world, table, ledger, run, task>>

(* The process is killed, and later started by its operator.               *)
Kill(s) ==
  /\ at[s] \notin {"idle", "stopped"}
  /\ RollBack(s) /\ LetGo(s)
  /\ Goes(s, "stopped")
  /\ UNCHANGED <<world, ledger, run>>

Restart(s) ==
  /\ at[s] = "stopped"
  /\ Goes(s, "idle")
  /\ UNCHANGED <<world, table, holder, ledger, run, task>>

-------------------------------------------------------------------------------
(* Collectors.  A process visits the sources one by one; any source may be *)
(* configured for it, AgendaScope's or one made here, and                  *)
(* start_native_collection_run writes its row when its poll interval is    *)
(* over.                                                                   *)
Start(c) ==
  /\ at[c] = "idle" /\ visits < MaxVisits /\ Free(c, Site[c])
  /\ visits' = visits + 1
  /\ Goes(c, "fetching")
  /\ UNCHANGED <<agenda, edits, clock, table, holder, ledger, run, task>>

(* collect_native_source, in a thread: what it finds, and when.            *)
Fetch(c) ==
  /\ at[c] = "fetching"
  /\ clock' = clock + 1
  /\ \E batch \in SUBSET Urls : Plan(c, Nothing, clock + 1, batch)
  /\ Goes(c, "fetched")
  /\ UNCHANGED <<agenda, edits, visits, table, holder, ledger, run>>

(* The fetch fails; the failure is written to the source row and the run.  *)
FetchFails(c) ==
  /\ at[c] = "fetching" /\ Free(c, Site[c])
  /\ Goes(c, "idle")
  /\ UNCHANGED <<world, table, holder, ledger, run, task>>

(* complete_native_collection_success first reads which articles exist.    *)
Look(c) ==
  /\ at[c] = "fetched"
  /\ Proceed(c, task[c].todo, {u \in task[c].todo : shelf[u] # NoRow})
  /\ Goes(c, "storing")
  /\ UNCHANGED <<world, table, holder, ledger, run>>

(* What a collector finds is shown, with the content it has if it is known.*)
Found(c, u) ==
  [id      |-> IF u \in task[c].known THEN shelf[u].id ELSE 0,
   rev     |-> IF u \in task[c].known THEN shelf[u].rev ELSE Native,
   present |-> TRUE, seen |-> task[c].stamp, absent |-> 0,
   source  |-> IF u \in task[c].known THEN shelf[u].source ELSE Site[c]]

Store(c, u) ==
  /\ at[c] = "storing" /\ u \in task[c].todo /\ BlockersAt(c, u) = {}
  /\ u \in task[c].known \/ shelf[u] = NoRow
  /\ Write(c, u, Found(c, u))
  /\ sharing' = IF u \in task[c].known THEN sharing ELSE sharing \cup {c}
  /\ UNCHANGED <<world, shelf, holder, ledger, at, run>>

(* The process ends by an exception nothing handles, or is killed; its run *)
(* row stays as it is.                                                     *)
Dies(c) ==
  /\ RollBack(c)
  /\ Goes(c, "dead")
  /\ UNCHANGED <<world, holder, ledger, run>>

(* Somebody has committed the article since Look: IntegrityError.          *)
StoreTwin(c, u) ==
  /\ at[c] = "storing" /\ u \in task[c].todo /\ BlockersAt(c, u) = {}
  /\ u \notin task[c].known /\ shelf[u] # NoRow
  /\ Dies(c)

(* The source row and the run are written last.                            *)
Settle(c) ==
  /\ at[c] = "storing" /\ task[c].todo = {} /\ Free(c, Site[c])
  /\ Commit(c)
  /\ Goes(c, "idle")
  /\ UNCHANGED <<world, holder, ledger, run>>

KillCollector(c) ==
  /\ at[c] \in {"fetching", "fetched", "storing"}
  /\ Dies(c)

(* restart: unless-stopped                                                 *)
Revive(c) ==
  /\ at[c] = "dead"
  /\ Goes(c, "idle")
  /\ UNCHANGED <<world, table, holder, ledger, run, task>>

-------------------------------------------------------------------------------
(* Captures.  The user has read some of the articles shown, and asks for   *)
(* these revisions to be frozen; the request waits for the import lock.    *)
Ask(k) ==
  /\ at[k] = "idle"
  /\ \E U \in (SUBSET {u \in Urls : shelf[u].present}) \ {{}} :
       Plan(k, [u \in Urls |-> IF u \in U THEN [id |-> shelf[u].id, rev |-> shelf[u].rev]
                                          ELSE Gone], 0, U)
  /\ Goes(k, "waiting")
  /\ UNCHANGED <<world, table, holder, ledger, run>>

(* Faulty variant: no pg_advisory_xact_lock.                               *)
GrantAnyway == TRUE

MayGrant == holder = Nobody

Grant(k) ==
  /\ at[k] = "waiting" /\ MayGrant
  /\ holder' = k
  /\ Goes(k, "locking")
  /\ UNCHANGED <<world, table, ledger, run, task>>

(* FOR UPDATE of the articles shown.                                       *)
LockArticle(k, u) ==
  /\ at[k] = "locking" /\ Todo(k, u) /\ shelf[u].present
  /\ Write(k, u, shelf[u])
  /\ UNCHANGED <<world, shelf, sharing, holder, ledger, at, run>>

Answers(k, answer) ==
  /\ RollBack(k) /\ LetGo(k)
  /\ Goes(k, answer)
  /\ UNCHANGED <<world, ledger, run>>

(* An import has hidden the article.                                       *)
Missing(k, u) ==
  /\ at[k] = "locking" /\ Todo(k, u) /\ ~shelf[u].present
  /\ Answers(k, "refused")

(* FOR UPDATE of their sources.                                            *)
LockSource(k, r) ==
  /\ at[k] = "locking" /\ task[k].todo = {}
  /\ r \in Lacks(k) /\ Free(k, r) /\ Sharers(r) = {}
  /\ owner' = [owner EXCEPT ![r] = k]
  /\ Goes(k, IF Lacks(k) = {r} THEN "reading" ELSE "locking")
  /\ UNCHANGED <<world, shelf, draft, sharing, holder, ledger, run, task>>

(* Faulty variant: the revisions are not compared again.                   *)
AsRead(k) == TRUE

(* calculate_evidence_revision_sha256 is what it was.                      *)
Current(k) ==
  \A u \in Urls : task[k].snap[u] # Gone => shelf[u].rev = task[k].snap[u].rev

Freeze(k) ==
  /\ at[k] = "reading" /\ Current(k)
  /\ Answers(k, "frozen")

Conflict(k) ==
  /\ at[k] = "reading" /\ ~Current(k)
  /\ Answers(k, "refused")

(* The session of the request ends before its answer.                      *)
Disconnect(k) ==
  /\ at[k] \in {"waiting", "locking", "reading"}
  /\ Answers(k, "refused")

-------------------------------------------------------------------------------
(* Through others a waits for itself: no set without a has in it all that  *)
(* a, and its own members, wait for.  PostgreSQL aborts one transaction of *)
(* such a cycle.                                                           *)
Deadlocked(a) ==
  \A S \in SUBSET (Actors \ {a}) :
    Waits(a) \subseteq S => \E b \in S : ~(Waits(b) \subseteq S)

AbortSync(s)      == Deadlocked(s) /\ Aborts(s, "failing")
AbortCollector(c) == Deadlocked(c) /\ Dies(c)
AbortCapture(k)   == Deadlocked(k) /\ Answers(k, "refused")

SyncStep(s) ==
  /\ \/ SkipConcurrent(s) \/ Open(s) \/ OpenRefused(s) \/ TakeSnapshot(s)
     \/ ImportSources(s) \/ Reconcile(s) \/ Publish(s)
     \/ RecordFailure(s) \/ FailureTooLate(s) \/ Release(s) \/ AbortSync(s)
     \/ \E u \in Urls : Upsert(s, u) \/ UpsertTwin(s, u) \/ Hide(s, u) \/ HideRefused(s, u)
  /\ UNCHANGED faults

CollectorStep(c) ==
  /\ \/ Fetch(c) \/ Look(c) \/ Settle(c) \/ AbortCollector(c)
     \/ \E u \in Urls : Store(c, u) \/ StoreTwin(c, u)
  /\ UNCHANGED faults

CaptureStep(k) ==
  /\ \/ Grant(k) \/ Freeze(k) \/ Conflict(k) \/ AbortCapture(k)
     \/ \E u \in Urls : LockArticle(k, u) \/ Missing(k, u)
     \/ \E r \in Sources : LockSource(k, r)
  /\ UNCHANGED faults

(* What begins, and what AgendaScope does.                                 *)
Beginning ==
  /\ \/ Edit
     \/ \E s \in Syncs : Begin(s) \/ Restart(s)
     \/ \E c \in Collectors : Start(c) \/ Revive(c)
     \/ \E k \in Captures : Ask(k)
  /\ UNCHANGED faults

Fault ==
  /\ faults < MaxFaults /\ faults' = faults + 1
  /\ \/ \E s \in Syncs :
          PublishUnheard(s) \/ Fail(s) \/ Lose(s) \/ Unrecorded(s) \/ Kill(s)
     \/ \E c \in Collectors : FetchFails(c) \/ KillCollector(c)
     \/ \E k \in Captures : Disconnect(k)

Init ==
  /\ agenda \in [Urls -> {Gone, [id |-> 2, rev |-> 2]}]
  /\ edits = 0 /\ clock = 0 /\ visits = 0 /\ faults = 0
  /\ shelf = [u \in Urls |-> NoRow] /\ draft = [u \in Urls |-> NoRow]
  /\ owner = [r \in Rows |-> Nobody] /\ sharing = {} /\ holder = Nobody
  /\ runs = [r \in Runs |-> "none"] /\ observed = [r \in Runs |-> 0]
  /\ born = 0 /\ content = Nothing
  /\ at = [a \in Actors |-> "idle"]
  /\ run = [s \in Syncs |-> 0]
  /\ task = [a \in Actors |-> NoTask]

Next ==
  \/ \E s \in Syncs : SyncStep(s)
  \/ \E c \in Collectors : CollectorStep(c)
  \/ \E k \in Captures : CaptureStep(k)
  \/ Beginning \/ Fault

(* Processes that are neither killed nor wait for a lock go on, and        *)
(* PostgreSQL looks for deadlocks.                                         *)
Spec ==
  /\ Init /\ [][Next]_vars
  /\ \A s \in Syncs : WF_vars(SyncStep(s))
  /\ \A c \in Collectors : WF_vars(CollectorStep(c))
  /\ \A k \in Captures : WF_vars(CaptureStep(k))

-------------------------------------------------------------------------------
SyncPlaces      == {"idle", "asking", "releasing", "leaving", "stopped"}
                     \cup Importing \cup Failures
CollectorPlaces == {"idle", "fetching", "fetched", "storing", "dead"}
CapturePlaces   == {"idle", "waiting", "locking", "reading", "frozen", "refused"}
Stamped         == {"snapped", "upserting", "reconciling", "fetched", "storing"}
Statuses        == {"none", "running", "succeeded", "failed", "skipped"}

TypeOK ==
  /\ agenda \in [Urls -> Entry] /\ edits \in Nat /\ clock \in Nat /\ visits \in Nat
  /\ faults \in Nat
  /\ shelf \in [Urls -> Article] /\ draft \in [Urls -> Article]
  /\ owner \in [Rows -> Actors \cup {Nobody}] /\ sharing \subseteq Collectors
  /\ holder \in Syncs \cup Captures \cup {Nobody}
  /\ runs \in [Runs -> Statuses] /\ observed \in [Runs -> Nat]
  /\ born \in 0..MaxRuns /\ content \in [Urls -> Entry]
  /\ at \in [Actors -> SyncPlaces \cup CollectorPlaces \cup CapturePlaces]
  /\ \A s \in Syncs : at[s] \in SyncPlaces
  /\ \A c \in Collectors : at[c] \in CollectorPlaces
  /\ \A k \in Captures : at[k] \in CapturePlaces
  /\ run \in [Syncs -> 0..born]
  /\ task \in [Actors -> Task]

(* An importing sync holds the import lock, a capture does from its wait to*)
(* its answer, and rows are locked by open transactions only.              *)
Discipline ==
  /\ \A s \in Syncs : at[s] \in Importing => holder = s
  /\ \A k \in Captures : at[k] \in {"locking", "reading"} <=> holder = k
  /\ \A r \in Rows : owner[r] # Nobody =>
       at[owner[r]] \in {"upserting", "reconciling", "storing", "locking", "reading"}
  /\ \A r \in Sources : owner[r] \notin Collectors

(* Every run belongs to one sync, which has recorded nothing before it asks*)
(* for the lock.                                                           *)
Numbered ==
  /\ \A s \in Syncs : at[s] \notin {"idle", "stopped"} => run[s] # 0
  /\ \A s, t \in Syncs : s # t /\ run[s] # 0 => run[s] # run[t]
  /\ \A r \in Runs : r > born => runs[r] = "none"
  /\ \A s \in Syncs : at[s] = "asking" => runs[run[s]] = "none"

(* No two reads of an outside world have the same time.                    *)
Timed ==
  /\ \A a \in Actors : task[a].stamp <= clock
  /\ \A a, b \in Actors : a # b /\ task[a].stamp # 0 => task[a].stamp # task[b].stamp
  /\ \A a \in Actors : at[a] \in Stamped => task[a].stamp # 0
  /\ \A u \in Urls : shelf[u].seen <= clock /\ (shelf[u].present => shelf[u].seen # 0)
  /\ \A r \in Runs : observed[r] <= clock
  /\ \A a \in Actors : task[a].stamp # 0 =>
       /\ \A u \in Urls : shelf[u].seen # task[a].stamp
       /\ \A r \in Runs : observed[r] # task[a].stamp

(* What each transaction has written so far.                               *)
WrittenBySync(s, u) ==
  IF task[s].snap[u] # Gone
    THEN draft[u] = Upserted(s, u)
    ELSE /\ at[s] = "reconciling" /\ ~draft[u].present /\ draft[u].absent = task[s].stamp
         /\ draft[u].seen = shelf[u].seen /\ draft[u].seen < task[s].stamp

WrittenByCollector(c, u) ==
  /\ draft[u].present /\ draft[u].seen = task[c].stamp /\ draft[u].absent = 0
  /\ shelf[u] # NoRow => draft[u].id = shelf[u].id /\ draft[u].rev = shelf[u].rev

Written ==
  /\ \A s \in Syncs, u \in Urls : owner[u] = s => WrittenBySync(s, u)
  /\ \A c \in Collectors, u \in Urls : owner[u] = c => WrittenByCollector(c, u)

(* What each has still to write.  An article the snapshot does not have but*)
(* that is shown will be hidden or has been found by a collector since: an *)
(* import keeps collectors of AgendaScope's sources from committing, not   *)
(* those of others.                                                        *)
Imported ==
  /\ \A s \in Syncs : at[s] \in {"snapped", "upserting"} =>
       \A u \in task[s].todo : task[s].snap[u] # Gone
  /\ \A s \in Syncs : at[s] \in {"upserting", "reconciling"} => owner[Src] = s
  /\ \A s \in Syncs : at[s] \in {"snapped", "upserting", "reconciling"} =>
       \A u \in Urls : task[s].snap[u] # Gone =>
         owner[u] = s \/ (at[s] # "reconciling" /\ u \in task[s].todo)
  /\ \A s \in Syncs : at[s] = "reconciling" =>
       /\ \A u \in task[s].todo : task[s].snap[u] = Gone
       /\ \A u \in Urls : task[s].snap[u] = Gone /\ shelf[u].present =>
            \/ u \in task[s].todo \/ owner[u] = s
            \/ \A r \in Runs : observed[r] # shelf[u].seen

Selected ==
  /\ \A k \in Captures : at[k] \in {"waiting", "locking", "reading"} =>
       \A u \in Urls : task[k].snap[u] # Gone =>
         u \in task[k].todo \/ (owner[u] = k /\ shelf[u].present)
  /\ \A k \in Captures : at[k] = "reading" => task[k].todo = {}

IInv == TypeOK /\ Discipline /\ Numbered /\ Timed /\ Written /\ Imported /\ Selected

(* No run whose process is importing is taken for stale: what another run  *)
(* makes "failed" has lost its transaction.                                *)
LiveRunIsSpared == \A s \in Syncs : at[s] \in Importing => runs[run[s]] = "running"

(* At most one run is shown as running, whatever has been killed.          *)
AtMostOneRunning ==
  \A q, r \in Runs : runs[q] = "running" /\ runs[r] = "running" => q = r

(* A run that has ended keeps its outcome, even if its commit went unheard *)
(* and its process goes on to record a failure.                            *)
Ended == {"succeeded", "failed", "skipped"}
RunsEndOnce == [][\A r \in Runs : runs[r] \in Ended => runs'[r] = runs[r]]_vars

(* What AgendaScope had at the last successful run is shown as it was then,*)
(* and what it no longer had is not shown, unless a collector has found it:*)
(* no import is seen in part, and a failed one leaves no trace.            *)
ShownIsLastSnapshot ==
  \A u \in Urls :
    IF content[u] # Gone
      THEN shelf[u].present /\ shelf[u].id = content[u].id /\ shelf[u].rev = content[u].rev
      ELSE shelf[u].present => \A r \in Runs : observed[r] # shelf[u].seen

(* Only a successful run hides an article, and none that a collector has   *)
(* found since that run took its snapshot.                                 *)
HiddenBySuccess ==
  \A u \in Urls : shelf[u].absent # 0 =>
    /\ shelf[u].seen < shelf[u].absent
    /\ \E r \in Runs : runs[r] = "succeeded" /\ observed[r] = shelf[u].absent

(* A world snapshot freezes articles that are shown, in the revision its   *)
(* user has read and that is current when it commits.                      *)
FrozenIsCurrent ==
  [][\A k \in Captures : at[k] # "frozen" /\ at'[k] = "frozen" =>
       \A u \in Urls : task[k].snap[u] # Gone =>
         shelf'[u].present /\ shelf'[u].rev = task[k].snap[u].rev]_vars

(* A set of actors each of which waits for one of them.                    *)
Waiting   == {a \in Actors : Waits(a) # {}}
Circle(D) == D # {} /\ \A a \in D : Waits(a) \cap D # {}

(* An import and a capture never abort one another: in every deadlock a    *)
(* collector takes part, which has no share in the import lock.            *)
EveryDeadlockHasACollector ==
  \A D \in SUBSET Waiting : Circle(D) => D \cap Collectors # {}

(* Every sync, collection and capture that begins comes to an end: each    *)
(* actor is at rest again and again.                                       *)
Resting == {"idle", "stopped", "dead", "frozen", "refused"}
EverythingEnds == \A a \in Actors : []<>(at[a] \in Resting)

===============================================================================
