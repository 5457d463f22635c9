# SendOwl: verification of the control plane

TLA+ modules, TLC runs and TLAPS proofs about the parts of SendOwl (SandOwl)
that are hard to test: long, paid jobs that several daemons take from PostgreSQL
tables; the triggers that freeze what has been sealed or has finished; requests
that create the same thing at the same time; and a media library that is
imported, collected and frozen by transactions of their own. Paths are relative
to the repository; `oasis_worker/` stands for
`src/backend/oasis_worker/src/oasis_worker/`, `app/` for `src/backend/app/`.

## 1. The system and its parts

SendOwl is a control plane (FastAPI, `app/`), a PostgreSQL database that is the
only source of truth, and worker processes. The processes never talk to each
other: they meet in tables, row locks, unique keys, advisory locks and triggers.

| Part | State | Operations | Interacts with | Hard behaviour | What makes it correct | Modelled in |
|---|---|---|---|---|---|---|
| Worker daemons, `oasis_worker/daemon.py` | a control connection with an advisory lock on the worker id, a heartbeat thread with a connection of its own, the job in hand, the enabled runtime configurations | start, sweep what the identity owned, sweep orphans, probe, advertise, loop (sweep, pick, claim, run, check, complete or fail), leave | job tables, heartbeat rows, engines | crashes, lost sessions, two processes with one identity, dead threads, late beats, exceptions no handler expects | one engine per job, nothing left running, a live job is not taken away, the queue drains | WorkerFleet |
| Job queues, thirteen adapters `oasis_worker/*queue.py` | status, claimed_by_worker_id, the observation log | head, claim, append, complete, fail, two sweeps | daemons, API (creates rows), database triggers | claims by primary key after a separate read; adapters that differ in how they refuse a corrupt row | the lifecycle: one claim, one owner, one end, complete log | JobQueues, JobLifecycle, WorkerFleet |
| Harbor evaluation jobs, `app/research_evaluations/jobs.py`, `job_worker.py` | `research_evaluation_jobs`, the remote run | create, retry, claim, dispatch, poll, complete, fail, recover | API, worker, Harbor runner | rows without an owner, reads without a lock, lost acknowledgements, remote runs that survive the worker | numbered attempts, one at a time; final terminal states; every job ends | HarborJobs; creation and retry also in Requests |
| Harbor runner, `src/backend/harbor_runner` | remote runs | POST, GET | job worker | external | a run ends | HarborJobs |
| Schema, `src/backend/migrations` | nineteen families of a parent table and its children, with their triggers and declared counts | insert, delete and move of children; seal, claim, advance, succeed, fail | every writer | a trigger sees what its own statement may see; a child committed while the parent is sealed | what is closed is complete and stays so | SchemaTables, SchemaGuards |
| Round log and graph memory, `semantic_queue.py`, `research_queue.py`, `research_memory.py`, migration 0010 | events, current_round, memory per round | append, read | engine, triggers | contiguity, append against a sweep | only the next round, each one complete | SchemaGuards (order and completeness) |
| HTTP API, `app/*/router.py`, `repository.py` | one transaction per request | create, retry, append, ask, read | tables, live configurations | look-up, then insert; locks taken in different orders; readers of two statements | nothing half done, no unanswered request, no error that the handler does not expect | RequestPlans, Requests |
| Research projects, `app/research_projects` | projects, their agenda context, cohorts, runs | create, capture, plan, create run, seal | API | look-up, then insert, without a lock | one project, context and run per specification | Requests (all but planning and sealing) |
| Evaluations, `app/matraix_chat`, `matraix_web`, `matraix_linux`, `matraix_surveys`, `research_surveys`, `research_evaluations` | evaluations and trials | create, retry, read | queues, live configurations | retry lineage, configuration frozen into the digest | one child per failed attempt | Requests, SchemaGuards |
| ReportAgent, `app/report_agents` | evidence runs, tool calls, drafts | create, append, draft, retry | report worker | a budget of calls, two appends at once | numbered without a gap, within the budget | Requests, SchemaGuards |
| Agent interactions, report questions, interviews | turns, sessions of interviews | ask, read | report worker | sessions that overlap | all members or none | Requests |
| Decision threads and reports, scenarios, experiments, populations, world models and graphs, policies, batch registry | drafts, sealed objects, versions | create, append, seal, launch | API, workers | the same digest twice, versions numbered by two writers, launches that overlap | once each, numbered without a gap | Requests, SchemaGuards |
| Media synchronisation, `app/media/sync_*.py`, `import_agendascope.py`, `locking.py` | sync runs, sources, articles, the import lock | begin, snapshot, upsert, reconcile, publish, fail, release | AgendaScope's database, collectors, captures | stale runs, failures between commits, kills | one running run; what is shown is the last snapshot | MediaLibrary |
| Media collection, `app/media/collection` | sources made here, collection runs, articles | create a source, discover, fetch, store | web, syncs | writes without the import lock | no lost article, every collection ends | MediaLibrary |
| World snapshots of evidence, `app/world_models/repository.py` | the selected revisions | lock, check, freeze | syncs, collectors | selection against import | freezes what was read, while it is current | MediaLibrary |
| Readiness, `app/system` | none | read | frontend | stale rows | nothing stale is called ready | - |
| Frontend, sidecars, samples, vendored code | - | | | | | - |

`PROJECT.json` lists every component with what is modelled of it, and under
"hazards" each thing that can go wrong, at its line, with the property that
would catch it or the reason why none does.

## 2. Modules

- **JobQueues** - one record per adapter with the ways in which the adapters
  differ (what configuration the daemon needs, what happens to a row with a
  corrupt frozen input, whether `fail_*` insists on finding the row, whether the
  engine appends a log), the domains' allow-lists and the order of the sweeps.
- **JobLifecycle** - the abstract specification: what a job queue promises,
  without workers. Three variables (`status`, `owner`, `progress`), six actions.
- **WorkerFleet** - the daemons. Each process slot is a deployment (identity,
  domain, configurations, release). `pc` follows `run_daemon`:

  | pc | code (`daemon.py`) | action |
  |---|---|---|
  | down | `acquire_worker_lock` | Start |
  | owned_sweep, first_sweep | `_fail_owned_jobs_for_domain`, `_fail_orphaned_jobs_for_domain`, one table per transaction | FailOwned, FailOrphaned |
  | announce, probe, advertise | first heartbeat, probes, second heartbeat, thread start | Announce, ProbePasses, ProbeFails, Advertise |
  | loop, sweep, pick | top of the loop, orphan sweep, queue heads | Iterate, FailOrphaned, Pick |
  | claim, reject | the claiming transaction, and the second one of a refused row | ClaimNothing, ClaimSound, ClaimRejected, Reject |
  | engine | the engine, appending to the log | AppendLog, EngineReturns, EngineRaises, Escapes |
  | check, complete, fail, last_fail | `_raise_heartbeat_failure`, `complete_*`, `fail_*` | CheckHeartbeat, CompleteJob, FailJob |
  | exit, closing | the finally block | RemoveRow, Close |

  The heartbeat thread is `thread[p]`, with its own action Beat; `row[w]` is the
  heartbeat row of an identity; `lock[w]` says which process's session holds the
  advisory lock. Crash, LoseConnection, ThreadDies are the faults, NoticeLoss is
  the psycopg error that ends a process whose session is gone. An engine is what
  the daemon sees of it: appends, a return, a handled error, an unhandled one.
- **WorkerFleetProofs** - the theorems about WorkerFleet (section 6).
- **HarborJobs** - rows in order of creation, the API's two requests, the worker
  loop with each read and each update as a step of its own (there is no lock
  between them), and the runner (`runner[i]`), which goes on without the worker.
- **HarborJobsProofs** - the theorems about HarborJobs (section 6).
- **SchemaTables** - the nineteen families as records that say how the triggers of
  the migrations differ: the life of the parent (a sheet is a draft that gets
  sealed, a job is run by a worker, a ledger is only appended to), the lock the
  child's trigger takes on the parent row, whether children may be deleted or
  moved and which parents the trigger then looks at, what deleting a parent
  does, how many children a closed parent has, whether positions or rounds are
  in order, what a failed job may keep.
- **SchemaGuards** - what the records mean. Sessions run any statement in any
  order under READ COMMITTED: `row` and `kids` are what is committed, `own`,
  `put` and `cut` what an open transaction has changed, `held` its row locks. A
  trigger that raises is a statement that is not enabled (its transaction can
  only roll back, which is always possible). Nothing is assumed of the callers:
  the properties are those of the schema, whatever the application does.
- **SchemaGuardsProofs** - the theorems about SchemaGuards.
- **RequestPlans** - the transaction of each handler as the sequence of its
  accesses to shared state, in the order of the code: choose a live
  configuration, take an advisory lock on a digest, look, insert, hold the source
  row, number, commit. What is computed between two accesses is not in it. A POST
  that finds its chat, survey or web evaluation, or its graph, reads it, and is a
  plan of its own (`Reposting`, `PostGraph`); so is everything a handler needs of
  the graph it builds upon (`NeedGraph`).
- **PlanShapes** - what the plans of the handlers have in common, as properties of
  one plan or of the plans of requests that run together: commits once and at the
  end (`Whole`), every insert under a lock and after a check (`Covered`, with
  `Collides` for the seven kinds that are not), locks in one order (`LocksInOrder`),
  what a found item makes the request jump over (`SkipsWhole`), readers that go on
  to the artifacts or take one snapshot (`ReadsOn`, `InOneSnapshot`). No constants.
- **Requests** - executes the plans of concurrent requests: advisory locks, row
  locks, unique keys, statement snapshots, deadlocks (`Victim`), clients that
  leave (`Abandon`), while workers report other configurations (`Heartbeat`, a
  write, which LOCK TABLE holds up), go stale (`GoStale`, no write, which nothing
  holds up) and run the job in the row the requests share (`SourceRuns`).
- **RequestsProofs**, **RequestLocksProofs** - the theorems about requests with any
  plans of these shapes; the second has those about what the locks achieve.
- **HandlersProofs** - that the plans of RequestPlans have the shapes, whatever the
  requests are for, and what follows for the handlers.
- **MediaLibrary** - three kinds of actors over the rows of `media_articles` and
  their sources, AgendaScope's (`Src`) and those made here (`Natives`), which no
  import touches; `Site` says which source each collector visits:

  | at | code | action |
  |---|---|---|
  | sync: idle, asking | `sync_repository.py`: a run is given an id and a start time, the import lock is tried | Begin, SkipConcurrent, Open, OpenRefused |
  | opened, snapped | the snapshot of AgendaScope, its sources | TakeSnapshot, ImportSources |
  | upserting, reconciling | `import_agendascope.py`: articles by primary key, then those that are no longer there | Upsert, UpsertTwin, Reconcile, Hide, HideRefused |
  | reconciling -> releasing | run and articles are committed together | Publish, PublishUnheard |
  | failing, refusing, cancelling | roll back, record the failure in a transaction of its own | Fail, Lose, RecordFailure, FailureTooLate |
  | releasing, leaving, stopped | unlock; a process that died | Release, Kill, Restart |
  | collector: fetching, fetched, storing, dead | `collection/repository.py`, one transaction per collection, without the import lock | Start, Fetch, FetchFails, Look, Store, StoreTwin, Settle, KillCollector |
  | capture: waiting, locking, reading, frozen, refused | `world_models/repository.py`: import lock, `FOR UPDATE` of articles and their sources, comparison of revisions | Ask, Grant, LockArticle, Missing, LockSource, Freeze, Conflict, Disconnect |

  `owner` and `sharing` are row locks, `draft` what open transactions have
  written, `holder` the import lock. An article is its URL (unique key `url_hash`)
  with a primary key that comes from AgendaScope or from the collector.
- **MediaLibraryProofs** - the theorems about MediaLibrary.
- **MCWorkerFleet**, **MCHarborJobs**, **MCSchemaGuards**, **MCRequests**,
  **MCMediaLibrary** - constants, the pairs of requests and the constraints for TLC.

Definitions whose comment begins with "Faulty variant" are plausible bugs. They
are never used by a specification; substituting one for the definition after it
must break the property listed with it in `PROJECT.json` ("mutants").

## 3. Runs

| Run | cfg | Question | Bounds |
|---|---|---|---|
| takeover | MCTakeover | With two processes of one identity and a peer, is a job ever run twice or left behind? Checks the whole inductive invariant. | 3 slots, 2 identities, 1 semantic job, 1 round, 1 fault, heartbeats may be late; the two slots of one identity are symmetric (safety only) |
| twins | MCTwins | Do the tables follow JobLifecycle? | 2 slots of one identity, smoke + semantic job, one refused, 2 faults, late heartbeats |
| evaluation | MCEvaluation | Is a live worker's job ever failed by someone else? | 2 identities, 2 chat jobs, capabilities drop out, 1 fault, timely heartbeats |
| peers | MCPeers | Does every claimed and every queued job end? (liveness) | 2 identities, one supervised, 1 job, 1 fault |
| bulkhead | MCBulkhead | Does a poisonous research run stop daemons that do not serve research? (liveness) | 2 identities, research + smoke job, 1 fault |
| poison | MCPoison | ... and those that do? (violated, section 5) | 1 slot, research + smoke job |
| harbor_worker | MCHarborWorker | Are terminal rows final with the one worker compose deploys, and does every job end? | 1 worker, 2 targets, 2 attempts, 2 crashes |
| harbor_pair | MCHarborPair | What is left with two overlapping workers? | 2 workers, 2 targets, 2 attempts, 1 crash, 1 lost acknowledgement, symmetric |
| harbor_overlap | MCHarborOverlap | ... is a failure final then? (violated, section 5) | 2 workers, 2 targets, 2 attempts |
| schema | MCSchemaGuards | Can any sessions, with any statements, make something closed incomplete or change it? | all 19 families, 2 sessions, 2 parents, `Full` = 2; where no child can be moved, one parent at a time; sessions and parents symmetric (safety only) |
| requests | MCRequests | What do concurrent requests leave behind, and which of them fail on a key, a deadlock or a torn read? Is each one answered? Checks the whole inductive invariant, the shapes of all plans included. | every handler against itself and the pairs that meet on locks or keys, 2 configurations, a budget of 1; workers and the source row move only where somebody looks (154,571 states) |
| media | MCMediaLibrary | What do a scheduled and a manual sync, a collector and a capture do to each other? | 2 articles, 2 sources (one of AgendaScope, one made here) with a collector each, 2 sync runs, and any two of: a change at AgendaScope, a failure or kill, a collection, a capture (236,634 states, two minutes) |

Why the bounds are enough to be interesting: one round is enough to have a running
job with an incomplete and with a complete log; the race of a zombie and its
successor needs one lost session, and that of a zombie, a crash and a third start
needs two faults; a peer's wrong sweep needs two identities; starvation needs two
jobs. In the schema, a wrong count needs one child more or less than `Full`, a
move needs two parents, and two transactions meet on one parent. Two requests are
enough for every look-up that races an insert and for every pair of opposite lock
orders; a third request would only wait for one of them. In the media library two
runs are enough for a stale one and its successor, two articles for opposite
orders of row locks, a source of each kind for a collector that an import waits
for and one that commits in the middle of it, and each of the findings in section
5 takes at most two events. The theorems do not depend on these bounds.

The runs of WorkerFleet check deadlock: an idle daemon loops, so the model never
stops. Harbor runs do not: when every lineage has used up its attempts and
the idle worker finds nothing, the code sleeps and polls, and the model, which
leaves polling of an empty queue out, stops. Neither does the media run, where
every actor may come to rest; `EverythingEnds` says that none gets stuck before.

Liveness properties are checked on small instances only, and each of them on a
set-up in which the bad case (a process that never comes back, a crash loop, a
crash while a remote run is under way) occurs.

### Properties

- `OneEngine` - no two processes execute the same job, whatever restarts, doubled
  deployments and lost sessions happen.
- `NoAbandonedJob` - a daemon that holds its lock, has swept and is not leaving
  owns no running job but the one in hand; nobody else would ever end such a job.
- `LifecycleSpec` - refinement of JobLifecycle by the identity mapping
  (`NoWorker <- None`; `LogLength` is defined in WorkerFleet).
- `LiveJobIsSpared` - as long as its thread beats and its session lives, only the
  daemon itself fails its job. `LiveInv` adds the reason: its row is fresh.
- `EveryClaimEnds`, `QueueDrains` - every claimed job ends; every job some
  supervised daemon is configured for and accepts ends.
- `OneAttemptAtATime`, `RetriesFollowFailure`, `SuccessIsReal`, `TerminalIsFinal`,
  `EveryJobEnds`, `FailedStaysFailed` - the retry lineage of Harbor jobs.
- `ClosedIsComplete`, `ClosedIsFrozen` - a sealed or succeeded parent has the
  children it declares, and no later commit changes it or them. Both make an
  exception of the two families whose move trigger looks at the new parent only
  (section 5): there a closed parent gains and changes nothing, but may lose.
- `RoundsInOrder`, `FailedIsEmpty` - counted rounds are complete and at most one
  round is ahead of the counter; a failed survey trial keeps no answers.
- `NothingHalfDone`, `EverythingThere` - every record in a table was asked for by a
  request answered ok, and such a request finds everything it asked for.
- `OnlyTheseCollide`, `OnlySessionsDeadlock`, `OnlyTheseRaise` - which handlers can
  fail on a unique key, a deadlock or a job that ends between their two reads.
  They are exact: every handler they name does fail in some behaviour.
- `ReadsAreWhole`, `NoRivalWhenCommitted`, `EveryRequestAnswered` - no finished job
  without its artifacts; when what pins a configuration is committed no live worker
  reports another one (the worker itself may have died in between); every request
  is answered.
- `LiveRunIsSpared`, `AtMostOneRunning`, `RunsEndOnce` - a sync that imports is not
  taken for stale by another one; one run is shown as running; outcomes are final.
- `ShownIsLastSnapshot`, `HiddenBySuccess` - what is shown is the snapshot of the
  last successful run and what collectors have found since; an article is hidden
  by a successful run only.
- `FrozenIsCurrent` - a world snapshot freezes the revisions its user has read, and
  they are shown and current when it commits.
- `EveryDeadlockHasACollector`, `EverythingEnds` - syncs and captures alone cannot
  be deadlocked; everybody comes to rest, again and again.

`RetriesFollowFailure` and `TerminalIsFinal` hold for the one worker that compose
deploys, without lost acknowledgements, and are checked there; neither holds for
two workers (section 5).

## 4. Fairness

- `WF(Step(p))`: a started daemon takes its next step. The loop sleeps at most
  `POLL_INTERVAL_SECONDS`, its statements do not wait for locks
  (`SKIP LOCKED`, short updates), and the engines' provider calls have timeouts.
- `SF(ProbePasses(p))`: a probe that is tried again at every restart succeeds at
  some point. Without it a daemon whose provider is down for ever serves nothing,
  which refutes nothing.
- `WF(Start(p))` for supervised slots: `restart: unless-stopped` in
  `compose.yaml`. Slots outside `Supervised` may stay down for good.
- `WF(Expire(w))`: time passes, so the row of a silent identity becomes stale.
- Harbor: `WF(Step(w))` (compose restarts the worker) and weak fairness of the
  runner: every task has a time limit for its agent and its verifier.

- Requests: `WF(Serve(c))`. The event loop serves every request whose statement
  does not wait for a lock, and PostgreSQL's deadlock detector ends one of those
  that wait in a circle. A request behind a lock gets it because the others end.
- MediaLibrary: `WF` of the steps of each sync, collector and capture: the event
  loop or process goes on, fetches have timeouts, and circles of waits are ended
  by the detector.
- SchemaGuards states safety only and no fairness.

Nothing is assumed of faults, heartbeats, unexpected exceptions, new jobs or
requests, of a client that leaves, of a change at AgendaScope, or of the beginning
of a sync, collection or capture. `MaxFaults`, `MaxLostAcks`, `MaxEdits`,
`MaxVisits` and `MaxRuns` bound how often such things happen.

## 5. What the runs found

- **poison**: `claim_research_run` raises on a corrupt frozen run and writes
  nothing, unlike the other twelve adapters, and nothing in `run_daemon` handles
  it. The daemon is restarted, finds the same oldest head and exits again: no
  younger job of its domain is served (`research_queue.py:308`;
  `WORKER_ARCHITECTURE_REVIEW.md:118` says oldest-first keeps queues from being
  starved by one table). `bulkhead` shows that daemons that do not look at the
  research queue are not affected.
- **harbor_overlap**: with two workers, the start-up sweep of one fails a row that
  the other has read as active and then updates to succeeded
  (`jobs.py:271`; `TRIAD_INTEGRATION_REFACTOR_PLAN.md:255` calls old failures
  immutable).

No document promises otherwise of the following; the properties of the passing
runs state them as they are, and the hazards in `PROJECT.json` name the lines.

- **schema**: the triggers of world graphs (0011) and decision reports (0042) look,
  when a child is moved, at its new parent only. A statement that moves a child
  could take it away from a closed parent. No code moves children.
- **requests**: seven kinds of insert can violate a unique key, which no handler
  expects: a research project, its agenda context and a research run, each looked
  for and inserted without a lock; the retries of chat, web and Linux evaluations
  when the live configuration has changed between two of them (the digest they
  lock covers it, the key they violate is the parent's); and two different targets
  of one run. Two interview sessions with the same members in opposite orders can
  be deadlocked; a batch launch sorts its items and cannot.
- **requests**: readers of chat, survey and web evaluations and of the report of a
  research run, the POSTs that find one of these evaluations or a graph, and those
  that build upon a graph (a cohort origin, a project), read a job's row and its
  artifacts in two statements. If the job ends in between they raise instead of
  answering. GET of a world graph and the verification of an archive read one
  snapshot.
- **requests**: LOCK TABLE keeps other configurations from appearing until the
  commit, and holds up the beats of the worker that was read with them; if it was
  silent for almost 30 s its row is stale when the record is committed, which then
  waits for a worker with that configuration.
- **media**: a sync hides articles that a collector has found and AgendaScope does
  not have, until they are collected again. If such an article is collected
  between a sync's snapshot and its reconciliation, hiding it violates the order
  of observation times (`ck_media_articles_source_observation_time`): the import
  fails, is recorded as failed, and a later one may succeed. With a collector of
  one of AgendaScope's sources this takes a collection that ends before the import
  comes to the sources, whose rows it locks; a later one waits for the source row,
  and may end in a deadlock. A collector of a source made here meets no such lock
  and may store its article at any moment of the import, even after the
  reconciliation: what was found then is shown, next to the snapshot. An article
  that a collector has stored, or that AgendaScope publishes again under a new id,
  makes every import with it violate UNIQUE(url_hash).
- **media**: a collector takes row locks in an order of its own and can be
  deadlocked with a sync; the collector that is chosen as victim dies and its
  collection run stays as it was. A capture that holds or waits for the import
  lock makes a sync skip its turn. A run takes its start time before the lock, so
  marking an older run stale can be refused by the check on its times.
- **media**: `docs/architecture.md:153` promises a conflict when the evidence has
  changed since it was read; `FrozenIsCurrent` confirms it against all of this.

## 6. What is proved

`WorkerFleetProofs`, for every set of slots, identities, settings and jobs, any
number of rounds and faults, and heartbeats as late as you like, from
`FleetAssumption` (the types of the constants; `None` is no value):

1. `InductiveInvariant`: `Spec => []IInv`. `OneEngine` and `NoAbandonedJob` are
   not inductive. `IInv` adds: a lock is held by a live process of that identity
   (`LockHolder`); a process past the claim has claimed the job itself
   (`JobInHand`); a running job of a lock holder is in its hand, still to be
   swept, or the process is leaving (`OwnedIsAccounted`). Two processes on one
   job would both own it, hence share an identity; the second one would have
   claimed a row that was still queued. `LogIsComplete` carries the log from the
   engine's return to the publication. One step per action, four conjuncts each.
2. `TypeCorrect`, `EngineExclusion`, `NothingAbandoned`: consequences.
3. `BeatingRowsAreFresh`: `Spec => []LiveInv`. Between the claim and the end, the
   row of a connected, beating daemon is fresh: its last writer before the first
   claim is Advertise, and only the daemon itself can delete it.
4. `LiveJobsAreSpared`: assuming `Timely`, `Spec => LiveJobIsSpared`. The other
   processes of the identity have no lock to sweep with, peers see a fresh row.
5. `FleetImplementsLifecycle`: `Spec => LifecycleSpec`; each statement sent to a
   job table maps to one action of JobLifecycle, everything else stutters.

`HarborJobsProofs`, for every set of workers and targets, every limit on attempts,
any number of crashes and lost acknowledgements, from `HarborAssumption`:

6. `HarborTypes`: `Spec => []TypeOK`.
7. `OneAttemptTheorem`: `Spec => []OneAttemptAtATime`. The property says too little
   about the past to be inductive: a retry looks at the parent and its children
   only, a creation at first attempts only. `Lineage` adds that the attempts of a
   target are numbered without a gap, that each has a parent with the number
   before its own, and that all but the last have ended. Hence a target without a
   first attempt has none, and a failed attempt without a child is the last.
   Workers change statuses only and never make an ended row unfinished, however
   stale what they read (`OnlyStatuses`).
8. `SuccessTheorem`: `Spec => []SuccessIsReal`. A row in hand is in one hand, is no
   longer queued, and has no remote run before its worker sends it (`Sealing`): no
   POST replaces a run that was already seen to succeed.
9. `FinalTheorem`, `RetryTheorem`: `TerminalIsFinal` and `RetriesFollowFailure`,
   assuming `Alone` - one worker at most, no lost acknowledgement. What the worker
   has read is then still so when it writes (`FreshReads`). The run harbor_overlap
   shows that a second worker breaks this.

`SchemaGuardsProofs`, for every number of sessions and parents and every `Full`
of at least 2, in all families, from `FullAssumption` and `SessionsAssumption`:

10. `Invariant`: `Spec => []IInv`, and from it `ClosedStaysComplete`,
    `RoundsStayInOrder`, `FailedStaysEmpty` and `ClosedStaysFrozen`. The
    properties speak of what is committed; the invariant must speak of what every
    session sees (`ViewInv`), because a commit publishes that. A session that has
    changed children without changing the parent holds a lock that keeps the
    parent open (`StillOpen`), so the parent another session closes is one nobody
    else is filling. It is here that the lock of every child trigger is used.

The requests are proved about in two stages. `RequestsProofs` and
`RequestLocksProofs` take any number of clients with any plans, any set of
configurations and any budget, from `RequestAssumption` and `PlanAssumption`; each
theorem names as its hypothesis the shape of PlanShapes it needs, and no other.
`HandlersProofs` then proves the shapes of the plans the handlers have.

11. `LocksAreKept`: `Spec => []Discipline`: types, advisory locks and the source row
    exclude, an answered request has no open transaction, and under LOCK TABLE no
    live worker reports another configuration than the one read (`Steady`).
    `NoRivalWhenPinned`: `Spec => NoRivalWhenCommitted`. While anyone holds the lock
    rows can only go stale, so all who hold it have read the same, and what is live
    at the commit is that or nothing.
12. `NothingIsHalfDone` (plans that are `Whole`) and `EverythingIsThere` (and
    `SkipsWhole`). What a transaction has written comes from inserts it has done
    (`Owned`), and whatever it had to insert by now it sees (`Seen`), if not by itself
    then because it found an item of a request that was answered ok.
13. `ReadersSeeWholeJobs` (plans that are `ReadsOn`) and `OneSnapshotNeverRaises`
    (and `InOneSnapshot`). A job has artifacts exactly when it has succeeded, in
    every snapshot (`Viewed`); who has read that it has succeeded has them, or is
    about to read them and will find them (`Informed`); who verifies in one snapshot
    has read the status in it (`Snapped`).
14. `LocksSpareTheOthers` (plans that are `Covered`, scripts that `Agree` on the
    lock of a table): `Spec => []OnlyTheseCollide`. From its lock on, a transaction
    keeps others from what it is to insert; from its check on, there is nothing the
    insert could run into, committed or not (`Safe`). What others insert is `Sealed`
    by a lock that is the same as its own or says that they are no rivals. Numbered
    rows need that their numbers are below the count (`Numbered`).
15. `OnlySessionsMakeCircles` (and `LocksInOrder`): `Spec => []OnlySessionsDeadlock`.
    A request waits for the holder of a lock, or for an insert that runs into its
    own; since covered inserts run into nothing, the latter are those of `Collides`
    only. Whoever is waited for has taken its lock at a step before the one it is
    waiting at, so levels rise along a circle, or stay at the level of the members
    of interview sessions. `Invariant` collects 11 to 15: `Spec => []IInv`, from
    `Shapes`.
16. `HandlersHaveTheShapes`: all handlers but the launch of a batch and the two
    interview sessions have the shapes, for every thing they can be asked for, and
    so does every set of requests to them. Most make one thing and follow from one
    lemma about plans that lock, check and insert it (`OneThing`); those that make
    several, or build upon a graph, are taken step by step; the others read.
    `RetryLinux` is a case of its own: the child it looks for is the evaluation of
    the trial it inserts, and a found one ends the request.
    `HandlersMeetTheAssumption`: they have what `PlanAssumption` takes for
    granted, so nothing is assumed of them.
17. `HandlersKeepTheirPromises`: hence `NothingHalfDone`, `EverythingThere`,
    `OnlyTheseCollide`, `ReadsAreWhole` and `OnlyTheseRaise` for any number of such
    requests at a time; `HandlersNeverDeadlock`: none of them is ever a victim.

`MediaLibraryProofs`, for every number of syncs, collectors, captures, articles,
runs, edits and faults, from `MediaAssumption`. The steps are first reduced to
a few shapes (an actor moves on; it writes one row; it ends), then each part of
the invariant is carried over these:

18. `Invariant`: `Spec => []IInv`: who holds the import lock and which rows
    (`Discipline`), which run numbers and which times are taken (`Numbered`,
    `Timed`), what each open transaction has written and has still to write
    (`Written`, `Imported`), what a capture has locked (`Selected`). Nothing keeps a
    collector of a source made here from committing while a sync imports, so
    `Imported` says, of an article the snapshot does not have and that is shown,
    that it is to be hidden, or has been, or was seen at a time that no run has
    observed.
19. `LiveRunsAreSpared`, `OneRunning`, `RunsEnd`: a run is declared stale under the
    import lock, which an importing sync holds.
20. `LastSnapshotIsShown`, `SuccessHides`: a sync keeps the rows of the articles of
    its snapshot from upsert to commit, so what it publishes of them is what it has
    read. What else is shown then was found by a collector: no two reads of an
    outside world have the same time (`Timed`), so that time is none at which this
    run, or an earlier one, has observed.
21. `FrozenAsRead`: a capture has locked every article before it compares them.
22. `DeadlocksHaveACollector`: syncs wait for nobody but collectors and captures
    that hold rows, and a capture holds rows only under the import lock.

Only model-checked: liveness (`EveryClaimEnds`, `QueueDrains`, `EveryJobEnds`,
`EveryRequestAnswered`, `EverythingEnds`), which the prover has no rule for here;
and that the launch of a batch and the interview sessions have the shapes. Their
plans are as long as the request makes them, and what a fold over a sequence
yields for every length is an induction over data. The run requests evaluates
`Shapes` for them, as part of `IInv`; theorems 11 to 15 then hold of them as well.
Every safety property of a passing run is stated by a theorem.

## 7. What is left out

Of the modelled parts:

- What engines compute, and the content checks of claims, results, seals and
  requests: a row is accepted or refused, two requests ask for the same thing when
  their digests are equal.
- Clocks: staleness is an event. In WorkerFleet `Timely` stands for "beats every
  5 s, stale after 30 s, and clocks agree well enough"; in Requests any live
  configuration may go stale at any moment, whatever is locked (`GoStale`). In the
  media library the clocks of the two databases are taken as one.
- A deployment's settings do not change; jobs frozen with an older digest are not
  servable and wait. An engine that never returns.
- Schema: upgrades and downgrades themselves, which run once and alone.
- Requests: the queue of lockers behind `LOCK TABLE`; REPEATABLE READ is modelled
  only where an endpoint asks for it; the cursor of transcript deltas; planning and
  validation of research projects.
- Media: topics, propagation, first utterances, alerts, failure counters and health
  (written in the same transactions), the six-hour projection, heartbeats, the
  endpoint that configures sources, the lock that keeps two collectors from one
  source, extraction and transport. A collector process visits its sources one by
  one; the model has an actor per source, which only adds behaviour. AgendaScope
  does not give an article another URL under the same id (`Edit`), although the
  upsert would write it. No unique key keeps two concurrent requests from making
  the same media source twice; `CreateMediaSource` allows that.

Not modelled: Readiness (it keeps no state), sidecars, samples, frontend,
vendored code. Contracts, ORM models, validation, statistics, the engines and the
frontend are most of the repository's lines; they hold no control that a model
checker could get wrong, which is why the share of lines mapped stays small.

## 8. Plan

Done: JobQueues, JobLifecycle, WorkerFleet, HarborJobs, SchemaTables, SchemaGuards,
RequestPlans, PlanShapes, Requests and MediaLibrary, with proofs of every safety
property about the five that are state machines of the code.
What would be next:

1. Interview sessions of any number of members and batch launches of any number of
   parents: their plans in a form that needs no induction.
2. Readiness composed with WorkerFleet: nothing is called ready that no live
   process serves for longer than the stale limit.
3. The contents of graph memory (which rounds a prompt has seen), and transcript
   deltas by event_sequence.
4. Project plans from draft to seal, and the side tables of the media library.
5. An abstract retry lineage that HarborJobs and the retries of Requests implement.
