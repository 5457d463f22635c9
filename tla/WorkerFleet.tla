----------------------------- MODULE WorkerFleet -----------------------------
(***************************************************************************)
(* The OASIS worker daemons (run_daemon) and the PostgreSQL rows they      *)
(* share: the job tables, the heartbeat table and the session advisory     *)
(* lock on the worker identity.                                            *)
(*                                                                         *)
(* A process slot p is one deployment of the daemon: OASIS_WORKER_ID, its  *)
(* domain and its runtime configurations.  Several slots may carry the     *)
(* same identity (a rolling restart, a doubled deployment).  A slot runs   *)
(* one operating-system process at a time, which may die at any point and  *)
(* be started again.  Each action is one transaction on the process's      *)
(* control connection, or one local decision between two of them; the      *)
(* heartbeat thread has a connection of its own and beats in between.      *)
(*                                                                         *)
(* Time is abstract: a heartbeat row is fresh (last_seen_at within         *)
(* HEARTBEAT_STALE_SECONDS) until Expire makes it stale.  With Timely, a   *)
(* row never goes stale while a thread beats for its identity.             *)
(***************************************************************************)
EXTENDS Naturals, FiniteSets, JobQueues

CONSTANTS
  Procs,       \* process slots
  WorkerIds,   \* values of OASIS_WORKER_ID
  Settings,    \* Settings[p] = [id, domain, configs, digest]
  Jobs,        \* queue rows, numbered in the order of (created_at, kind, id)
  JobKind,     \* JobKind[j]: the table the row is in
  JobConfig,   \* JobConfig[j]: digest of the configuration it was frozen with
  Rejects,     \* Rejects[p]: jobs whose frozen input p's release refuses
  Rounds,      \* entries a complete observation log has
  Supervised,  \* the slots whose process is always restarted (compose)
  Timely,      \* a beating thread keeps its row fresh
  MaxFaults,   \* bound: crashes, lost connections and dead threads
  None         \* SQL NULL, and "no process"

ASSUME FleetAssumption ==
  /\ Settings \in [Procs -> [id : WorkerIds, domain : Domains,
                             configs : SUBSET Capabilities, digest : STRING]]
  /\ Jobs \subseteq Nat
  /\ JobKind \in [Jobs -> Kinds]
  /\ Rejects \in [Procs -> SUBSET Jobs]
  /\ Supervised \subseteq Procs
  /\ Rounds \in Nat /\ MaxFaults \in Nat /\ Timely \in BOOLEAN
  /\ None \notin Procs /\ None \notin WorkerIds /\ None \notin Jobs

VARIABLES
  status,      \* job tables: status ("absent" before the row is committed)
  owner,       \* job tables: claimed_by_worker_id
  progress,    \* job tables: entries in the job's observation log
  lock,        \* lock[w]: the process whose control session holds w's lock
  row,         \* simulation_worker_heartbeats, one row per worker_id
  pc,          \* where the process is in run_daemon
  todo,        \* the tables the sweep in progress has still to visit
  cfg,         \* the runtime configurations still enabled after the probes
  job,         \* the job in hand
  thread,      \* the heartbeat thread: "off", "beating" or "dead"
  faults       \* faults so far

tables == <<status, owner, progress>>
local == <<pc, todo, cfg, job, thread>>
vars == <<status, owner, progress, lock, row, pc, todo, cfg, job, thread, faults>>

Id(p) == Settings[p].id
MyKinds(p) == JobKindAllowlist[Settings[p].domain]

(* The control connection is alive exactly while the server still holds    *)
(* the session's advisory lock.                                            *)
Connected(p) == lock[Id(p)] = p

Terminal == {"succeeded", "failed"}

(* A process at one of these points has a claimed job in hand.             *)
Executing(p) == pc[p] \in {"engine", "fail", "check", "complete", "last_fail"}

(* The row of a job that the process may still write: every statement of   *)
(* the adapters is guarded by status = 'running' AND claimed_by_worker_id. *)
Mine(p, j) == status[j] = "running" /\ owner[j] = Id(p)

LogLength == [j \in Jobs |-> IF Queue[JobKind[j]].logged THEN Rounds ELSE 0]

PCs == {"down", "owned_sweep", "first_sweep", "announce", "probe", "advertise",
        "loop", "sweep", "pick", "claim", "reject", "engine", "fail", "check",
        "complete", "last_fail", "exit", "closing"}

(* by: the process that wrote the row (its started_at), or None once that  *)
(* process is gone; ready: the capabilities the row advertises.  Nothing   *)
(* tells a deleted row from a stale one that advertises nothing.           *)
HeartbeatRow == [by : Procs \cup {None}, fresh : BOOLEAN, ready : SUBSET Capabilities]

NoRow == [by |-> None, fresh |-> FALSE, ready |-> {}]

TypeOK ==
  /\ status \in [Jobs -> {"absent", "queued", "running", "succeeded", "failed"}]
  /\ owner \in [Jobs -> WorkerIds \cup {None}]
  /\ progress \in [Jobs -> 0..Rounds]
  /\ lock \in [WorkerIds -> Procs \cup {None}]
  /\ row \in [WorkerIds -> HeartbeatRow]
  /\ pc \in [Procs -> PCs]
  /\ todo \in [Procs -> SUBSET Kinds]
  /\ cfg \in [Procs -> SUBSET Capabilities]
  /\ job \in [Procs -> Jobs \cup {None}]
  /\ thread \in [Procs -> {"off", "beating", "dead"}]
  /\ faults \in 0..MaxFaults

Init ==
  /\ status = [j \in Jobs |-> "absent"]
  /\ owner = [j \in Jobs |-> None]
  /\ progress = [j \in Jobs |-> 0]
  /\ lock = [w \in WorkerIds |-> None]
  /\ row = [w \in WorkerIds |-> NoRow]
  /\ pc = [p \in Procs |-> "down"]
  /\ todo = [p \in Procs |-> {}]
  /\ cfg = [p \in Procs |-> {}]
  /\ job = [p \in Procs |-> None]
  /\ thread = [p \in Procs |-> "off"]
  /\ faults = 0

-----------------------------------------------------------------------------
(* The control plane commits a new, sealed job.                            *)
Enqueue(j) ==
  /\ status[j] = "absent"
  /\ status' = [status EXCEPT ![j] = "queued"]
  /\ UNCHANGED <<owner, progress, lock, row, local, faults>>

-----------------------------------------------------------------------------
(* Start-up.                                                               *)

(* acquire_worker_lock; when another session holds the lock the process    *)
(* exits at once and nothing has happened.                                 *)
Start(p) ==
  /\ pc[p] = "down"
  /\ lock[Id(p)] = None
  /\ lock' = [lock EXCEPT ![Id(p)] = p]
  /\ pc' = [pc EXCEPT ![p] = "owned_sweep"]
  /\ todo' = [todo EXCEPT ![p] = MyKinds(p)]
  /\ cfg' = [cfg EXCEPT ![p] = Settings[p].configs]
  /\ UNCHANGED <<tables, row, job, thread, faults>>

(* A sweep visits the tables of the domain in order, one transaction each; *)
(* after the last one the process goes on to next.                         *)
NextTable(p, k) == k \in todo[p] /\ \A i \in todo[p] : SweepRank[k] <= SweepRank[i]

(* Faulty variant: the sweep ends after its first table.                   *)
SweptFirstTableOnly(p, k, next, rest) ==
  todo' = [todo EXCEPT ![p] = rest] /\ pc' = [pc EXCEPT ![p] = next]

Swept(p, k, next, rest) ==
  /\ todo' = [todo EXCEPT ![p] = IF @ = {k} THEN rest ELSE @ \ {k}]
  /\ pc' = [pc EXCEPT ![p] = IF todo[p] = {k} THEN next ELSE @]

FailAll(S) == status' = [j \in Jobs |-> IF j \in S THEN "failed" ELSE status[j]]

(* Faulty variant: the identity's own heartbeat must be stale first.       *)
OwnedByIfStale(w, k) ==
  {j \in Jobs : status[j] = "running" /\ JobKind[j] = k /\ owner[j] = w /\ ~row[w].fresh}

(* Faulty variant: the status guard of the UPDATE is missing.              *)
OwnedByWhateverStatus(w, k) == {j \in Jobs : JobKind[j] = k /\ owner[j] = w}

(* fail_*_owned_by_worker: what an earlier process of this identity left.  *)
OwnedBy(w, k) == {j \in Jobs : status[j] = "running" /\ JobKind[j] = k /\ owner[j] = w}

FailOwned(p, k) ==
  /\ pc[p] = "owned_sweep" /\ Connected(p) /\ NextTable(p, k)
  /\ FailAll(OwnedBy(Id(p), k))
  /\ Swept(p, k, "first_sweep", MyKinds(p))
  /\ UNCHANGED <<owner, progress, lock, row, cfg, job, thread, faults>>

(* fail_orphaned_*: the owner has no heartbeat row, or a stale one.        *)
Orphaned(k) ==
  {j \in Jobs : status[j] = "running" /\ JobKind[j] = k /\ ~row[owner[j]].fresh}

FailOrphaned(p, k) ==
  /\ pc[p] \in {"first_sweep", "sweep"} /\ Connected(p) /\ NextTable(p, k)
  /\ FailAll(Orphaned(k))
  /\ Swept(p, k, IF pc[p] = "sweep" THEN "pick" ELSE "announce", {})
  /\ UNCHANGED <<owner, progress, lock, row, cfg, job, thread, faults>>

(* update_heartbeat overwrites whatever row the identity has, started_at   *)
(* included.                                                               *)
Beaten(p, ready) ==
  row' = [row EXCEPT ![Id(p)] = [by |-> p, fresh |-> TRUE, ready |-> ready]]

(* The first row of a process advertises no capability.  A semantic or     *)
(* report daemon without a model has nothing to probe and goes on to serve.*)
HasProbe(p) == Settings[p].domain = "evaluation" \/ "model" \in cfg[p]

Announce(p) ==
  /\ pc[p] = "announce" /\ Connected(p)
  /\ Beaten(p, {})
  /\ pc' = [pc EXCEPT ![p] = IF HasProbe(p) THEN "probe" ELSE "loop"]
  /\ thread' = [thread EXCEPT ![p] = IF HasProbe(p) THEN @ ELSE "beating"]
  /\ UNCHANGED <<tables, lock, todo, cfg, job, faults>>

(* An evaluation daemon drops each capability whose probe fails and goes   *)
(* on; a semantic or report daemon needs its one probe to pass.            *)
ProbePasses(p) ==
  /\ pc[p] = "probe"
  /\ \E ok \in SUBSET cfg[p] :
       /\ Settings[p].domain # "evaluation" => ok = cfg[p]
       /\ cfg' = [cfg EXCEPT ![p] = ok]
  /\ pc' = [pc EXCEPT ![p] = "advertise"]
  /\ UNCHANGED <<tables, lock, row, todo, job, thread, faults>>

(* preserve_unready_heartbeat: the row stays, advertising nothing.         *)
ProbeFails(p) ==
  /\ pc[p] = "probe" /\ Settings[p].domain # "evaluation"
  /\ pc' = [pc EXCEPT ![p] = "closing"]
  /\ UNCHANGED <<tables, lock, row, todo, cfg, job, thread, faults>>

(* Faulty variant: the probed capabilities are not written before serving. *)
AdvertiseWithoutBeat(p) ==
  /\ pc[p] = "advertise" /\ Connected(p)
  /\ pc' = [pc EXCEPT ![p] = "loop"]
  /\ thread' = [thread EXCEPT ![p] = "beating"]
  /\ UNCHANGED <<tables, lock, row, todo, cfg, job, faults>>

Advertise(p) ==
  /\ pc[p] = "advertise" /\ Connected(p)
  /\ Beaten(p, cfg[p])
  /\ pc' = [pc EXCEPT ![p] = "loop"]
  /\ thread' = [thread EXCEPT ![p] = "beating"]
  /\ UNCHANGED <<tables, lock, todo, cfg, job, faults>>

-----------------------------------------------------------------------------
(* The serving loop.                                                       *)

(* Faulty variant: orphans are swept at start-up only.                     *)
IterateWithoutSweep(p) ==
  /\ pc[p] = "loop"
  /\ pc' = [pc EXCEPT ![p] = IF thread[p] = "dead" THEN "exit" ELSE "pick"]
  /\ UNCHANGED <<tables, lock, row, todo, cfg, job, thread, faults>>

(* The top of an iteration: a dead heartbeat thread ends the process.      *)
Iterate(p) ==
  /\ pc[p] = "loop"
  /\ pc' = [pc EXCEPT ![p] = IF thread[p] = "dead" THEN "exit" ELSE "sweep"]
  /\ todo' = [todo EXCEPT ![p] = IF thread[p] = "dead" THEN {} ELSE MyKinds(p)]
  /\ UNCHANGED <<tables, lock, row, cfg, job, thread, faults>>

(* Faulty variant: the daemon looks at queues it has no configuration for. *)
ServesWholeDomain(p, k) == k \in MyKinds(p)

(* The queue heads the process looks at: kinds of its domain whose         *)
(* configuration is enabled, rows frozen with that configuration.          *)
Serves(p, k) == k \in MyKinds(p) /\ Queue[k].needs \in cfg[p] \cup {"nothing"}

Matches(p, j) ==
  Queue[JobKind[j]].needs = "nothing" \/ JobConfig[j] = Settings[p].digest

Candidates(p) ==
  {j \in Jobs : status[j] = "queued" /\ Serves(p, JobKind[j]) /\ Matches(p, j)}

(* _claim_next_job picks the oldest head; the pick is only a hint, the row *)
(* is read again when it is claimed.                                       *)
Pick(p) ==
  /\ pc[p] = "pick" /\ Connected(p)
  /\ \/ /\ Candidates(p) = {}
        /\ pc' = [pc EXCEPT ![p] = "loop"]
        /\ UNCHANGED job
     \/ \E j \in Candidates(p) :
          /\ \A i \in Candidates(p) : j <= i
          /\ job' = [job EXCEPT ![p] = j]
          /\ pc' = [pc EXCEPT ![p] = "claim"]
  /\ UNCHANGED <<tables, lock, row, todo, cfg, thread, faults>>

Goto(p, label) == pc' = [pc EXCEPT ![p] = label]
DropJob(p) == job' = [job EXCEPT ![p] = None]
SetRow(j, s, w) ==
  /\ status' = [status EXCEPT ![j] = s]
  /\ owner' = [owner EXCEPT ![j] = w]

(* The claiming transaction: SELECT ... WHERE status = 'queued' FOR UPDATE *)
(* SKIP LOCKED, validation of the frozen input, UPDATE to running.         *)
ClaimNothing(p) ==
  /\ pc[p] = "claim" /\ Connected(p) /\ status[job[p]] # "queued"
  /\ Goto(p, "loop") /\ DropJob(p)
  /\ UNCHANGED <<tables, lock, row, todo, cfg, thread, faults>>

(* Faulty variant: the claim trusts the queue head it was given.           *)
ClaimSoundUnread(p) ==
  /\ pc[p] = "claim" /\ Connected(p) /\ job[p] \notin Rejects[p]
  /\ SetRow(job[p], "running", Id(p))
  /\ Goto(p, "engine")
  /\ UNCHANGED <<progress, lock, row, todo, cfg, job, thread, faults>>

ClaimSound(p) ==
  /\ pc[p] = "claim" /\ Connected(p) /\ status[job[p]] = "queued"
  /\ job[p] \notin Rejects[p]
  /\ SetRow(job[p], "running", Id(p))
  /\ Goto(p, "engine")
  /\ UNCHANGED <<progress, lock, row, todo, cfg, job, thread, faults>>

ClaimRejected(p) ==
  /\ pc[p] = "claim" /\ Connected(p) /\ status[job[p]] = "queued"
  /\ job[p] \in Rejects[p]
  /\ LET handling == Queue[JobKind[job[p]]].onBadInput IN
     \/ /\ handling = "fail_in_claim"
        /\ SetRow(job[p], "failed", Id(p))
        /\ Goto(p, "loop") /\ DropJob(p)
     \/ /\ handling = "rollback_then_fail"
        /\ Goto(p, "reject")
        /\ UNCHANGED <<status, owner, job>>
     \/ /\ handling = "raise"
        /\ Goto(p, "exit") /\ DropJob(p)
        /\ UNCHANGED <<status, owner>>
  /\ UNCHANGED <<progress, lock, row, todo, cfg, thread, faults>>

(* Faulty variant: the failing transaction does not look at the owner.     *)
RejectAnyOwner(p) ==
  /\ pc[p] = "reject" /\ Connected(p)
  /\ IF status[job[p]] \in {"queued", "running"}
       THEN SetRow(job[p], "failed", Id(p))
       ELSE UNCHANGED <<status, owner>>
  /\ Goto(p, "loop") /\ DropJob(p)
  /\ UNCHANGED <<progress, lock, row, todo, cfg, thread, faults>>

(* The second transaction of "rollback_then_fail" (claim_first): it moves  *)
(* a row that is still queued, and a row another process has meanwhile     *)
(* claimed is left alone.                                                  *)
Reject(p) ==
  /\ pc[p] = "reject" /\ Connected(p)
  /\ IF status[job[p]] = "queued" \/ Mine(p, job[p])
       THEN SetRow(job[p], "failed", Id(p))
       ELSE UNCHANGED <<status, owner>>
  /\ Goto(p, "loop") /\ DropJob(p)
  /\ UNCHANGED <<progress, lock, row, todo, cfg, thread, faults>>

-----------------------------------------------------------------------------
(* Running the engine on the job in hand.                                  *)

(* append_round_events, append_research_round_events, append_chat_message: *)
(* the row must still be running for this worker.                          *)
AppendLog(p) ==
  /\ pc[p] = "engine" /\ Connected(p)
  /\ progress[job[p]] < LogLength[job[p]]
  /\ IF Mine(p, job[p])
       THEN /\ progress' = [progress EXCEPT ![job[p]] = @ + 1]
            /\ UNCHANGED pc
       ELSE Goto(p, "fail") /\ UNCHANGED progress
  /\ UNCHANGED <<status, owner, lock, row, todo, cfg, job, thread, faults>>

(* The engine returns once its log is complete, or raises at any point.    *)
EngineReturns(p) ==
  /\ pc[p] = "engine"
  /\ progress[job[p]] = LogLength[job[p]]
  /\ Goto(p, "check")
  /\ UNCHANGED <<tables, lock, row, todo, cfg, job, thread, faults>>

EngineRaises(p) ==
  /\ pc[p] = "engine"
  /\ Goto(p, "fail")
  /\ UNCHANGED <<tables, lock, row, todo, cfg, job, thread, faults>>

(* A result is only published if the heartbeat thread is still alive.      *)
CheckHeartbeat(p) ==
  /\ pc[p] = "check"
  /\ Goto(p, IF thread[p] = "dead" THEN "last_fail" ELSE "complete")
  /\ UNCHANGED <<tables, lock, row, todo, cfg, job, thread, faults>>

(* fail_*: a strict adapter raises out of the daemon when the row is no    *)
(* longer running for this worker; after a dead thread the daemon exits    *)
(* whatever happened.                                                      *)
FailJob(p) ==
  /\ pc[p] \in {"fail", "last_fail"} /\ Connected(p)
  /\ FailAll({job[p]} \cap {j \in Jobs : Mine(p, j)})
  /\ Goto(p, IF \/ pc[p] = "last_fail"
                \/ Queue[JobKind[job[p]]].strictFail /\ ~Mine(p, job[p])
               THEN "exit" ELSE "loop")
  /\ DropJob(p)
  /\ UNCHANGED <<owner, progress, lock, row, todo, cfg, thread, faults>>

(* complete_*: raises out of the daemon when the row is not running for    *)
(* this worker any more (a peer's sweep took it for an orphan).            *)
CompleteJob(p) ==
  /\ pc[p] = "complete" /\ Connected(p)
  /\ IF Mine(p, job[p])
       THEN status' = [status EXCEPT ![job[p]] = "succeeded"] /\ Goto(p, "loop")
       ELSE UNCHANGED status /\ Goto(p, "exit")
  /\ DropJob(p)
  /\ UNCHANGED <<owner, progress, lock, row, todo, cfg, thread, faults>>

(* An exception no handler expects ends the process while the job stays    *)
(* running: the engine raised another error than the four the loop knows,  *)
(* complete_* or a trigger of the database refused the result.  After an   *)
(* error of the database itself the row cannot be removed either.          *)
Escapes(p) ==
  /\ pc[p] \in {"engine", "complete"}
  /\ \E next \in {"exit", "closing"} : Goto(p, next)
  /\ DropJob(p)
  /\ UNCHANGED <<tables, lock, row, todo, cfg, thread, faults>>

-----------------------------------------------------------------------------
(* Leaving.                                                                *)

(* The finally block: remove_heartbeat deletes the row this process wrote  *)
(* last (worker_id and started_at); on a lost connection the error is      *)
(* swallowed and the row stays.                                            *)
RemoveRow(p) ==
  /\ pc[p] = "exit"
  /\ row' = IF Connected(p) /\ row[Id(p)].by = p
              THEN [row EXCEPT ![Id(p)] = NoRow] ELSE row
  /\ Goto(p, "closing")
  /\ UNCHANGED <<tables, lock, todo, cfg, job, thread, faults>>

(* Faulty variant: the lock outlives the session (a lock row, not an       *)
(* advisory lock).                                                         *)
GoneKeepingLock(p) ==
  /\ row' = IF row[Id(p)].by = p THEN [row EXCEPT ![Id(p)].by = None] ELSE row
  /\ pc' = [pc EXCEPT ![p] = "down"]
  /\ todo' = [todo EXCEPT ![p] = {}]
  /\ cfg' = [cfg EXCEPT ![p] = {}]
  /\ job' = [job EXCEPT ![p] = None]
  /\ thread' = [thread EXCEPT ![p] = "off"]
  /\ UNCHANGED <<tables, lock>>

(* The process is gone: its session lock is released, its thread stops,    *)
(* and no later process has its started_at.                                *)
Gone(p) ==
  /\ lock' = IF Connected(p) THEN [lock EXCEPT ![Id(p)] = None] ELSE lock
  /\ row' = IF row[Id(p)].by = p THEN [row EXCEPT ![Id(p)].by = None] ELSE row
  /\ pc' = [pc EXCEPT ![p] = "down"]
  /\ todo' = [todo EXCEPT ![p] = {}]
  /\ cfg' = [cfg EXCEPT ![p] = {}]
  /\ job' = [job EXCEPT ![p] = None]
  /\ thread' = [thread EXCEPT ![p] = "off"]
  /\ UNCHANGED tables

Close(p) ==
  /\ pc[p] = "closing"
  /\ Gone(p)
  /\ UNCHANGED faults

(* The next statement on a lost control connection raises psycopg.Error,   *)
(* which no handler around the job catches: the process ends and its row   *)
(* cannot be removed.  The engine notices when it appends.                 *)
NoticeLoss(p) ==
  /\ ~Connected(p)
  /\ \/ pc[p] \in {"owned_sweep", "first_sweep", "announce", "advertise", "sweep",
                   "pick", "claim", "reject", "fail", "complete", "last_fail"}
     \/ pc[p] = "engine" /\ progress[job[p]] < LogLength[job[p]]
  /\ Gone(p)
  /\ UNCHANGED faults

-----------------------------------------------------------------------------
(* The heartbeat thread, time and faults.                                  *)

(* The thread beats until its process is gone: join() waits for it only    *)
(* HEARTBEAT_INTERVAL_SECONDS + 1, so a slow beat may land after the row   *)
(* has been removed.                                                       *)
Beat(p) ==
  /\ thread[p] = "beating"
  /\ Beaten(p, cfg[p])
  /\ UNCHANGED <<tables, lock, local, faults>>

Expire(w) ==
  /\ row[w].fresh
  /\ Timely => ~\E p \in Procs : Id(p) = w /\ thread[p] = "beating"
  /\ row' = [row EXCEPT ![w].fresh = FALSE]
  /\ UNCHANGED <<tables, lock, local, faults>>

Fault == faults < MaxFaults /\ faults' = faults + 1

Crash(p) ==
  /\ pc[p] # "down"
  /\ Fault
  /\ Gone(p)

(* PostgreSQL ends the control session; the process does not know yet.     *)
LoseConnection(p) ==
  /\ Connected(p)
  /\ Fault
  /\ lock' = [lock EXCEPT ![Id(p)] = None]
  /\ UNCHANGED <<tables, row, local>>

ThreadDies(p) ==
  /\ thread[p] = "beating"
  /\ Fault
  /\ thread' = [thread EXCEPT ![p] = "dead"]
  /\ UNCHANGED <<tables, lock, row, pc, todo, cfg, job>>

-----------------------------------------------------------------------------
(* What a process does next by itself, once it runs.                       *)
Step(p) ==
  \/ \E k \in Kinds : FailOwned(p, k) \/ FailOrphaned(p, k)
  \/ Announce(p) \/ Advertise(p) \/ Iterate(p) \/ Pick(p)
  \/ ClaimNothing(p) \/ ClaimSound(p) \/ ClaimRejected(p) \/ Reject(p)
  \/ AppendLog(p) \/ EngineReturns(p) \/ EngineRaises(p)
  \/ CheckHeartbeat(p) \/ FailJob(p) \/ CompleteJob(p)
  \/ RemoveRow(p) \/ Close(p) \/ NoticeLoss(p)

Next ==
  \/ \E j \in Jobs : Enqueue(j)
  \/ \E p \in Procs : Start(p) \/ Step(p) \/ ProbePasses(p) \/ ProbeFails(p)
  \/ \E p \in Procs : Escapes(p) \/ Beat(p) \/ Crash(p) \/ LoseConnection(p) \/ ThreadDies(p)
  \/ \E w \in WorkerIds : Expire(w)

Spec == Init /\ [][Next]_vars

(* Fairness: the daemon is a loop without a blocking wait (the engine's    *)
(* calls are bounded by timeouts), so an enabled step is eventually taken; *)
(* compose restarts a supervised process (restart: unless-stopped); a      *)
(* provider that is probed again and again is reachable at some point; and *)
(* time passes.  Nothing is assumed of faults, beats or new jobs.          *)
Fairness ==
  /\ \A p \in Procs : WF_vars(Step(p)) /\ SF_vars(ProbePasses(p))
  /\ \A p \in Supervised : WF_vars(Start(p))
  /\ \A w \in WorkerIds : WF_vars(Expire(w))

FairSpec == Spec /\ Fairness

-----------------------------------------------------------------------------
(* Properties.                                                             *)

(* Two processes never run the engine on the same job at the same time,    *)
(* whatever restarts, doubled deployments, lost sessions and claim races   *)
(* happen: the paid provider calls of a job are made by one process.       *)
OneEngine ==
  \A p, q \in Procs : p # q /\ Executing(p) /\ Executing(q) => job[p] # job[q]

(* A daemon that holds its identity's lock, has finished its start-up      *)
(* sweep and is not leaving owns no running job of its domain except the   *)
(* one in hand.  No orphan sweep would ever look at such a job: the        *)
(* owner's heartbeat is fresh.                                             *)
NoAbandonedJob ==
  \A p \in Procs, j \in Jobs :
    /\ Connected(p) /\ pc[p] \notin {"owned_sweep", "exit", "closing"}
    /\ Mine(p, j) /\ JobKind[j] \in MyKinds(p)
    => Executing(p) /\ job[p] = j

(* The fleet implements the promise of the job queues.                     *)
Lifecycle == INSTANCE JobLifecycle
  WITH NoWorker <- None

LifecycleSpec == Lifecycle!Spec

(* While its heartbeat thread works and its session lives, a daemon's job  *)
(* is failed by the daemon itself only: a peer's orphan sweep or a new     *)
(* process of the same identity never ends a live engine run.              *)
SparesLiveJobs ==
  \A p \in Procs :
    /\ Executing(p) /\ Connected(p) /\ thread[p] = "beating"
    /\ Mine(p, job[p]) /\ status'[job[p]] = "failed"
    => pc'[p] # pc[p]

LiveJobIsSpared == [][SparesLiveJobs]_vars

(* Every claimed job ends: by its engine, by the next process of the same  *)
(* identity, or by the sweep of a peer once the heartbeat is stale.        *)
EveryClaimEnds ==
  \A j \in Jobs : (status[j] = "running") ~> (status[j] \in Terminal)

(* Every queued job ends if a supervised daemon is configured for it and   *)
(* accepts its input.                                                      *)
Servable(j) ==
  \E p \in Supervised :
    /\ j \notin Rejects[p]
    /\ JobKind[j] \in MyKinds(p)
    /\ Queue[JobKind[j]].needs \in Settings[p].configs \cup {"nothing"}
    /\ Matches(p, j)

QueueDrains ==
  \A j \in Jobs :
    Servable(j) => ((status[j] = "queued") ~> (status[j] \in Terminal))

-----------------------------------------------------------------------------
(* The inductive invariant behind OneEngine and NoAbandonedJob.            *)

(* A lock is held by a live process of that identity.                      *)
LockHolder ==
  \A w \in WorkerIds : lock[w] # None => Id(lock[w]) = w /\ pc[lock[w]] # "down"

(* A process past the claim has a job, which it has claimed itself.        *)
JobInHand ==
  \A p \in Procs :
    /\ Executing(p) \/ pc[p] \in {"claim", "reject"} => job[p] \in Jobs
    /\ Executing(p) => /\ status[job[p]] \notin {"absent", "queued"}
                       /\ owner[job[p]] = Id(p)

(* A running job of a lock holder is in its hand, about to be swept, or    *)
(* left to the next process of the identity.                               *)
OwnedIsAccounted ==
  \A p \in Procs, j \in Jobs :
    Connected(p) /\ Mine(p, j) /\ JobKind[j] \in MyKinds(p)
    => \/ Executing(p) /\ job[p] = j
       \/ pc[p] = "owned_sweep" /\ JobKind[j] \in todo[p]
       \/ pc[p] \in {"exit", "closing"}

(* A result is published only over a complete log.                         *)
LogIsComplete ==
  \A p \in Procs :
    pc[p] \in {"check", "complete"} => progress[job[p]] = LogLength[job[p]]

IInv ==
  /\ TypeOK
  /\ LockHolder
  /\ JobInHand
  /\ OneEngine
  /\ OwnedIsAccounted
  /\ LogIsComplete

(* The heartbeat of a process that holds its lock and beats is fresh: the  *)
(* reason why no sweep takes its job for an orphan (LiveJobIsSpared).      *)
BeatingMeansFresh ==
  Timely => \A p \in Procs :
    /\ Connected(p) /\ thread[p] = "beating" /\ pc[p] \notin {"exit", "closing"}
    => row[Id(p)].fresh

(* A process that is not there does not beat.                              *)
DownIsSilent == \A p \in Procs : pc[p] = "down" => thread[p] = "off"

LiveInv == IInv /\ DownIsSilent /\ BeatingMeansFresh

=============================================================================
