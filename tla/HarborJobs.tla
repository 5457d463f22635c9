------------------------------ MODULE HarborJobs ------------------------------
(***************************************************************************)
(* Harbor evaluation jobs: the rows of research_evaluation_jobs, the API   *)
(* that creates and retries them, the worker loop (run_worker) that sends  *)
(* them to the Harbor runner, and the runner, which is external.           *)
(*                                                                         *)
(* Unlike the OASIS queues a row carries no owner, and every write of the  *)
(* worker is split: a transaction reads the row without a lock, decides,   *)
(* and updates it by primary key, whatever the row says by then.           *)
(***************************************************************************)
EXTENDS Naturals, Sequences, FiniteSets

CONSTANTS
  Workers,      \* processes running job_worker.run_worker
  Targets,      \* frozen evaluation targets; a target fixes the root digest
  AttemptLimit, \* attempts a lineage may have (5)
  MaxFaults,    \* bound: crashes
  MaxLostAcks   \* bound: commits that took effect but were reported failed

ASSUME HarborAssumption ==
  AttemptLimit \in Nat \ {0} /\ MaxFaults \in Nat /\ MaxLostAcks \in Nat

VARIABLES
  jobs,      \* the rows in the order of their creation
  runner,    \* runner[i]: the remote run of row i
  pc,        \* where the worker is
  job,       \* the row in the worker's hand (0: none)
  seen,      \* the rows the worker has read as active in the open transaction
  faults, lostAcks

vars == <<jobs, runner, pc, job, seen, faults, lostAcks>>

Ids == 1..Len(jobs)
Active == {"dispatching", "running"}
Terminal == {"succeeded", "failed"}
Row(t, a, parent) == [target |-> t, attempt |-> a, parent |-> parent, status |-> "queued"]
NoParent == 0

PCs == {"down", "recover", "sweep", "idle", "dispatch", "poll",
        "complete", "seal", "fail", "record"}

(* The code knows "running" and "cancelled" but never writes them.         *)
TypeOK ==
  /\ jobs \in Seq([target : Targets, attempt : 1..AttemptLimit, parent : Nat,
                   status : {"queued", "dispatching"} \cup Terminal])
  /\ runner \in [Ids -> {"none", "running"} \cup Terminal]
  /\ pc \in [Workers -> PCs]
  /\ job \in [Workers -> 0..Len(jobs)]
  /\ seen \in [Workers -> SUBSET Ids]
  /\ faults \in 0..MaxFaults /\ lostAcks \in 0..MaxLostAcks

Init ==
  /\ jobs = <<>> /\ runner = <<>>
  /\ pc = [w \in Workers |-> "down"]
  /\ job = [w \in Workers |-> 0]
  /\ seen = [w \in Workers |-> {}]
  /\ faults = 0 /\ lostAcks = 0

SetStatus(S, s) ==
  jobs' = [i \in Ids |-> IF i \in S THEN [jobs[i] EXCEPT !.status = s] ELSE jobs[i]]

Insert(r) == jobs' = Append(jobs, r) /\ runner' = Append(runner, "none")

-----------------------------------------------------------------------------
(* The API.                                                                *)

(* Faulty variant: no look-up before the insert (with a bound on the       *)
(* rows).                                                                  *)
CreateBlindly(t) ==
  /\ Len(jobs) < 2 * Cardinality(Targets)
  /\ Insert(Row(t, 1, NoParent))
  /\ UNCHANGED <<pc, job, seen, faults, lostAcks>>

(* create_research_evaluation_job: the advisory lock on the digest makes   *)
(* the look-up and the insert one step; a root that exists is returned,    *)
(* whatever has become of it.                                              *)
Create(t) ==
  /\ ~\E i \in Ids : jobs[i].target = t /\ jobs[i].attempt = 1
  /\ Insert(Row(t, 1, NoParent))
  /\ UNCHANGED <<pc, job, seen, faults, lostAcks>>

(* Faulty variant: an attempt under way may be retried.                    *)
RetryUnfinished(i) ==
  /\ ~\E c \in Ids : jobs[c].parent = i
  /\ jobs[i].status \in Active \cup {"failed"}
  /\ jobs[i].attempt < AttemptLimit
  /\ Insert(Row(jobs[i].target, jobs[i].attempt + 1, i))
  /\ UNCHANGED <<pc, job, seen, faults, lostAcks>>

(* Faulty variant: the limit on attempts is missing.                       *)
RetryForEver(i) ==
  /\ ~\E c \in Ids : jobs[c].parent = i
  /\ jobs[i].status = "failed"
  /\ Insert(Row(jobs[i].target, jobs[i].attempt + 1, i))
  /\ UNCHANGED <<pc, job, seen, faults, lostAcks>>

(* retry_research_evaluation_job: the parent is locked FOR UPDATE until    *)
(* the commit; a child that exists is returned.                            *)
Retry(i) ==
  /\ ~\E c \in Ids : jobs[c].parent = i
  /\ jobs[i].status = "failed"
  /\ jobs[i].attempt < AttemptLimit
  /\ Insert(Row(jobs[i].target, jobs[i].attempt + 1, i))
  /\ UNCHANGED <<pc, job, seen, faults, lostAcks>>

-----------------------------------------------------------------------------
(* The worker.                                                             *)
Goto(w, label) == pc' = [pc EXCEPT ![w] = label]

(* Faulty variant: a new worker does not fail the active rows.             *)
StartWithoutRecovery(w) ==
  /\ pc[w] = "down"
  /\ Goto(w, "idle")
  /\ UNCHANGED <<jobs, runner, job, seen, faults, lostAcks>>

Start(w) ==
  /\ pc[w] = "down"
  /\ Goto(w, "recover")
  /\ UNCHANGED <<jobs, runner, job, seen, faults, lostAcks>>

(* Faulty variant: recovery takes every claimed row, the finished ones     *)
(* too.                                                                    *)
ReadStarted(w) ==
  /\ pc[w] = "recover"
  /\ seen' = [seen EXCEPT ![w] = {i \in Ids : jobs[i].status # "queued"}]
  /\ Goto(w, IF seen'[w] = {} THEN "idle" ELSE "sweep")
  /\ UNCHANGED <<jobs, runner, job, faults, lostAcks>>

(* fail_active_research_evaluation_jobs: every active row is taken for the *)
(* leftover of an earlier process.                                         *)
ReadActive(w) ==
  /\ pc[w] = "recover"
  /\ seen' = [seen EXCEPT ![w] = {i \in Ids : jobs[i].status \in Active}]
  /\ Goto(w, IF seen'[w] = {} THEN "idle" ELSE "sweep")
  /\ UNCHANGED <<jobs, runner, job, faults, lostAcks>>

FailActive(w) ==
  /\ pc[w] = "sweep"
  /\ SetStatus(seen[w], "failed")
  /\ Goto(w, "idle")
  /\ seen' = [seen EXCEPT ![w] = {}]
  /\ UNCHANGED <<runner, job, faults, lostAcks>>

(* The oldest queued row nobody has locked (a retry request locks the row  *)
(* it looks at, whatever its status, so the oldest may be passed over).    *)
Claim(w) ==
  /\ pc[w] = "idle"
  /\ \E i \in Ids :
       /\ jobs[i].status = "queued"
       /\ SetStatus({i}, "dispatching")
       /\ job' = [job EXCEPT ![w] = i]
  /\ Goto(w, "dispatch")
  /\ UNCHANGED <<runner, seen, faults, lostAcks>>

(* Materialising the task or the POST may fail; a POST that timed out may  *)
(* have started the run all the same.                                      *)
Dispatch(w) ==
  /\ pc[w] = "dispatch"
  /\ \E started \in BOOLEAN :
       /\ runner' = IF started THEN [runner EXCEPT ![job[w]] = "running"] ELSE runner
       /\ \/ started /\ Goto(w, "poll")
          \/ Goto(w, "fail")
  /\ UNCHANGED <<jobs, job, seen, faults, lostAcks>>

(* Faulty variant: the end of the run is taken for its success.            *)
PollAnyEnd(w) ==
  /\ pc[w] = "poll" /\ runner[job[w]] \in Terminal
  /\ Goto(w, "complete")
  /\ UNCHANGED <<jobs, runner, job, seen, faults, lostAcks>>

(* GET every five seconds, for ever, until the run has ended ...           *)
Poll(w) ==
  /\ pc[w] = "poll" /\ runner[job[w]] \in Terminal
  /\ Goto(w, IF runner[job[w]] = "succeeded" THEN "complete" ELSE "fail")
  /\ UNCHANGED <<jobs, runner, job, seen, faults, lostAcks>>

(* ... or the request fails: a time-out, or a runner that has forgotten    *)
(* the run.                                                                *)
PollBreaks(w) ==
  /\ pc[w] = "poll"
  /\ Goto(w, "fail")
  /\ UNCHANGED <<jobs, runner, job, seen, faults, lostAcks>>

(* complete_research_evaluation_job reads the row ...                      *)
ReadForSeal(w) ==
  /\ pc[w] = "complete"
  /\ seen' = [seen EXCEPT ![w] = {job[w]} \cap {i \in Ids : jobs[i].status \in Active}]
  /\ Goto(w, IF seen'[w] = {} THEN "fail" ELSE "seal")
  /\ UNCHANGED <<jobs, runner, job, faults, lostAcks>>

Idle(w) ==
  /\ Goto(w, "idle")
  /\ job' = [job EXCEPT ![w] = 0]
  /\ seen' = [seen EXCEPT ![w] = {}]

(* ... and updates it.                                                     *)
Seal(w) ==
  /\ pc[w] = "seal"
  /\ SetStatus({job[w]}, "succeeded")
  /\ Idle(w)
  /\ UNCHANGED <<runner, faults, lostAcks>>

(* The commit took effect, but its acknowledgement is lost: the worker     *)
(* sees an exception and records a failure.                                *)
SealUnacknowledged(w) ==
  /\ pc[w] = "seal"
  /\ lostAcks < MaxLostAcks /\ lostAcks' = lostAcks + 1
  /\ SetStatus({job[w]}, "succeeded")
  /\ Goto(w, "fail")
  /\ UNCHANGED <<runner, job, seen, faults>>

(* fail_research_evaluation_job reads the row, too, without looking at its *)
(* status; SQLAlchemy leaves the column out of the UPDATE if it was read   *)
(* as "failed" already.                                                    *)
ReadForFail(w) ==
  /\ pc[w] = "fail"
  /\ seen' = [seen EXCEPT ![w] = {job[w]} \cap {i \in Ids : jobs[i].status # "failed"}]
  /\ Goto(w, "record")
  /\ UNCHANGED <<jobs, runner, job, faults, lostAcks>>

RecordFailure(w) ==
  /\ pc[w] = "record"
  /\ SetStatus(seen[w], "failed")
  /\ Idle(w)
  /\ UNCHANGED <<runner, faults, lostAcks>>

(* The process dies, or an exception leaves run_worker: the failure could  *)
(* not be recorded, or the claim's own commit was reported failed.         *)
Crash(w) ==
  /\ pc[w] # "down"
  /\ faults < MaxFaults /\ faults' = faults + 1
  /\ Goto(w, "down")
  /\ job' = [job EXCEPT ![w] = 0]
  /\ seen' = [seen EXCEPT ![w] = {}]
  /\ UNCHANGED <<jobs, runner, lostAcks>>

(* The runner: external.  It knows nothing of the rows, and a run goes on  *)
(* when the worker that started it is gone.                                *)
RunnerEnds(i) ==
  /\ runner[i] = "running"
  /\ \E s \in Terminal : runner' = [runner EXCEPT ![i] = s]
  /\ UNCHANGED <<jobs, pc, job, seen, faults, lostAcks>>

-----------------------------------------------------------------------------
Step(w) ==
  \/ Start(w) \/ ReadActive(w) \/ FailActive(w) \/ Claim(w) \/ Dispatch(w) \/ Poll(w)
  \/ ReadForSeal(w) \/ Seal(w) \/ ReadForFail(w) \/ RecordFailure(w)

Next ==
  \/ \E t \in Targets : Create(t)
  \/ \E i \in Ids : Retry(i) \/ RunnerEnds(i)
  \/ \E w \in Workers : Step(w) \/ PollBreaks(w) \/ SealUnacknowledged(w) \/ Crash(w)

Spec == Init /\ [][Next]_vars

(* Fairness: compose restarts the worker (restart: unless-stopped), its    *)
(* loop never blocks for good, and a run ends, since the task gives its    *)
(* agent and its verifier a time limit.  Nothing is assumed of requests.   *)
Fairness ==
  /\ \A w \in Workers : WF_vars(Step(w))
  /\ WF_vars(\E i \in Ids : RunnerEnds(i))

FairSpec == Spec /\ Fairness

-----------------------------------------------------------------------------
(* Properties.                                                             *)

(* A target has one attempt under way at most, and its attempts are        *)
(* numbered: neither concurrent requests nor workers make two of one.      *)
OneAttemptAtATime ==
  \A i, k \in Ids :
    /\ i # k /\ jobs[i].target = jobs[k].target
    => /\ jobs[i].attempt # jobs[k].attempt
       /\ jobs[i].status \in Terminal \/ jobs[k].status \in Terminal

(* A job is only reported as succeeded over a remote run that succeeded.   *)
SuccessIsReal ==
  \A i \in Ids : jobs[i].status = "succeeded" => runner[i] = "succeeded"

(* Whatever has been retried failed, and no later event makes it a success:*)
(* at most one attempt of a lineage succeeds, and it is the last one.      *)
RetriesFollowFailure ==
  \A i, k \in Ids :
    i < k /\ jobs[i].target = jobs[k].target => jobs[i].status = "failed"

(* A terminal row never changes its status again.                          *)
TerminalIsFinal ==
  [][\A i \in Ids : jobs[i].status \in Terminal => jobs'[i] = jobs[i]]_vars

(* A failed attempt never changes: the retry lineage hangs on it.          *)
FailedStaysFailed ==
  [][\A i \in Ids : jobs[i].status = "failed" => jobs'[i] = jobs[i]]_vars

(* Every job ends, by its worker or by the next one that starts.           *)
EveryJobEnds ==
  \A t \in Targets, a \in 1..AttemptLimit :
    LET IsIn(S) == \E i \in Ids : /\ jobs[i].target = t /\ jobs[i].attempt = a
                                  /\ jobs[i].status \in S
    IN IsIn(Active \cup {"queued"}) ~> IsIn(Terminal)

=============================================================================
