---------------------------- MODULE JobLifecycle ----------------------------
(***************************************************************************)
(* What the job queues promise, whoever serves them: a job is claimed at   *)
(* most once, by one worker identity, which it keeps for ever; its         *)
(* observation log only grows, one entry at a time, and only while the job *)
(* runs; it ends exactly once, and if it succeeds its log is complete.  A  *)
(* job is never put back into the queue: a retry is a new job.             *)
(* WorkerFleet implements this specification (its run checks it, and       *)
(* WorkerFleetProofs proves it).                                           *)
(***************************************************************************)
EXTENDS Naturals

CONSTANTS
  Jobs,        \* the rows of the thirteen queue tables
  WorkerIds,   \* values of OASIS_WORKER_ID
  NoWorker,    \* claimed_by_worker_id IS NULL
  LogLength    \* LogLength[j]: entries a successful run of j has appended

VARIABLES
  status,      \* "absent", "queued", "running", "succeeded" or "failed"
  owner,       \* claimed_by_worker_id
  progress     \* entries appended to the job's log

vars == <<status, owner, progress>>

Terminal == {"succeeded", "failed"}

Init ==
  /\ status = [j \in Jobs |-> "absent"]
  /\ owner = [j \in Jobs |-> NoWorker]
  /\ progress = [j \in Jobs |-> 0]

Enqueue(j) ==
  /\ status[j] = "absent"
  /\ status' = [status EXCEPT ![j] = "queued"]
  /\ UNCHANGED <<owner, progress>>

Claim(j, w) ==
  /\ status[j] = "queued"
  /\ status' = [status EXCEPT ![j] = "running"]
  /\ owner' = [owner EXCEPT ![j] = w]
  /\ UNCHANGED progress

(* A row whose frozen input is invalid is claimed and failed at once.      *)
Reject(j, w) ==
  /\ status[j] = "queued"
  /\ status' = [status EXCEPT ![j] = "failed"]
  /\ owner' = [owner EXCEPT ![j] = w]
  /\ UNCHANGED progress

Append(j) ==
  /\ status[j] = "running"
  /\ progress[j] < LogLength[j]
  /\ progress' = [progress EXCEPT ![j] = @ + 1]
  /\ UNCHANGED <<status, owner>>

Succeed(j) ==
  /\ status[j] = "running"
  /\ progress[j] = LogLength[j]
  /\ status' = [status EXCEPT ![j] = "succeeded"]
  /\ UNCHANGED <<owner, progress>>

(* One UPDATE statement can fail every running job a sweep selects.        *)
Fail(S) ==
  /\ \A j \in S : status[j] = "running"
  /\ status' = [j \in Jobs |-> IF j \in S THEN "failed" ELSE status[j]]
  /\ UNCHANGED <<owner, progress>>

Next ==
  \/ \E j \in Jobs : Enqueue(j) \/ Append(j) \/ Succeed(j)
  \/ \E j \in Jobs, w \in WorkerIds : Claim(j, w) \/ Reject(j, w)
  \/ \E S \in SUBSET Jobs : Fail(S)

Spec == Init /\ [][Next]_vars

=============================================================================
