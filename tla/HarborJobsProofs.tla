--------------------------- MODULE HarborJobsProofs ---------------------------
(***************************************************************************)
(* Proofs about HarborJobs for every set of workers and targets, every     *)
(* limit on attempts, and any number of crashes and lost acknowledgements. *)
(* What holds of a single worker only says so in its assumptions.          *)
(***************************************************************************)
EXTENDS HarborJobs, SequenceTheorems, TLAPS

USE HarborAssumption

Statuses == {"queued", "dispatching"} \cup Terminal
JobRow == [target : Targets, attempt : 1..AttemptLimit, parent : Nat, status : Statuses]
RunStates == {"none", "running"} \cup Terminal

-----------------------------------------------------------------------------
(* Rows.                                                                   *)

(* The table is a function on the row numbers.                             *)
LEMMA RowsType ==
  ASSUME TypeOK
  PROVE  /\ jobs \in Seq(JobRow) /\ Len(jobs) \in Nat
         /\ jobs \in [Ids -> JobRow]
<1>1. jobs \in Seq(JobRow)
  BY DEF TypeOK, JobRow, Statuses
<1> QED
  BY <1>1, LenProperties DEF Ids

(* An UPDATE of the status column touches nothing else.                    *)
LEMMA SetStatusRows ==
  ASSUME TypeOK, NEW S, NEW s \in Statuses, SetStatus(S, s)
  PROVE  /\ jobs' \in Seq(JobRow) /\ Len(jobs') = Len(jobs)
         /\ \A i \in Ids : /\ jobs'[i].target = jobs[i].target
                           /\ jobs'[i].attempt = jobs[i].attempt
                           /\ jobs'[i].parent = jobs[i].parent
                           /\ jobs'[i].status = IF i \in S THEN s ELSE jobs[i].status
<1>1. \A i \in Ids : /\ jobs[i] \in JobRow
                     /\ [jobs[i] EXCEPT !.status = s] \in JobRow
  BY RowsType DEF JobRow
<1>2. jobs' \in [1..Len(jobs) -> JobRow]
  BY <1>1 DEF SetStatus, Ids
<1>3. jobs' \in Seq(JobRow) /\ Len(jobs') = Len(jobs)
  <2>1. jobs' \in Seq(JobRow)
    BY <1>2, RowsType, SeqDef
  <2> QED
    BY <1>2, <2>1, RowsType, LenProperties
<1>4. \A i \in Ids : jobs'[i] = IF i \in S THEN [jobs[i] EXCEPT !.status = s] ELSE jobs[i]
  BY DEF SetStatus
<1>5. \A i \in Ids : /\ jobs'[i].target = jobs[i].target
                     /\ jobs'[i].attempt = jobs[i].attempt
                     /\ jobs'[i].parent = jobs[i].parent
                     /\ jobs'[i].status = IF i \in S THEN s ELSE jobs[i].status
  BY <1>1, <1>4 DEF JobRow
<1> QED
  BY <1>3, <1>5

(* An INSERT appends a row without a remote run and changes no other.      *)
LEMMA InsertRows ==
  ASSUME TypeOK, NEW r \in JobRow, Insert(r)
  PROVE  /\ jobs' \in Seq(JobRow) /\ Len(jobs') = Len(jobs) + 1
         /\ \A i \in Ids : jobs'[i] = jobs[i] /\ runner'[i] = runner[i]
         /\ jobs'[Len(jobs) + 1] = r /\ runner'[Len(jobs) + 1] = "none"
         /\ runner' \in [1..Len(jobs) + 1 -> RunStates]
<1>1. jobs \in Seq(JobRow) /\ Len(jobs) \in Nat
  BY RowsType
<1>2. /\ jobs' \in Seq(JobRow) /\ Len(jobs') = Len(jobs) + 1
      /\ \A i \in Ids : jobs'[i] = jobs[i]
      /\ jobs'[Len(jobs) + 1] = r
  BY <1>1, AppendProperties DEF Insert, Ids
<1>3. runner \in Seq(RunStates) /\ Len(runner) = Len(jobs)
  <2>1. runner \in [1..Len(jobs) -> RunStates]
    BY DEF TypeOK, RunStates, Ids
  <2>2. runner \in Seq(RunStates)
    BY <1>1, <2>1, SeqDef
  <2> QED
    BY <1>1, <2>1, <2>2, LenProperties
<1>4. /\ runner' \in Seq(RunStates) /\ Len(runner') = Len(jobs) + 1
      /\ \A i \in Ids : runner'[i] = runner[i]
      /\ runner'[Len(jobs) + 1] = "none"
  BY <1>3, AppendProperties DEF Insert, Ids, RunStates
<1>5. runner' \in [1..Len(jobs) + 1 -> RunStates]
  BY <1>4, LenProperties
<1> QED
  BY <1>2, <1>4, <1>5

(* The rows the two requests insert.                                       *)
LEMMA InsertedRow ==
  ASSUME TypeOK
  PROVE  /\ \A t \in Targets : Row(t, 1, NoParent) \in JobRow
         /\ \A i \in Ids : jobs[i].attempt < AttemptLimit =>
              Row(jobs[i].target, jobs[i].attempt + 1, i) \in JobRow
<1>1. \A t \in Targets : Row(t, 1, NoParent) \in JobRow
  BY DEF Row, NoParent, JobRow, Statuses
<1>2. ASSUME NEW i \in Ids, jobs[i].attempt < AttemptLimit
      PROVE  Row(jobs[i].target, jobs[i].attempt + 1, i) \in JobRow
  <2>1. jobs[i] \in JobRow /\ i \in Nat
    BY RowsType DEF Ids
  <2>2. jobs[i].target \in Targets /\ jobs[i].attempt + 1 \in 1..AttemptLimit
    BY <1>2, <2>1 DEF JobRow
  <2> QED
    BY <2>1, <2>2 DEF Row, JobRow, Statuses
<1> QED
  BY <1>1, <1>2

-----------------------------------------------------------------------------
(* Type correctness.                                                       *)

(* What a step of a worker may do to the rows: only statuses change, and a *)
(* row that has ended never becomes unfinished again.                      *)
OnlyStatuses ==
  /\ jobs' \in Seq(JobRow) /\ Len(jobs') = Len(jobs)
  /\ \A i \in Ids : /\ jobs'[i].target = jobs[i].target
                    /\ jobs'[i].attempt = jobs[i].attempt
                    /\ jobs'[i].parent = jobs[i].parent
                    /\ jobs[i].status \in Terminal => jobs'[i].status \in Terminal

(* An UPDATE to an end keeps to that.                                      *)
LEMMA EndingOnlyStatuses ==
  ASSUME TypeOK, NEW S, NEW s \in Terminal, SetStatus(S, s)
  PROVE  OnlyStatuses
<1>1. s \in Statuses
  BY DEF Statuses
<1> QED
  BY <1>1, SetStatusRows DEF OnlyStatuses

(* So does the claim, which takes a queued row.                            *)
LEMMA ClaimOnlyStatuses ==
  ASSUME TypeOK, NEW w \in Workers, Claim(w)
  PROVE  OnlyStatuses
<1>1. PICK i \in Ids : jobs[i].status = "queued" /\ SetStatus({i}, "dispatching")
  BY DEF Claim
<1>2. "dispatching" \in Statuses
  BY DEF Statuses
<1>3. \A k \in {i} : jobs[k].status \notin Terminal
  BY <1>1 DEF Terminal
<1> QED
  BY <1>1, <1>2, <1>3, SetStatusRows DEF OnlyStatuses

(* A step that leaves the rows alone keeps to it, too.                     *)
LEMMA SameRowsOnlyStatuses ==
  ASSUME TypeOK, UNCHANGED jobs
  PROVE  OnlyStatuses
  BY RowsType DEF OnlyStatuses

Worker(w) == Step(w) \/ PollBreaks(w) \/ SealUnacknowledged(w) \/ Crash(w)

(* Every step of a worker only changes statuses.                           *)
LEMMA WorkerOnlyStatuses ==
  ASSUME TypeOK, NEW w \in Workers, Worker(w)
  PROVE  OnlyStatuses
<1>1. CASE FailActive(w)
  BY <1>1, EndingOnlyStatuses DEF FailActive, Terminal
<1>2. CASE Claim(w)
  BY <1>2, ClaimOnlyStatuses
<1>3. CASE Seal(w)
  BY <1>3, EndingOnlyStatuses DEF Seal, Terminal
<1>4. CASE SealUnacknowledged(w)
  BY <1>4, EndingOnlyStatuses DEF SealUnacknowledged, Terminal
<1>5. CASE RecordFailure(w)
  BY <1>5, EndingOnlyStatuses DEF RecordFailure, Terminal
<1>6. CASE Start(w) \/ ReadActive(w) \/ Dispatch(w) \/ Poll(w) \/ PollBreaks(w)
           \/ ReadForSeal(w) \/ ReadForFail(w) \/ Crash(w)
  BY <1>6, SameRowsOnlyStatuses
     DEF Start, ReadActive, Dispatch, Poll, PollBreaks, ReadForSeal, ReadForFail, Crash
<1> QED
  BY <1>1, <1>2, <1>3, <1>4, <1>5, <1>6 DEF Worker, Step

(* Every step of a worker keeps the types.                                 *)
LEMMA WorkerTypeOK ==
  ASSUME TypeOK, NEW w \in Workers, Worker(w)
  PROVE  TypeOK'
<1>1. OnlyStatuses
  BY WorkerOnlyStatuses
<1>2. jobs' \in Seq(JobRow) /\ Ids' = Ids /\ Len(jobs') = Len(jobs)
  BY <1>1 DEF OnlyStatuses, Ids
<1>3. /\ runner' \in [Ids -> RunStates] /\ pc' \in [Workers -> PCs]
      /\ job' \in [Workers -> 0..Len(jobs)] /\ seen' \in [Workers -> SUBSET Ids]
      /\ faults' \in 0..MaxFaults /\ lostAcks' \in 0..MaxLostAcks
  <2> USE DEF TypeOK, RunStates, PCs, Goto, Idle, Ids, Terminal
  <2>0. Len(jobs) \in Nat
    BY RowsType
  <2>1. CASE Start(w)
    BY <2>1 DEF Start
  <2>2. CASE ReadActive(w)
    BY <2>2 DEF ReadActive
  <2>3. CASE FailActive(w)
    BY <2>3 DEF FailActive
  <2>4. CASE Claim(w)
    BY <2>4, <2>0 DEF Claim
  <2>5. CASE Dispatch(w)
    BY <2>5 DEF Dispatch
  <2>6. CASE Poll(w) \/ PollBreaks(w)
    BY <2>6 DEF Poll, PollBreaks
  <2>7. CASE ReadForSeal(w)
    BY <2>7 DEF ReadForSeal
  <2>8. CASE Seal(w)
    BY <2>8, <2>0 DEF Seal
  <2>9. CASE SealUnacknowledged(w)
    BY <2>9 DEF SealUnacknowledged
  <2>10. CASE ReadForFail(w)
    BY <2>10 DEF ReadForFail
  <2>11. CASE RecordFailure(w)
    BY <2>11, <2>0 DEF RecordFailure
  <2>12. CASE Crash(w)
    BY <2>12, <2>0 DEF Crash
  <2> QED
    BY <2>1, <2>2, <2>3, <2>4, <2>5, <2>6, <2>7, <2>8, <2>9, <2>10, <2>11, <2>12
       DEF Worker, Step
<1> QED
  BY <1>2, <1>3 DEF TypeOK, JobRow, Statuses, RunStates

(* Creating or retrying a job keeps the types.                             *)
LEMMA InsertTypeOK ==
  ASSUME TypeOK, NEW r \in JobRow, Insert(r), UNCHANGED <<pc, job, seen, faults, lostAcks>>
  PROVE  TypeOK'
<1>1. /\ jobs' \in Seq(JobRow) /\ Len(jobs') = Len(jobs) + 1 /\ Len(jobs) \in Nat
      /\ runner' \in [1..Len(jobs) + 1 -> RunStates]
  BY InsertRows, RowsType
<1>2. Ids' = 1..Len(jobs) + 1 /\ Ids \subseteq Ids' /\ 0..Len(jobs) \subseteq 0..Len(jobs')
  BY <1>1 DEF Ids
<1>3. job \in [Workers -> 0..Len(jobs')] /\ seen \in [Workers -> SUBSET Ids']
  BY <1>2 DEF TypeOK
<1> QED
  BY <1>1, <1>2, <1>3 DEF TypeOK, JobRow, Statuses, RunStates

(* Every step keeps the types.                                             *)
LEMMA NextTypeOK == TypeOK /\ [Next]_vars => TypeOK'
<1> SUFFICES ASSUME TypeOK, [Next]_vars PROVE TypeOK'
  OBVIOUS
<1>1. ASSUME NEW t \in Targets, Create(t) PROVE TypeOK'
  BY <1>1, InsertedRow, InsertTypeOK DEF Create
<1>2. ASSUME NEW i \in Ids, Retry(i) PROVE TypeOK'
  BY <1>2, InsertedRow, InsertTypeOK DEF Retry
<1>3. ASSUME NEW i \in Ids, RunnerEnds(i) PROVE TypeOK'
  BY <1>3 DEF RunnerEnds, TypeOK, Ids
<1>4. ASSUME NEW w \in Workers, Worker(w) PROVE TypeOK'
  BY <1>4, WorkerTypeOK
<1>5. CASE UNCHANGED vars
  BY <1>5 DEF vars, TypeOK, Ids
<1> QED
  BY <1>1, <1>2, <1>3, <1>4, <1>5 DEF Next, Worker

(* In the beginning there is no row.                                       *)
LEMMA InitTypeOK == Init => TypeOK
<1> SUFFICES ASSUME Init PROVE TypeOK
  OBVIOUS
<1>1. jobs = <<>> /\ jobs \in Seq(JobRow) /\ Len(jobs) = 0
  BY EmptySeq DEF Init
<1>2. runner \in [1..0 -> RunStates]
  <2>1. runner \in Seq(RunStates) /\ Len(runner) = 0
    BY EmptySeq DEF Init
  <2> QED
    BY <2>1, LenProperties
<1> QED
  BY <1>1, <1>2 DEF Init, TypeOK, Ids, PCs, JobRow, Statuses, RunStates

(* Rows, remote runs and workers always have the states the code gives     *)
(* them, and no attempt exceeds the limit.                                 *)
THEOREM HarborTypes == Spec => []TypeOK
  BY InitTypeOK, NextTypeOK, PTL DEF Spec

-----------------------------------------------------------------------------
(* The lineage of a target.                                                *)

(* Why OneAttemptAtATime holds: the attempts of a target are numbered 1, 2,*)
(* ... without a gap, each after the first has a parent with the number    *)
(* before its own, and all but the last have ended.                        *)
Numbered ==
  \A i, k \in Ids :
    i # k /\ jobs[i].target = jobs[k].target => jobs[i].attempt # jobs[k].attempt
Parented ==
  \A k \in Ids :
    jobs[k].attempt > 1 =>
      \E i \in Ids : /\ jobs[k].parent = i /\ jobs[i].target = jobs[k].target
                     /\ jobs[k].attempt = jobs[i].attempt + 1
WithoutGap ==
  \A k \in Ids : \A a \in 1..jobs[k].attempt :
    \E i \in Ids : jobs[i].target = jobs[k].target /\ jobs[i].attempt = a
EarlierEnded ==
  \A i, k \in Ids :
    jobs[i].target = jobs[k].target /\ jobs[i].attempt < jobs[k].attempt
    => jobs[i].status \in Terminal
Lineage == Numbered /\ Parented /\ WithoutGap /\ EarlierEnded

(* Numbers of attempts are numbers.                                        *)
LEMMA AttemptType ==
  ASSUME TypeOK
  PROVE  \A i \in Ids : jobs[i].attempt \in 1..AttemptLimit /\ jobs[i].attempt \in Nat
  BY RowsType DEF JobRow

(* It implies that at most one attempt of a target is under way.           *)
LEMMA LineageGivesOne == TypeOK /\ Lineage => OneAttemptAtATime
  BY AttemptType DEF Lineage, Numbered, EarlierEnded, OneAttemptAtATime

(* Statuses that change, but never from an end to anything else, keep it.  *)
LEMMA OnlyStatusesLineage ==
  ASSUME TypeOK, Lineage, OnlyStatuses
  PROVE  Lineage'
<1>1. /\ Ids' = Ids
      /\ \A i \in Ids : /\ jobs'[i].target = jobs[i].target
                        /\ jobs'[i].attempt = jobs[i].attempt
                        /\ jobs'[i].parent = jobs[i].parent
                        /\ jobs[i].status \in Terminal => jobs'[i].status \in Terminal
  BY DEF OnlyStatuses, Ids
<1>2. Numbered'
  BY <1>1 DEF Lineage, Numbered
<1>3. Parented'
  BY <1>1 DEF Lineage, Parented
<1>4. WithoutGap'
  BY <1>1 DEF Lineage, WithoutGap
<1>5. EarlierEnded'
  <2> SUFFICES ASSUME NEW i \in Ids, NEW k \in Ids, jobs[i].target = jobs[k].target,
                      jobs[i].attempt < jobs[k].attempt
               PROVE  jobs'[i].status \in Terminal
    BY <1>1 DEF EarlierEnded, Terminal
  <2> QED
    BY <1>1 DEF Lineage, EarlierEnded
<1> QED
  BY <1>2, <1>3, <1>4, <1>5 DEF Lineage

(* The new row of a request continues the lineage: where the target has    *)
(* a row with each lower number, all of them ended, and none with its own. *)
LEMMA InsertLineage ==
  ASSUME TypeOK, Lineage, NEW t \in Targets, NEW a \in 1..AttemptLimit, NEW p \in Nat,
         Row(t, a, p) \in JobRow, Insert(Row(t, a, p)),
         \A i \in Ids : jobs[i].target = t => /\ jobs[i].attempt < a
                                             /\ jobs[i].status \in Terminal,
         a > 1 => p \in Ids /\ jobs[p].target = t /\ a = jobs[p].attempt + 1
  PROVE  Lineage'
<1> DEFINE new == Len(jobs) + 1
<1>1. /\ Len(jobs) \in Nat /\ Ids' = Ids \cup {new} /\ new \notin Ids
      /\ \A i \in Ids : jobs'[i] = jobs[i]
  BY InsertRows, RowsType DEF Ids
<1>2. /\ jobs'[new].target = t /\ jobs'[new].attempt = a /\ jobs'[new].parent = p
      /\ jobs'[new].status = "queued"
  BY InsertRows DEF Row
<1>3. \A i \in Ids : jobs[i].attempt \in Nat
  BY AttemptType
<1> HIDE DEF new
<1>4. Numbered'
  BY <1>1, <1>2, <1>3 DEF Lineage, Numbered
<1>5. Parented'
  BY <1>1, <1>2 DEF Lineage, Parented
<1>6. WithoutGap'
  <2>1. ASSUME NEW b \in 1..a
        PROVE  \E i \in Ids' : jobs'[i].target = t /\ jobs'[i].attempt = b
    <3>1. CASE b = a
      BY <1>1, <1>2, <3>1
    <3>2. CASE b < a
      <4>1. p \in Ids /\ jobs[p].target = t /\ b \in 1..jobs[p].attempt
        BY <3>2, <1>3
      <4>2. \E i \in Ids : jobs[i].target = jobs[p].target /\ jobs[i].attempt = b
        BY <4>1 DEF Lineage, WithoutGap
      <4> QED
        BY <4>1, <4>2, <1>1
    <3> QED
      BY <3>1, <3>2
  <2>2. ASSUME NEW k \in Ids, NEW b \in 1..jobs[k].attempt
        PROVE  \E i \in Ids' : jobs'[i].target = jobs[k].target /\ jobs'[i].attempt = b
    BY <1>1 DEF Lineage, WithoutGap
  <2> QED
    BY <2>1, <2>2, <1>1, <1>2 DEF WithoutGap
<1>7. EarlierEnded'
  <2> SUFFICES ASSUME NEW i \in Ids', NEW k \in Ids', jobs'[i].target = jobs'[k].target,
                      jobs'[i].attempt < jobs'[k].attempt
               PROVE  jobs'[i].status \in Terminal
    BY DEF EarlierEnded
  <2>1. CASE i \in Ids /\ k \in Ids
    BY <2>1, <1>1 DEF Lineage, EarlierEnded
  <2>2. CASE i \in Ids /\ k = new
    BY <2>2, <1>1, <1>2
  <2>3. CASE i = new
    BY <2>3, <1>1, <1>2, <1>3
  <2> QED
    BY <1>1, <2>1, <2>2, <2>3
<1> QED
  BY <1>4, <1>5, <1>6, <1>7 DEF Lineage

(* A target without a first attempt has no attempt.                        *)
LEMMA CreateLineage ==
  ASSUME TypeOK, Lineage, NEW t \in Targets, Create(t)
  PROVE  Lineage'
<1>1. \A i \in Ids : jobs[i].target # t
  BY AttemptType DEF Create, Lineage, WithoutGap
<1>2. Row(t, 1, NoParent) \in JobRow /\ Insert(Row(t, 1, NoParent))
  BY InsertedRow DEF Create
<1> QED
  BY <1>1, <1>2, InsertLineage DEF NoParent

(* A failed attempt without a child is the last of its target, and every   *)
(* attempt before it has ended.                                            *)
LEMMA RetriedIsLast ==
  ASSUME TypeOK, Lineage, NEW i \in Ids, Retry(i), NEW k \in Ids,
         jobs[k].target = jobs[i].target
  PROVE  jobs[k].attempt < jobs[i].attempt + 1 /\ jobs[k].status \in Terminal
<1>1. \A c \in Ids : jobs[c].attempt \in Nat /\ jobs[c].attempt >= 1
  BY AttemptType
<1>2. jobs[k].attempt < jobs[i].attempt + 1
  <2> SUFFICES ASSUME jobs[k].attempt >= jobs[i].attempt + 1 PROVE FALSE
    BY <1>1
  <2>1. PICK c \in Ids : /\ jobs[c].target = jobs[i].target
                        /\ jobs[c].attempt = jobs[i].attempt + 1
    BY <1>1 DEF Lineage, WithoutGap
  <2>2. PICK q \in Ids : /\ jobs[c].parent = q /\ jobs[q].target = jobs[c].target
                        /\ jobs[c].attempt = jobs[q].attempt + 1
    BY <1>1, <2>1 DEF Lineage, Parented
  <2>3. q = i
    BY <1>1, <2>1, <2>2 DEF Lineage, Numbered
  <2> QED
    BY <2>2, <2>3 DEF Retry
<1>3. jobs[k].status \in Terminal
  <2>1. CASE k = i
    BY <2>1 DEF Retry, Terminal
  <2>2. CASE k # i
    BY <1>1, <1>2, <2>2 DEF Lineage, Numbered, EarlierEnded
  <2> QED
    BY <2>1, <2>2
<1> QED
  BY <1>2, <1>3

(* A retry keeps the lineage.                                              *)
LEMMA RetryLineage ==
  ASSUME TypeOK, Lineage, NEW i \in Ids, Retry(i)
  PROVE  Lineage'
<1> DEFINE a == jobs[i].attempt + 1
<1>1. /\ jobs[i].target \in Targets /\ a \in 1..AttemptLimit /\ i \in Nat
      /\ jobs[i].attempt \in Nat
  BY RowsType, AttemptType DEF Retry, JobRow, Ids
<1>2. Row(jobs[i].target, a, i) \in JobRow /\ Insert(Row(jobs[i].target, a, i))
  BY InsertedRow DEF Retry
<1>3. \A k \in Ids : jobs[k].target = jobs[i].target =>
        jobs[k].attempt < a /\ jobs[k].status \in Terminal
  BY RetriedIsLast
<1> QED
  BY <1>1, <1>2, <1>3, InsertLineage

(* Every behaviour keeps the lineages.                                     *)
LEMMA Lineages == Spec => []Lineage
<1>1. Init => Lineage
  BY EmptySeq DEF Init, Lineage, Numbered, Parented, WithoutGap, EarlierEnded, Ids
<1>2. TypeOK /\ Lineage /\ [Next]_vars => Lineage'
  <2> SUFFICES ASSUME TypeOK, Lineage, [Next]_vars PROVE Lineage'
    OBVIOUS
  <2>1. CASE \E t \in Targets : Create(t)
    BY <2>1, CreateLineage
  <2>2. CASE \E i \in Ids : Retry(i)
    BY <2>2, RetryLineage
  <2>3. CASE (\E i \in Ids : RunnerEnds(i)) \/ UNCHANGED vars
    BY <2>3, SameRowsOnlyStatuses, OnlyStatusesLineage DEF RunnerEnds, vars
  <2>4. CASE \E w \in Workers : Worker(w)
    BY <2>4, WorkerOnlyStatuses, OnlyStatusesLineage
  <2> QED
    BY <2>1, <2>2, <2>3, <2>4 DEF Next, Worker
<1> QED
  BY <1>1, <1>2, HarborTypes, PTL DEF Spec

(* Whatever requests, workers, crashes and lost acknowledgements do, a     *)
(* target has at most one attempt under way, and no two attempts have one  *)
(* number.                                                                 *)
THEOREM OneAttemptTheorem == Spec => []OneAttemptAtATime
  BY Lineages, HarborTypes, LineageGivesOne, PTL

-----------------------------------------------------------------------------
(* Success.                                                                *)

InHand == {"dispatch", "poll", "complete", "seal", "fail", "record"}

(* Why SuccessIsReal holds: a row in a worker's hand is in no other's, and *)
(* it has no remote run before the worker sends it, so nobody replaces a   *)
(* run that has ended by a new one.                                        *)
HasRow == \A w \in Workers : pc[w] \in InHand => job[w] # 0
OneHand == \A v, w \in Workers : job[v] # 0 /\ job[v] = job[w] => v = w
Claimed == \A w \in Workers : job[w] # 0 => jobs[job[w]].status # "queued"
NotSent ==
  /\ \A i \in Ids : jobs[i].status = "queued" => runner[i] = "none"
  /\ \A w \in Workers : pc[w] = "dispatch" => runner[job[w]] = "none"
SawSuccess == \A w \in Workers : pc[w] \in {"complete", "seal"} => runner[job[w]] = "succeeded"
Sealing == HasRow /\ OneHand /\ Claimed /\ NotSent /\ SawSuccess /\ SuccessIsReal

(* The rows in hand exist.                                                 *)
LEMMA HandType ==
  ASSUME TypeOK
  PROVE  \A w \in Workers : job[w] # 0 => job[w] \in Ids
  BY RowsType DEF TypeOK, Ids

(* A step that writes no status, but may drop the row in hand or move on   *)
(* in ways that claim nothing new of it.                                   *)
LEMMA QuietSealing ==
  ASSUME TypeOK, Sealing, UNCHANGED <<jobs, runner>>, NEW w \in Workers,
         job' = job \/ job' = [job EXCEPT ![w] = 0],
         \E label \in PCs :
           /\ pc' = [pc EXCEPT ![w] = label]
           /\ label \in InHand => job' = job /\ pc[w] \in InHand
           /\ label # "dispatch"
           /\ label \in {"complete", "seal"} => runner[job[w]] = "succeeded"
  PROVE  Sealing'
<1> USE DEF Sealing
<1>1. Ids' = Ids
  BY DEF Ids
<1>2. PICK label \in PCs :
           /\ pc' = [pc EXCEPT ![w] = label]
           /\ label \in InHand => job' = job /\ pc[w] \in InHand
           /\ label # "dispatch"
           /\ label \in {"complete", "seal"} => runner[job[w]] = "succeeded"
  OBVIOUS
<1>3. \A v \in Workers : pc'[v] = IF v = w THEN label ELSE pc[v]
  BY <1>2 DEF TypeOK
<1>4. \A v \in Workers : job'[v] = job[v] \/ (v = w /\ job'[v] = 0)
  <2>1. CASE job' = job
    BY <2>1
  <2>2. CASE job' = [job EXCEPT ![w] = 0]
    BY <2>2 DEF TypeOK
  <2> QED
    BY <2>1, <2>2
<1>5. \A v \in Workers : pc'[v] \in InHand => job'[v] = job[v] /\ pc[v] \in InHand
  BY <1>2, <1>3, <1>4
<1>6. HasRow'
  BY <1>5 DEF HasRow
<1>7. OneHand'
  BY <1>4 DEF OneHand
<1>8. Claimed'
  BY <1>4 DEF Claimed
<1>9. NotSent'
  BY <1>1, <1>2, <1>3, <1>5 DEF NotSent, InHand
<1>10. SawSuccess'
  BY <1>2, <1>3, <1>5 DEF SawSuccess, InHand
<1>11. SuccessIsReal'
  BY <1>1 DEF SuccessIsReal
<1> QED
  BY <1>6, <1>7, <1>8, <1>9, <1>10, <1>11

(* Claiming a queued row: nobody else has it, and it has no remote run.    *)
LEMMA ClaimSealing ==
  ASSUME TypeOK, Sealing, NEW w \in Workers, Claim(w)
  PROVE  Sealing'
<1> USE DEF Sealing
<1>1. PICK i \in Ids : /\ jobs[i].status = "queued" /\ job' = [job EXCEPT ![w] = i]
                      /\ SetStatus({i}, "dispatching")
  BY DEF Claim
<1>2. /\ Ids' = Ids
      /\ \A k \in Ids : jobs'[k].status = IF k = i THEN "dispatching" ELSE jobs[k].status
  BY <1>1, SetStatusRows DEF Statuses, Ids
<1>3. /\ \A v \in Workers : pc'[v] = IF v = w THEN "dispatch" ELSE pc[v]
      /\ \A v \in Workers : job'[v] = IF v = w THEN i ELSE job[v]
      /\ runner' = runner
  BY <1>1 DEF Claim, Goto, TypeOK
<1>4. i # 0 /\ runner[i] = "none"
  BY <1>1, RowsType DEF NotSent, Ids
<1>5. \A v \in Workers : job[v] # i
  BY <1>1, <1>4 DEF Claimed
<1>6. HasRow'
  BY <1>3, <1>4 DEF HasRow
<1>7. OneHand'
  BY <1>3, <1>5 DEF OneHand
<1>8. Claimed'
  BY <1>1, <1>2, <1>3, HandType DEF Claimed
<1>9. NotSent'
  BY <1>2, <1>3, <1>4 DEF NotSent
<1>10. SawSuccess'
  BY <1>3 DEF SawSuccess
<1>11. SuccessIsReal'
  BY <1>2, <1>3 DEF SuccessIsReal
<1> QED
  BY <1>6, <1>7, <1>8, <1>9, <1>10, <1>11

(* A POST, or the end of a remote run, is about a row nobody takes for a   *)
(* success yet.                                                            *)
LEMMA DispatchSealing ==
  ASSUME TypeOK, Sealing, NEW w \in Workers, Dispatch(w)
  PROVE  Sealing'
<1> USE DEF Sealing
<1>1. /\ pc[w] = "dispatch" /\ job[w] # 0 /\ job[w] \in Ids /\ runner[job[w]] = "none"
      /\ UNCHANGED <<jobs, job>> /\ Ids' = Ids
  BY HandType DEF Dispatch, HasRow, InHand, NotSent, Ids
<1>2. PICK label \in {"poll", "fail"} : pc' = [pc EXCEPT ![w] = label]
  BY DEF Dispatch, Goto
<1>3. \A v \in Workers : pc'[v] = IF v = w THEN label ELSE pc[v]
  BY <1>2 DEF TypeOK
<1>4. \A k \in Ids : k # job[w] => runner'[k] = runner[k]
  BY DEF Dispatch, TypeOK
<1>5. \A v \in Workers : v # w /\ job[v] # 0 => job[v] \in Ids /\ job[v] # job[w]
  BY HandType DEF OneHand
<1>6. HasRow' /\ OneHand' /\ Claimed'
  BY <1>1, <1>3 DEF HasRow, OneHand, Claimed, InHand
<1>7. NotSent'
  <2>1. \A i \in Ids : jobs'[i].status = "queued" => runner'[i] = "none"
    BY <1>1, <1>4 DEF NotSent, Claimed
  <2>2. \A v \in Workers : pc'[v] = "dispatch" => runner'[job'[v]] = "none"
    BY <1>1, <1>3, <1>4, <1>5 DEF NotSent, HasRow, InHand
  <2> QED
    BY <2>1, <2>2, <1>1 DEF NotSent
<1>8. SawSuccess'
  BY <1>1, <1>3, <1>4, <1>5 DEF SawSuccess, HasRow, InHand
<1>9. SuccessIsReal'
  BY <1>1, <1>4 DEF SuccessIsReal
<1> QED
  BY <1>6, <1>7, <1>8, <1>9

(* The same for the end of a remote run: only a run under way ends.        *)
LEMMA RunnerSealing ==
  ASSUME TypeOK, Sealing, NEW i \in Ids, RunnerEnds(i)
  PROVE  Sealing'
<1> USE DEF Sealing
<1>1. UNCHANGED <<jobs, pc, job>> /\ Ids' = Ids
  BY DEF RunnerEnds, Ids
<1>2. \A k \in Ids : runner[k] # "running" => runner'[k] = runner[k]
  BY DEF RunnerEnds, TypeOK
<1>3. \A w \in Workers : pc[w] \in InHand => job[w] \in Ids
  BY HandType DEF HasRow
<1>4. HasRow' /\ OneHand' /\ Claimed'
  BY <1>1 DEF HasRow, OneHand, Claimed
<1>5. NotSent' /\ SawSuccess' /\ SuccessIsReal'
  BY <1>1, <1>2, <1>3 DEF NotSent, SawSuccess, SuccessIsReal, InHand
<1> QED
  BY <1>4, <1>5

(* An UPDATE to an end: a success is only written over a run that          *)
(* succeeded, and the worker goes on as in a quiet step.                   *)
LEMMA EndSealing ==
  ASSUME TypeOK, Sealing, NEW w \in Workers, NEW S, NEW s \in Terminal, SetStatus(S, s),
         runner' = runner,
         s = "succeeded" => \A i \in S : runner[i] = "succeeded",
         \/ job' = job /\ pc' = [pc EXCEPT ![w] = "fail"] /\ pc[w] \in InHand
         \/ /\ job' = job \/ job' = [job EXCEPT ![w] = 0]
            /\ pc' = [pc EXCEPT ![w] = "idle"]
  PROVE  Sealing'
<1> USE DEF Sealing
<1>1. /\ Ids' = Ids
      /\ \A i \in Ids : jobs'[i].status = IF i \in S THEN s ELSE jobs[i].status
  BY SetStatusRows DEF Statuses, Ids
<1>2. \A v \in Workers : job'[v] = job[v] \/ (v = w /\ job'[v] = 0)
  <2>1. CASE job' = job
    BY <2>1
  <2>2. CASE job' = [job EXCEPT ![w] = 0]
    BY <2>2 DEF TypeOK
  <2> QED
    BY <2>1, <2>2
<1>3. \A v \in Workers : pc'[v] \in InHand => job'[v] = job[v] /\ pc[v] \in InHand
  BY DEF TypeOK, InHand
<1>4. \A v \in Workers : pc'[v] \in {"dispatch", "complete", "seal"} => pc'[v] = pc[v]
  BY DEF TypeOK
<1>5. HasRow' /\ OneHand'
  BY <1>2, <1>3 DEF HasRow, OneHand
<1>6. Claimed'
  BY <1>1, <1>2, HandType DEF Claimed, Terminal
<1>7. NotSent'
  BY <1>1, <1>3, <1>4 DEF NotSent, InHand, Terminal
<1>8. SawSuccess'
  BY <1>3, <1>4 DEF SawSuccess, InHand
<1>9. SuccessIsReal'
  BY <1>1 DEF SuccessIsReal
<1> QED
  BY <1>5, <1>6, <1>7, <1>8, <1>9

(* A new row is in nobody's hand and has no remote run.                    *)
LEMMA InsertSealing ==
  ASSUME TypeOK, Sealing, NEW r \in JobRow, r.status = "queued", Insert(r), UNCHANGED <<pc, job>>
  PROVE  Sealing'
<1> USE DEF Sealing
<1> DEFINE new == Len(jobs) + 1
<1>1. /\ Ids' = Ids \cup {new}
      /\ \A i \in Ids : jobs'[i] = jobs[i] /\ runner'[i] = runner[i]
      /\ jobs'[new] = r /\ runner'[new] = "none"
  BY InsertRows, RowsType DEF Ids
<1> HIDE DEF new
<1>2. \A w \in Workers : job[w] # 0 => job[w] \in Ids
  BY HandType
<1>3. HasRow' /\ OneHand'
  BY DEF HasRow, OneHand
<1>4. Claimed'
  BY <1>1, <1>2 DEF Claimed
<1>5. NotSent'
  BY <1>1, <1>2 DEF NotSent, HasRow, InHand
<1>6. SawSuccess'
  BY <1>1, <1>2 DEF SawSuccess, HasRow, InHand
<1>7. SuccessIsReal'
  BY <1>1 DEF SuccessIsReal
<1> QED
  BY <1>3, <1>4, <1>5, <1>6, <1>7

(* Every step of a worker keeps it.                                        *)
LEMMA WorkerSealing ==
  ASSUME TypeOK, Sealing, NEW w \in Workers, Worker(w)
  PROVE  Sealing'
<1>1. CASE Start(w)
  BY <1>1, QuietSealing DEF Start, Goto, PCs, InHand
<1>2. CASE ReadActive(w)
  BY <1>2, QuietSealing DEF ReadActive, Goto, PCs, InHand
<1>3. CASE FailActive(w)
  BY <1>3, EndSealing DEF FailActive, Goto, Terminal
<1>4. CASE Claim(w)
  BY <1>4, ClaimSealing
<1>5. CASE Dispatch(w)
  BY <1>5, DispatchSealing
<1>6. CASE Poll(w)
  BY <1>6, QuietSealing DEF Poll, Goto, PCs, InHand
<1>7. CASE PollBreaks(w)
  BY <1>7, QuietSealing DEF PollBreaks, Goto, PCs, InHand
<1>8. CASE ReadForSeal(w)
  <2>1. pc[w] = "complete" /\ runner[job[w]] = "succeeded"
    BY <1>8 DEF ReadForSeal, Sealing, SawSuccess
  <2> QED
    BY <1>8, <2>1, QuietSealing DEF ReadForSeal, Goto, PCs, InHand
<1>9. CASE Seal(w) \/ SealUnacknowledged(w)
  <2>1. pc[w] = "seal" /\ SetStatus({job[w]}, "succeeded") /\ runner' = runner
    BY <1>9 DEF Seal, SealUnacknowledged
  <2>2. \A i \in {job[w]} : runner[i] = "succeeded"
    BY <2>1 DEF Sealing, SawSuccess
  <2>3. CASE Seal(w)
    BY <2>1, <2>2, <2>3, EndSealing DEF Seal, Idle, Goto, Terminal
  <2>4. CASE SealUnacknowledged(w)
    BY <2>1, <2>2, <2>4, EndSealing DEF SealUnacknowledged, Goto, Terminal, InHand
  <2> QED
    BY <1>9, <2>3, <2>4
<1>10. CASE ReadForFail(w)
  BY <1>10, QuietSealing DEF ReadForFail, Goto, PCs, InHand
<1>11. CASE RecordFailure(w)
  BY <1>11, EndSealing DEF RecordFailure, Idle, Goto, Terminal
<1>12. CASE Crash(w)
  BY <1>12, QuietSealing DEF Crash, Goto, PCs, InHand
<1> QED
  BY <1>1, <1>2, <1>3, <1>4, <1>5, <1>6, <1>7, <1>8, <1>9, <1>10, <1>11, <1>12
     DEF Worker, Step

(* However many workers overlap, and whatever they overwrite, a job that   *)
(* is reported as succeeded had a remote run that succeeded.               *)
THEOREM SuccessTheorem == Spec => []SuccessIsReal
<1>1. Init => Sealing
  BY EmptySeq DEF Init, Sealing, HasRow, OneHand, Claimed, NotSent, SawSuccess,
                  SuccessIsReal, InHand, Ids
<1>2. TypeOK /\ Sealing /\ [Next]_vars => Sealing'
  <2> SUFFICES ASSUME TypeOK, Sealing, [Next]_vars PROVE Sealing'
    OBVIOUS
  <2>1. ASSUME NEW t \in Targets, Create(t) PROVE Sealing'
    BY <2>1, InsertedRow, InsertSealing DEF Create, Row
  <2>2. ASSUME NEW i \in Ids, Retry(i) PROVE Sealing'
    BY <2>2, InsertedRow, InsertSealing DEF Retry, Row
  <2>3. ASSUME NEW i \in Ids, RunnerEnds(i) PROVE Sealing'
    BY <2>3, RunnerSealing
  <2>4. ASSUME NEW w \in Workers, Worker(w) PROVE Sealing'
    BY <2>4, WorkerSealing
  <2>5. CASE UNCHANGED vars
    BY <2>5 DEF vars, Sealing, HasRow, OneHand, Claimed, NotSent, SawSuccess, SuccessIsReal, Ids
  <2> QED
    BY <2>1, <2>2, <2>3, <2>4, <2>5 DEF Next, Worker
<1>3. Sealing => SuccessIsReal
  BY DEF Sealing
<1> QED
  BY <1>1, <1>2, <1>3, HarborTypes, PTL DEF Spec

-----------------------------------------------------------------------------
(* One worker, as compose deploys it, whose commits are acknowledged.      *)
Alone == (\A v, w \in Workers : v = w) /\ MaxLostAcks = 0

(* What it is about to overwrite has not ended: nobody else writes what    *)
(* it has read.                                                            *)
Unfinished(i) == jobs[i].status = "dispatching"
FreshReads ==
  \A w \in Workers :
    /\ pc[w] \in InHand => job[w] # 0 /\ Unfinished(job[w])
    /\ pc[w] = "sweep" => \A i \in seen[w] : Unfinished(i)
    /\ pc[w] = "record" => seen[w] \subseteq {job[w]}

RowsThatEndedStay == \A i \in Ids : jobs[i].status \in Terminal => jobs'[i] = jobs[i]

(* Writing only unfinished rows leaves those that ended alone.             *)
LEMMA WriteUnfinished ==
  ASSUME NEW S, NEW s, SetStatus(S, s), \A i \in S : jobs[i].status \notin Terminal
  PROVE  RowsThatEndedStay
  BY DEF SetStatus, RowsThatEndedStay

(* The only worker's writes are of that kind.                              *)
LEMMA WorkerWrites ==
  ASSUME TypeOK, Alone, FreshReads, NEW w \in Workers, Worker(w)
  PROVE  RowsThatEndedStay
<1>1. CASE FailActive(w)
  BY <1>1, WriteUnfinished DEF FailActive, FreshReads, Unfinished, Terminal
<1>2. CASE Claim(w)
  <2>1. PICK i \in Ids : jobs[i].status = "queued" /\ SetStatus({i}, "dispatching")
    BY <1>2 DEF Claim
  <2> QED
    BY <2>1, WriteUnfinished DEF Terminal
<1>3. CASE Seal(w)
  BY <1>3, WriteUnfinished DEF Seal, FreshReads, Unfinished, InHand, Terminal
<1>4. ~SealUnacknowledged(w)
  BY DEF SealUnacknowledged, Alone, TypeOK
<1>5. CASE RecordFailure(w)
  BY <1>5, WriteUnfinished DEF RecordFailure, FreshReads, Unfinished, InHand, Terminal
<1>6. CASE UNCHANGED jobs
  BY <1>6 DEF RowsThatEndedStay
<1> QED
  BY <1>1, <1>2, <1>3, <1>4, <1>5, <1>6
     DEF Worker, Step, Start, ReadActive, Dispatch, Poll, PollBreaks, ReadForSeal,
         ReadForFail, Crash

(* The only worker's steps leave its reads fresh.                          *)
LEMMA WorkerFresh ==
  ASSUME TypeOK, Alone, FreshReads, NEW w \in Workers, Worker(w)
  PROVE  FreshReads'
<1> USE DEF Goto, Idle, TypeOK
<1>1. \A v \in Workers : v = w
  BY DEF Alone
<1> SUFFICES /\ pc'[w] \in InHand => job'[w] # 0 /\ Unfinished(job[w])'
             /\ pc'[w] = "sweep" => \A i \in seen'[w] : Unfinished(i)'
             /\ pc'[w] = "record" => seen'[w] \subseteq {job'[w]}
  BY <1>1 DEF FreshReads
<1>2. CASE Start(w) \/ FailActive(w) \/ Seal(w) \/ RecordFailure(w) \/ Crash(w)
  BY <1>2 DEF Start, FailActive, Seal, RecordFailure, Crash, InHand
<1>3. CASE ReadActive(w)
  <2>1. \A i \in Ids : jobs[i].status \in Active => Unfinished(i)
    BY RowsType DEF JobRow, Statuses, Active, Terminal, Unfinished
  <2>2. /\ seen'[w] = {i \in Ids : jobs[i].status \in Active} /\ jobs' = jobs
        /\ pc'[w] \in {"idle", "sweep"}
    BY <1>3 DEF ReadActive
  <2> QED
    BY <2>1, <2>2 DEF InHand, Unfinished
<1>4. CASE Claim(w)
  <2>1. PICK i \in Ids : SetStatus({i}, "dispatching") /\ job' = [job EXCEPT ![w] = i]
    BY <1>4 DEF Claim
  <2>2. i # 0 /\ job'[w] = i
    BY <2>1, RowsType DEF Ids
  <2>3. "dispatching" \in Statuses
    BY DEF Statuses
  <2>4. jobs'[i].status = "dispatching"
    BY <2>1, <2>3, SetStatusRows
  <2>5. pc'[w] = "dispatch"
    BY <1>4 DEF Claim
  <2> QED
    BY <2>2, <2>4, <2>5 DEF Unfinished
<1>5. CASE Dispatch(w) \/ Poll(w) \/ PollBreaks(w)
  BY <1>5 DEF Dispatch, Poll, PollBreaks, InHand, FreshReads, Unfinished
<1>6. CASE ReadForSeal(w)
  BY <1>6 DEF ReadForSeal, InHand, FreshReads, Unfinished
<1>7. CASE ReadForFail(w)
  BY <1>7 DEF ReadForFail, InHand, FreshReads, Unfinished
<1>8. ~SealUnacknowledged(w)
  BY DEF SealUnacknowledged, Alone
<1> QED
  BY <1>2, <1>3, <1>4, <1>5, <1>6, <1>7, <1>8 DEF Worker, Step

(* Rows that are kept as they are keep the reads fresh.                    *)
LEMMA SameRowsFresh ==
  ASSUME TypeOK, FreshReads, UNCHANGED <<pc, job, seen>>, \A i \in Ids : jobs'[i] = jobs[i]
  PROVE  FreshReads'
<1>1. \A w \in Workers : /\ job[w] # 0 => job[w] \in Ids
                        /\ seen[w] \subseteq Ids
  BY HandType DEF TypeOK
<1> QED
  BY <1>1 DEF FreshReads, Unfinished

(* Every step leaves the rows that ended alone, and the reads fresh.       *)
LEMMA NextFresh ==
  ASSUME TypeOK, Alone, FreshReads, [Next]_vars
  PROVE  FreshReads' /\ RowsThatEndedStay
<1>1. CASE (\E t \in Targets : Create(t)) \/ (\E i \in Ids : Retry(i))
  <2>1. UNCHANGED <<pc, job, seen>> /\ \A i \in Ids : jobs'[i] = jobs[i]
    BY <1>1, InsertedRow, InsertRows DEF Create, Retry
  <2> QED
    BY <2>1, SameRowsFresh DEF RowsThatEndedStay
<1>2. CASE (\E i \in Ids : RunnerEnds(i)) \/ UNCHANGED vars
  BY <1>2, SameRowsFresh DEF RunnerEnds, vars, RowsThatEndedStay
<1>3. CASE \E w \in Workers : Worker(w)
  BY <1>3, WorkerWrites, WorkerFresh
<1> QED
  BY <1>1, <1>2, <1>3 DEF Next, Worker

(* In the beginning nothing has been read.                                 *)
LEMMA InitFresh == Init => FreshReads
  BY DEF Init, FreshReads, InHand

(* With one worker whose commits are acknowledged a row that ended never   *)
(* changes again, whatever crashes and retries there are.                  *)
THEOREM FinalTheorem == ASSUME Alone PROVE Spec => TerminalIsFinal
<1>1. TypeOK /\ FreshReads /\ [Next]_vars => FreshReads' /\ RowsThatEndedStay
  BY NextFresh
<1>2. TypeOK /\ FreshReads /\ [Next]_vars =>
        [\A i \in Ids : jobs[i].status \in Terminal => jobs'[i] = jobs[i]]_vars
  BY <1>1 DEF RowsThatEndedStay
<1> QED
  BY <1>1, <1>2, InitFresh, HarborTypes, PTL DEF Spec, TerminalIsFinal

(* Attempts are created in the order of their numbers, and the earlier     *)
(* ones failed.                                                            *)
InOrder ==
  \A i, k \in Ids :
    i < k /\ jobs[i].target = jobs[k].target => jobs[i].attempt < jobs[k].attempt

(* An insert after the last row keeps the order and the failures before it.*)
LEMMA InsertInOrder ==
  ASSUME TypeOK, InOrder, RetriesFollowFailure, NEW r \in JobRow, Insert(r),
         \A i \in Ids : jobs[i].target = r.target =>
                          jobs[i].attempt < r.attempt /\ jobs[i].status = "failed"
  PROVE  InOrder' /\ RetriesFollowFailure'
<1> DEFINE new == Len(jobs) + 1
<1>1. /\ Ids' = Ids \cup {new} /\ \A i \in Ids : i < new /\ ~(new < i)
      /\ ~(new < new)
      /\ \A i \in Ids : jobs'[i] = jobs[i]
      /\ jobs'[new] = r
  BY InsertRows, RowsType DEF Ids
<1> HIDE DEF new
<1>2. \A i, k \in Ids' : i < k => i \in Ids /\ (k \in Ids \/ k = new)
  BY <1>1
<1>3. InOrder'
  BY <1>1, <1>2 DEF InOrder
<1>4. RetriesFollowFailure'
  BY <1>1, <1>2 DEF RetriesFollowFailure
<1> QED
  BY <1>3, <1>4

(* The attempts of a failed row without a child have all failed.           *)
LEMMA RetryInOrder ==
  ASSUME TypeOK, Lineage, InOrder, RetriesFollowFailure, NEW i \in Ids, Retry(i)
  PROVE  InOrder' /\ RetriesFollowFailure'
<1> DEFINE r == Row(jobs[i].target, jobs[i].attempt + 1, i)
<1>1. r \in JobRow /\ Insert(r) /\ r.target = jobs[i].target /\ r.attempt = jobs[i].attempt + 1
  BY InsertedRow DEF Retry, Row
<1>2. ASSUME NEW k \in Ids, jobs[k].target = jobs[i].target
      PROVE  jobs[k].attempt < r.attempt /\ jobs[k].status = "failed"
  <2>1. jobs[k].attempt < jobs[i].attempt + 1
    BY <1>2, RetriedIsLast
  <2>2. CASE k = i
    BY <2>2, <2>1, <1>1 DEF Retry
  <2>3. CASE i < k
    BY <2>1, <2>3, <1>2, AttemptType DEF InOrder
  <2>4. CASE k < i
    BY <2>1, <2>4, <1>1, <1>2 DEF RetriesFollowFailure
  <2> QED
    BY <2>2, <2>3, <2>4, RowsType DEF Ids
<1> QED
  BY <1>1, <1>2, InsertInOrder

(* With that worker only failed attempts have a successor: at most one     *)
(* attempt of a target succeeds, and it is the last.                       *)
THEOREM RetryTheorem == ASSUME Alone PROVE Spec => []RetriesFollowFailure
<1> DEFINE LInv == TypeOK /\ Lineage /\ FreshReads /\ InOrder /\ RetriesFollowFailure
<1>1. Init => InOrder /\ RetriesFollowFailure
  BY EmptySeq DEF Init, InOrder, RetriesFollowFailure, Ids
<1>2. LInv /\ [Next]_vars => InOrder' /\ RetriesFollowFailure'
  <2> SUFFICES ASSUME LInv, [Next]_vars PROVE InOrder' /\ RetriesFollowFailure'
    OBVIOUS
  <2>1. ASSUME NEW t \in Targets, Create(t) PROVE InOrder' /\ RetriesFollowFailure'
    <3>1. \A i \in Ids : jobs[i].target # t
      BY <2>1, AttemptType DEF Create, Lineage, WithoutGap
    <3> QED
      BY <2>1, <3>1, InsertedRow, InsertInOrder DEF Create, Row
  <2>2. ASSUME NEW i \in Ids, Retry(i) PROVE InOrder' /\ RetriesFollowFailure'
    BY <2>2, RetryInOrder
  <2>3. CASE (\E w \in Workers : Worker(w)) \/ (\E i \in Ids : RunnerEnds(i)) \/ UNCHANGED vars
    <3>1. OnlyStatuses /\ RowsThatEndedStay
      BY <2>3, WorkerOnlyStatuses, SameRowsOnlyStatuses, NextFresh DEF RunnerEnds, vars
    <3> QED
      BY <3>1 DEF OnlyStatuses, RowsThatEndedStay, InOrder, RetriesFollowFailure, Ids, Terminal
  <2> QED
    BY <2>1, <2>2, <2>3 DEF Next, Worker
<1>3. LInv /\ [Next]_vars => FreshReads'
  BY NextFresh
<1> QED
  BY <1>1, <1>2, <1>3, InitFresh, HarborTypes, Lineages, PTL DEF Spec

=============================================================================
