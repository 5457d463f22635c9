-------------------------- MODULE WorkerFleetProofs --------------------------
(***************************************************************************)
(* Proofs about WorkerFleet for every set of process slots, worker         *)
(* identities, settings and jobs, any number of faults, and whether or not *)
(* heartbeats are timely.                                                  *)
(***************************************************************************)
EXTENDS WorkerFleet, TLAPS

USE FleetAssumption

(* A process writes rows of its own identity.                              *)
LEMMA IdType == \A p \in Procs : Id(p) \in WorkerIds
  BY DEF Id

(* Every table a domain's allow-list names exists.                         *)
LEMMA DomainKinds == \A d \in Domains : JobKindAllowlist[d] \subseteq Kinds
  BY DEF Domains, JobKindAllowlist, Kinds, Queue

(* A process only ever sweeps and reads tables that exist.                 *)
LEMMA MyKindsType == \A p \in Procs : MyKinds(p) \subseteq Kinds
  BY DomainKinds DEF MyKinds

(* A process is started with known capabilities.                           *)
LEMMA ConfigsType == \A p \in Procs : Settings[p].configs \subseteq Capabilities
  OBVIOUS

(* The log of a job is bounded by Rounds.                                  *)
LEMMA LogLengthType == LogLength \in [Jobs -> 0..Rounds]
  BY DEF LogLength

(* A process that ends, however it ends, leaves the invariant behind.      *)
LEMMA GoneKeepsInv ==
  ASSUME IInv, NEW p \in Procs, Gone(p), faults' \in 0..MaxFaults
  PROVE  IInv'
<1> USE DEF IInv
<1>1. TypeOK'
  <2>1. row' \in [WorkerIds -> HeartbeatRow]
    <3>1. CASE row[Id(p)].by = p
      <4>1. /\ row' = [row EXCEPT ![Id(p)].by = None]
            /\ row \in [WorkerIds -> HeartbeatRow]
        BY <3>1 DEF Gone, TypeOK
      <4>2. row[Id(p)] \in HeartbeatRow
        BY <4>1, IdType
      <4>3. [row[Id(p)] EXCEPT !.by = None] \in HeartbeatRow
        BY <4>2 DEF HeartbeatRow
      <4> QED
        BY <4>1, <4>3
    <3>2. CASE row[Id(p)].by # p
      BY <3>2 DEF Gone, TypeOK
    <3> QED
      BY <3>1, <3>2
  <2>2. lock' \in [WorkerIds -> Procs \cup {None}]
    BY DEF Gone, TypeOK
  <2> QED
    BY <2>1, <2>2 DEF Gone, TypeOK, tables, PCs
<1>2. LockHolder'
  BY IdType DEF LockHolder, TypeOK, Gone, Connected
<1>3. JobInHand'
  BY DEF JobInHand, TypeOK, Gone, tables, Executing
<1>4. OneEngine'
  BY DEF OneEngine, TypeOK, Gone, Executing
<1>5. OwnedIsAccounted'
  BY IdType DEF OwnedIsAccounted, LockHolder, TypeOK, Gone, tables, Connected, Executing, Mine
<1>6. LogIsComplete'
  BY DEF LogIsComplete, TypeOK, Gone, tables
<1> QED
  BY <1>1, <1>2, <1>3, <1>4, <1>5, <1>6

(* Reading the queue heads keeps the invariant: the pick is a job.         *)
LEMMA PickKeepsInv ==
  ASSUME IInv, NEW p \in Procs, Pick(p)
  PROVE  IInv'
<1> USE DEF IInv
<1>1. TypeOK' /\ JobInHand'
  <2>1. CASE Candidates(p) = {}
    <3>1. pc' = [pc EXCEPT ![p] = "loop"] /\ UNCHANGED job
      BY <2>1 DEF Pick
    <3> QED
      BY <3>1 DEF Pick, TypeOK, JobInHand, Executing, PCs, tables
  <2>2. CASE Candidates(p) # {}
    <3>1. PICK j \in Candidates(p) :
            /\ job' = [job EXCEPT ![p] = j]
            /\ pc' = [pc EXCEPT ![p] = "claim"]
      BY <2>2 DEF Pick
    <3>2. j \in Jobs
      BY DEF Candidates
    <3> QED
      BY <3>1, <3>2 DEF Pick, TypeOK, JobInHand, Executing, PCs, tables
  <2> QED
    BY <2>1, <2>2
<1>2. /\ pc[p] = "pick"
      /\ pc' \in {[pc EXCEPT ![p] = "loop"], [pc EXCEPT ![p] = "claim"]}
      /\ \A q \in Procs : q # p => job'[q] = job[q]
      /\ pc'[p] \in {"loop", "claim"}
      /\ \A q \in Procs : q # p => pc'[q] = pc[q]
      /\ UNCHANGED <<status, owner, progress, lock, todo>>
  BY DEF Pick, TypeOK, tables
<1>3. LockHolder'
  BY <1>2 DEF TypeOK, LockHolder
<1>4. \A q \in Procs :
        /\ Executing(q)' => Executing(q) /\ q # p
        /\ pc'[q] \in {"check", "complete"} => pc[q] = pc'[q] /\ q # p
  BY <1>2 DEF Executing
<1>5. OneEngine'
  BY <1>2, <1>4 DEF OneEngine
<1>6. LogIsComplete'
  BY <1>2, <1>4 DEF LogIsComplete
<1>7. OwnedIsAccounted'
  BY <1>2 DEF TypeOK, OwnedIsAccounted, Connected, Executing, Mine
<1> QED
  BY <1>1, <1>3, <1>5, <1>6, <1>7

(* Each way of refusing a frozen input keeps the invariant.                *)
LEMMA ClaimRejectedKeepsInv ==
  ASSUME IInv, NEW p \in Procs, ClaimRejected(p)
  PROVE  IInv'
<1> USE DEF IInv
<1>1. job[p] \in Jobs /\ status[job[p]] = "queued" /\ pc[p] = "claim"
  BY DEF ClaimRejected, JobInHand
<1>2. PICK next \in {"loop", "reject", "exit"} :
        /\ pc' = [pc EXCEPT ![p] = next]
        /\ \/ job' = [job EXCEPT ![p] = None] /\ next # "reject"
           \/ UNCHANGED job
        /\ \/ /\ status' = [status EXCEPT ![job[p]] = "failed"]
              /\ owner' = [owner EXCEPT ![job[p]] = Id(p)]
           \/ UNCHANGED <<status, owner>>
  BY DEF ClaimRejected, SetRow, Goto, DropJob
<1>3. UNCHANGED <<progress, lock, row, todo, cfg, thread, faults>>
  BY DEF ClaimRejected
<1>4. TypeOK'
  <2>1. job' \in [Procs -> Jobs \cup {None}] /\ pc' \in [Procs -> PCs]
    BY <1>2 DEF TypeOK, PCs
  <2>2. CASE UNCHANGED <<status, owner>>
    BY <1>3, <2>1, <2>2 DEF TypeOK
  <2>3. CASE /\ status' = [status EXCEPT ![job[p]] = "failed"]
             /\ owner' = [owner EXCEPT ![job[p]] = Id(p)]
    <3>1. status' \in [Jobs -> {"absent", "queued", "running", "succeeded", "failed"}]
      BY <2>3 DEF TypeOK
    <3>2. owner' \in [Jobs -> WorkerIds \cup {None}]
      BY <2>3, IdType DEF TypeOK
    <3> QED
      BY <1>3, <2>1, <3>1, <3>2 DEF TypeOK
  <2> QED
    BY <1>2, <2>2, <2>3
<1>5. JobInHand'
  <2> SUFFICES ASSUME NEW q \in Procs,
                      Executing(q)' \/ pc'[q] \in {"claim", "reject"}
               PROVE  /\ job'[q] \in Jobs
                      /\ Executing(q)' => /\ status'[job'[q]] \notin {"absent", "queued"}
                                          /\ owner'[job'[q]] = Id(q)
    BY DEF JobInHand
  <2>1. /\ Executing(q)' => Executing(q) /\ q # p
        /\ job'[q] = job[q]
    BY <1>1, <1>2 DEF TypeOK, Executing
  <2>2. job[q] \in Jobs
    BY <1>1, <1>2, <2>1 DEF TypeOK, JobInHand, Executing
  <2>3. Executing(q) => status[job[q]] \notin {"absent", "queued"} /\ owner[job[q]] = Id(q)
    BY DEF JobInHand
  <2>4. Executing(q) => status'[job[q]] = status[job[q]] /\ owner'[job[q]] = owner[job[q]]
    BY <1>1, <1>2, <2>2, <2>3 DEF TypeOK
  <2> QED
    BY <2>1, <2>2, <2>3, <2>4
<1>6. OneEngine' /\ LogIsComplete'
  BY <1>1, <1>2, <1>3 DEF TypeOK, OneEngine, LogIsComplete, Executing
<1>7. LockHolder'
  BY <1>1, <1>2, <1>3 DEF TypeOK, LockHolder
<1>8. OwnedIsAccounted'
  BY <1>1, <1>2, <1>3 DEF TypeOK, OwnedIsAccounted, Connected, Executing, Mine
<1> QED
  BY <1>4, <1>5, <1>6, <1>7, <1>8

(* The second transaction of a refused claim keeps the invariant.          *)
LEMMA RejectKeepsInv ==
  ASSUME IInv, NEW p \in Procs, Reject(p)
  PROVE  IInv'
<1> USE DEF IInv
<1>1. /\ job[p] \in Jobs
      /\ pc[p] = "reject"
      /\ pc' = [pc EXCEPT ![p] = "loop"]
      /\ job' = [job EXCEPT ![p] = None]
      /\ UNCHANGED <<progress, lock, row, todo, cfg, thread, faults>>
  BY DEF Reject, JobInHand, Goto, DropJob
<1>2. \/ UNCHANGED <<status, owner>>
      \/ /\ status[job[p]] = "queued" \/ owner[job[p]] = Id(p)
         /\ status' = [status EXCEPT ![job[p]] = "failed"]
         /\ owner' = [owner EXCEPT ![job[p]] = Id(p)]
  BY DEF Reject, SetRow, Mine
<1>3. TypeOK'
  <2>1. Id(p) \in WorkerIds
    BY IdType
  <2>2. status' \in [Jobs -> {"absent", "queued", "running", "succeeded", "failed"}]
    BY <1>1, <1>2 DEF TypeOK
  <2>3. owner' \in [Jobs -> WorkerIds \cup {None}]
    BY <1>1, <1>2, <2>1 DEF TypeOK
  <2> QED
    BY <1>1, <2>2, <2>3 DEF TypeOK, PCs
<1>4. JobInHand'
  <2> SUFFICES ASSUME NEW q \in Procs,
                      Executing(q)' \/ pc'[q] \in {"claim", "reject"}
               PROVE  /\ job'[q] \in Jobs
                      /\ Executing(q)' => /\ status'[job'[q]] \notin {"absent", "queued"}
                                          /\ owner'[job'[q]] = Id(q)
    BY DEF JobInHand
  <2>1. q # p /\ pc'[q] = pc[q] /\ job'[q] = job[q]
    BY <1>1 DEF TypeOK, Executing
  <2>2. job[q] \in Jobs
    BY <2>1 DEF JobInHand, Executing
  <2>3. ASSUME Executing(q)'
        PROVE  status'[job[q]] \notin {"absent", "queued"} /\ owner'[job[q]] = Id(q)
    <3>1. status[job[q]] \notin {"absent", "queued"} /\ owner[job[q]] = Id(q)
      BY <2>1, <2>3 DEF JobInHand, Executing
    <3> QED
      BY <1>1, <1>2, <2>2, <3>1 DEF TypeOK
  <2> QED
    BY <2>1, <2>2, <2>3
<1>5. OneEngine' /\ LogIsComplete'
  BY <1>1 DEF TypeOK, OneEngine, LogIsComplete, Executing
<1>6. LockHolder'
  BY <1>1 DEF TypeOK, LockHolder
<1>7. OwnedIsAccounted'
  BY <1>1, <1>2 DEF TypeOK, OwnedIsAccounted, Connected, Executing, Mine
<1> QED
  BY <1>3, <1>4, <1>5, <1>6, <1>7

(* Appending to the observation log keeps the invariant.                   *)
LEMMA AppendLogKeepsInv ==
  ASSUME IInv, NEW p \in Procs, AppendLog(p)
  PROVE  IInv'
<1> USE DEF IInv
<1>1. /\ job[p] \in Jobs
      /\ pc[p] = "engine"
      /\ progress[job[p]] < LogLength[job[p]]
      /\ UNCHANGED <<status, owner, lock, row, todo, cfg, job, thread, faults>>
  BY DEF AppendLog, JobInHand, Executing
<1>2. \/ /\ progress' = [progress EXCEPT ![job[p]] = @ + 1]
         /\ UNCHANGED pc
      \/ /\ pc' = [pc EXCEPT ![p] = "fail"]
         /\ UNCHANGED progress
  BY DEF AppendLog, Goto
<1>3. TypeOK'
  <2>1. pc' \in [Procs -> PCs]
    BY <1>2 DEF TypeOK, PCs
  <2>2. progress[job[p]] + 1 \in 0..Rounds
    <3>1. progress[job[p]] \in 0..Rounds /\ LogLength[job[p]] \in 0..Rounds
      BY <1>1, LogLengthType DEF TypeOK
    <3> QED
      BY <1>1, <3>1
  <2>3. progress' \in [Jobs -> 0..Rounds]
    BY <1>1, <1>2, <2>2 DEF TypeOK
  <2> QED
    BY <1>1, <2>1, <2>3 DEF TypeOK
<1>4. JobInHand' /\ OneEngine'
  BY <1>1, <1>2 DEF TypeOK, JobInHand, OneEngine, Executing
<1>5. LockHolder'
  BY <1>1, <1>2 DEF TypeOK, LockHolder
<1>6. OwnedIsAccounted'
  BY <1>1, <1>2 DEF TypeOK, OwnedIsAccounted, Connected, Executing, Mine
<1>7. LogIsComplete'
  <2> SUFFICES ASSUME NEW q \in Procs, pc'[q] \in {"check", "complete"}
               PROVE  progress'[job[q]] = LogLength[job[q]]
    BY <1>1 DEF LogIsComplete
  <2>1. pc[q] \in {"check", "complete"}
    BY <1>1, <1>2 DEF TypeOK
  <2>2. job[q] \in Jobs /\ progress[job[q]] = LogLength[job[q]]
    BY <2>1 DEF LogIsComplete, JobInHand, Executing
  <2>3. job[q] # job[p]
    <3>1. LogLength[job[p]] \in 0..Rounds
      BY <1>1, LogLengthType
    <3> QED
      BY <1>1, <2>2, <3>1
  <2> QED
    BY <1>1, <1>2, <2>2, <2>3 DEF TypeOK
<1> QED
  BY <1>3, <1>4, <1>5, <1>6, <1>7

(* Publishing a result keeps the invariant.                                *)
LEMMA CompleteJobKeepsInv ==
  ASSUME IInv, NEW p \in Procs, CompleteJob(p)
  PROVE  IInv'
<1> USE DEF IInv
<1>1. /\ job[p] \in Jobs
      /\ pc[p] = "complete"
      /\ job' = [job EXCEPT ![p] = None]
      /\ UNCHANGED <<owner, progress, lock, row, todo, cfg, thread, faults>>
  BY DEF CompleteJob, JobInHand, Executing, DropJob
<1>2. \/ /\ Mine(p, job[p])
         /\ status' = [status EXCEPT ![job[p]] = "succeeded"]
         /\ pc' = [pc EXCEPT ![p] = "loop"]
      \/ /\ ~Mine(p, job[p])
         /\ UNCHANGED status
         /\ pc' = [pc EXCEPT ![p] = "exit"]
  BY DEF CompleteJob, Goto
<1>3. TypeOK'
  <2>1. status' \in [Jobs -> {"absent", "queued", "running", "succeeded", "failed"}]
    BY <1>1, <1>2 DEF TypeOK
  <2>2. pc' \in [Procs -> PCs]
    BY <1>2 DEF TypeOK, PCs
  <2> QED
    BY <1>1, <2>1, <2>2 DEF TypeOK
<1>4. JobInHand'
  <2> SUFFICES ASSUME NEW q \in Procs,
                      Executing(q)' \/ pc'[q] \in {"claim", "reject"}
               PROVE  /\ job'[q] \in Jobs
                      /\ Executing(q)' => /\ status'[job'[q]] \notin {"absent", "queued"}
                                          /\ owner'[job'[q]] = Id(q)
    BY DEF JobInHand
  <2>1. q # p /\ pc'[q] = pc[q] /\ job'[q] = job[q]
    BY <1>1, <1>2 DEF TypeOK, Executing
  <2>2. job[q] \in Jobs
    BY <2>1 DEF JobInHand, Executing
  <2>3. Executing(q)' => status[job[q]] \notin {"absent", "queued"} /\ owner[job[q]] = Id(q)
    BY <2>1 DEF JobInHand, Executing
  <2>4. status'[job[q]] \in {status[job[q]], "succeeded"}
    BY <1>1, <1>2, <2>2 DEF TypeOK
  <2> QED
    BY <1>1, <2>1, <2>2, <2>3, <2>4
<1>5. OneEngine' /\ LogIsComplete'
  BY <1>1, <1>2 DEF TypeOK, OneEngine, LogIsComplete, Executing
<1>6. LockHolder'
  BY <1>1, <1>2 DEF TypeOK, LockHolder
<1>7. OwnedIsAccounted'
  BY <1>1, <1>2 DEF TypeOK, OwnedIsAccounted, Connected, Executing, Mine
<1> QED
  BY <1>3, <1>4, <1>5, <1>6, <1>7

(* Every step of the fleet keeps the invariant.                            *)
LEMMA NextKeepsInv == IInv /\ [Next]_vars => IInv'
<1> SUFFICES ASSUME IInv, [Next]_vars PROVE IInv'
  OBVIOUS
<1> USE DEF IInv, tables, local
<1>1. ASSUME NEW j \in Jobs, Enqueue(j) PROVE IInv'
  <2>1. TypeOK'
    BY <1>1 DEF TypeOK, PCs, Enqueue
  <2>2. (LockHolder /\ JobInHand /\ OneEngine)'
    BY <1>1 DEF TypeOK, LockHolder, JobInHand, OneEngine, Connected,
       Executing, Mine, Enqueue
  <2>3. OwnedIsAccounted'
    BY <1>1 DEF TypeOK, LockHolder, JobInHand, OwnedIsAccounted, Connected,
       Executing, Mine, Enqueue
  <2>4. LogIsComplete'
    BY <1>1 DEF TypeOK, JobInHand, OneEngine, LogIsComplete, Executing, Enqueue
  <2> QED
    BY <2>1, <2>2, <2>3, <2>4
<1>2. ASSUME NEW p \in Procs, Start(p) PROVE IInv'
  <2>1. TypeOK'
    BY <1>2, IdType, MyKindsType, ConfigsType DEF TypeOK, PCs, Start
  <2>2. (LockHolder /\ JobInHand /\ OneEngine)'
    BY <1>2, IdType, MyKindsType, ConfigsType DEF TypeOK, LockHolder,
       JobInHand, OneEngine, Connected, Executing, Mine, Start
  <2>3. OwnedIsAccounted'
    BY <1>2, IdType, MyKindsType, ConfigsType DEF TypeOK, LockHolder,
       JobInHand, OwnedIsAccounted, Connected, Executing, Mine, Start
  <2>4. LogIsComplete'
    BY <1>2, IdType, MyKindsType, ConfigsType DEF TypeOK, JobInHand,
       OneEngine, LogIsComplete, Executing, Start
  <2> QED
    BY <2>1, <2>2, <2>3, <2>4
<1>3. ASSUME NEW p \in Procs, NEW k \in Kinds, FailOwned(p, k) PROVE IInv'
  <2>1. TypeOK'
    BY <1>3, IdType, MyKindsType DEF TypeOK, PCs, FailOwned, FailAll, Swept,
       NextTable, OwnedBy
  <2>2. (LockHolder /\ JobInHand /\ OneEngine)'
    BY <1>3, IdType, MyKindsType DEF TypeOK, LockHolder, JobInHand,
       OneEngine, Connected, Executing, Mine, FailOwned, FailAll, Swept,
       NextTable, OwnedBy
  <2>3. OwnedIsAccounted'
    BY <1>3, IdType, MyKindsType DEF TypeOK, LockHolder, JobInHand,
       OwnedIsAccounted, Connected, Executing, Mine, FailOwned, FailAll,
       Swept, NextTable, OwnedBy
  <2>4. LogIsComplete'
    BY <1>3, IdType, MyKindsType DEF TypeOK, JobInHand, OneEngine,
       LogIsComplete, Executing, FailOwned, FailAll, Swept, NextTable, OwnedBy
  <2> QED
    BY <2>1, <2>2, <2>3, <2>4
<1>4. ASSUME NEW p \in Procs, NEW k \in Kinds, FailOrphaned(p, k) PROVE IInv'
  <2>1. TypeOK'
    BY <1>4, IdType DEF TypeOK, PCs, FailOrphaned, FailAll, Swept, NextTable,
       Orphaned
  <2>2. (LockHolder /\ JobInHand /\ OneEngine)'
    BY <1>4, IdType DEF TypeOK, LockHolder, JobInHand, OneEngine, Connected,
       Executing, Mine, FailOrphaned, FailAll, Swept, NextTable, Orphaned
  <2>3. OwnedIsAccounted'
    BY <1>4, IdType DEF TypeOK, LockHolder, JobInHand, OwnedIsAccounted,
       Connected, Executing, Mine, FailOrphaned, FailAll, Swept, NextTable,
       Orphaned
  <2>4. LogIsComplete'
    BY <1>4, IdType DEF TypeOK, JobInHand, OneEngine, LogIsComplete,
       Executing, FailOrphaned, FailAll, Swept, NextTable, Orphaned
  <2> QED
    BY <2>1, <2>2, <2>3, <2>4
<1>5. ASSUME NEW p \in Procs, Announce(p) PROVE IInv'
  <2>1. TypeOK'
    BY <1>5, IdType DEF TypeOK, PCs, Announce, Beaten, HasProbe, HeartbeatRow
  <2>2. (LockHolder /\ JobInHand /\ OneEngine)'
    BY <1>5, IdType DEF TypeOK, LockHolder, JobInHand, OneEngine, Connected,
       Executing, Mine, Announce, Beaten, HasProbe, HeartbeatRow
  <2>3. OwnedIsAccounted'
    BY <1>5, IdType DEF TypeOK, LockHolder, JobInHand, OwnedIsAccounted,
       Connected, Executing, Mine, Announce, Beaten, HasProbe, HeartbeatRow
  <2>4. LogIsComplete'
    BY <1>5, IdType DEF TypeOK, JobInHand, OneEngine, LogIsComplete,
       Executing, Announce, Beaten, HasProbe, HeartbeatRow
  <2> QED
    BY <2>1, <2>2, <2>3, <2>4
<1>6. ASSUME NEW p \in Procs, ProbePasses(p) PROVE IInv'
  <2>1. TypeOK'
    BY <1>6, IdType DEF TypeOK, PCs, ProbePasses
  <2>2. (LockHolder /\ JobInHand /\ OneEngine)'
    BY <1>6, IdType DEF TypeOK, LockHolder, JobInHand, OneEngine, Connected,
       Executing, Mine, ProbePasses
  <2>3. OwnedIsAccounted'
    BY <1>6, IdType DEF TypeOK, LockHolder, JobInHand, OwnedIsAccounted,
       Connected, Executing, Mine, ProbePasses
  <2>4. LogIsComplete'
    BY <1>6, IdType DEF TypeOK, JobInHand, OneEngine, LogIsComplete,
       Executing, ProbePasses
  <2> QED
    BY <2>1, <2>2, <2>3, <2>4
<1>7. ASSUME NEW p \in Procs, ProbeFails(p) PROVE IInv'
  <2>1. TypeOK'
    BY <1>7, IdType DEF TypeOK, PCs, ProbeFails
  <2>2. (LockHolder /\ JobInHand /\ OneEngine)'
    BY <1>7, IdType DEF TypeOK, LockHolder, JobInHand, OneEngine, Connected,
       Executing, Mine, ProbeFails
  <2>3. OwnedIsAccounted'
    BY <1>7, IdType DEF TypeOK, LockHolder, JobInHand, OwnedIsAccounted,
       Connected, Executing, Mine, ProbeFails
  <2>4. LogIsComplete'
    BY <1>7, IdType DEF TypeOK, JobInHand, OneEngine, LogIsComplete,
       Executing, ProbeFails
  <2> QED
    BY <2>1, <2>2, <2>3, <2>4
<1>8. ASSUME NEW p \in Procs, Advertise(p) PROVE IInv'
  <2>1. TypeOK'
    BY <1>8, IdType DEF TypeOK, PCs, Advertise, Beaten, HeartbeatRow
  <2>2. (LockHolder /\ JobInHand /\ OneEngine)'
    BY <1>8, IdType DEF TypeOK, LockHolder, JobInHand, OneEngine, Connected,
       Executing, Mine, Advertise, Beaten, HeartbeatRow
  <2>3. OwnedIsAccounted'
    BY <1>8, IdType DEF TypeOK, LockHolder, JobInHand, OwnedIsAccounted,
       Connected, Executing, Mine, Advertise, Beaten, HeartbeatRow
  <2>4. LogIsComplete'
    BY <1>8, IdType DEF TypeOK, JobInHand, OneEngine, LogIsComplete,
       Executing, Advertise, Beaten, HeartbeatRow
  <2> QED
    BY <2>1, <2>2, <2>3, <2>4
<1>9. ASSUME NEW p \in Procs, Iterate(p) PROVE IInv'
  <2>1. TypeOK'
    BY <1>9, IdType, MyKindsType DEF TypeOK, PCs, Iterate
  <2>2. (LockHolder /\ JobInHand /\ OneEngine)'
    BY <1>9, IdType, MyKindsType DEF TypeOK, LockHolder, JobInHand,
       OneEngine, Connected, Executing, Mine, Iterate
  <2>3. OwnedIsAccounted'
    BY <1>9, IdType, MyKindsType DEF TypeOK, LockHolder, JobInHand,
       OwnedIsAccounted, Connected, Executing, Mine, Iterate
  <2>4. LogIsComplete'
    BY <1>9, IdType, MyKindsType DEF TypeOK, JobInHand, OneEngine,
       LogIsComplete, Executing, Iterate
  <2> QED
    BY <2>1, <2>2, <2>3, <2>4
<1>10. ASSUME NEW p \in Procs, Pick(p) PROVE IInv'
  BY <1>10, PickKeepsInv
<1>11. ASSUME NEW p \in Procs, ClaimNothing(p) PROVE IInv'
  <2>1. TypeOK'
    BY <1>11, IdType DEF TypeOK, PCs, ClaimNothing, Goto, DropJob
  <2>2. (LockHolder /\ JobInHand /\ OneEngine)'
    BY <1>11, IdType DEF TypeOK, LockHolder, JobInHand, OneEngine, Connected,
       Executing, Mine, ClaimNothing, Goto, DropJob
  <2>3. OwnedIsAccounted'
    BY <1>11, IdType DEF TypeOK, LockHolder, JobInHand, OwnedIsAccounted,
       Connected, Executing, Mine, ClaimNothing, Goto, DropJob
  <2>4. LogIsComplete'
    BY <1>11, IdType DEF TypeOK, JobInHand, OneEngine, LogIsComplete,
       Executing, ClaimNothing, Goto, DropJob
  <2> QED
    BY <2>1, <2>2, <2>3, <2>4
<1>12. ASSUME NEW p \in Procs, ClaimSound(p) PROVE IInv'
  <2>1. TypeOK'
    BY <1>12, IdType DEF TypeOK, PCs, ClaimSound, SetRow, Goto
  <2>2. (LockHolder /\ JobInHand /\ OneEngine)'
    BY <1>12, IdType DEF TypeOK, LockHolder, JobInHand, OneEngine, Connected,
       Executing, Mine, ClaimSound, SetRow, Goto
  <2>3. OwnedIsAccounted'
    BY <1>12, IdType DEF TypeOK, LockHolder, JobInHand, OwnedIsAccounted,
       Connected, Executing, Mine, ClaimSound, SetRow, Goto
  <2>4. LogIsComplete'
    BY <1>12, IdType DEF TypeOK, JobInHand, OneEngine, LogIsComplete,
       Executing, ClaimSound, SetRow, Goto
  <2> QED
    BY <2>1, <2>2, <2>3, <2>4
<1>13. ASSUME NEW p \in Procs, ClaimRejected(p) PROVE IInv'
  BY <1>13, ClaimRejectedKeepsInv
<1>14. ASSUME NEW p \in Procs, Reject(p) PROVE IInv'
  BY <1>14, RejectKeepsInv
<1>15. ASSUME NEW p \in Procs, AppendLog(p) PROVE IInv'
  BY <1>15, AppendLogKeepsInv
<1>16. ASSUME NEW p \in Procs, EngineReturns(p) PROVE IInv'
  <2>1. TypeOK'
    BY <1>16, IdType DEF TypeOK, PCs, EngineReturns, Goto
  <2>2. (LockHolder /\ JobInHand /\ OneEngine)'
    BY <1>16, IdType DEF TypeOK, LockHolder, JobInHand, OneEngine, Connected,
       Executing, Mine, EngineReturns, Goto
  <2>3. OwnedIsAccounted'
    BY <1>16, IdType DEF TypeOK, LockHolder, JobInHand, OwnedIsAccounted,
       Connected, Executing, Mine, EngineReturns, Goto
  <2>4. LogIsComplete'
    BY <1>16, IdType DEF TypeOK, JobInHand, OneEngine, LogIsComplete,
       Executing, EngineReturns, Goto
  <2> QED
    BY <2>1, <2>2, <2>3, <2>4
<1>17. ASSUME NEW p \in Procs, EngineRaises(p) PROVE IInv'
  <2>1. TypeOK'
    BY <1>17, IdType DEF TypeOK, PCs, EngineRaises, Goto
  <2>2. (LockHolder /\ JobInHand /\ OneEngine)'
    BY <1>17, IdType DEF TypeOK, LockHolder, JobInHand, OneEngine, Connected,
       Executing, Mine, EngineRaises, Goto
  <2>3. OwnedIsAccounted'
    BY <1>17, IdType DEF TypeOK, LockHolder, JobInHand, OwnedIsAccounted,
       Connected, Executing, Mine, EngineRaises, Goto
  <2>4. LogIsComplete'
    BY <1>17, IdType DEF TypeOK, JobInHand, OneEngine, LogIsComplete,
       Executing, EngineRaises, Goto
  <2> QED
    BY <2>1, <2>2, <2>3, <2>4
<1>18. ASSUME NEW p \in Procs, CheckHeartbeat(p) PROVE IInv'
  <2>1. TypeOK'
    BY <1>18, IdType DEF TypeOK, PCs, CheckHeartbeat, Goto
  <2>2. (LockHolder /\ JobInHand /\ OneEngine)'
    BY <1>18, IdType DEF TypeOK, LockHolder, JobInHand, OneEngine, Connected,
       Executing, Mine, CheckHeartbeat, Goto
  <2>3. OwnedIsAccounted'
    BY <1>18, IdType DEF TypeOK, LockHolder, JobInHand, OwnedIsAccounted,
       Connected, Executing, Mine, CheckHeartbeat, Goto
  <2>4. LogIsComplete'
    BY <1>18, IdType DEF TypeOK, JobInHand, OneEngine, LogIsComplete,
       Executing, CheckHeartbeat, Goto
  <2> QED
    BY <2>1, <2>2, <2>3, <2>4
<1>19. ASSUME NEW p \in Procs, FailJob(p) PROVE IInv'
  <2>1. TypeOK'
    BY <1>19, IdType DEF TypeOK, PCs, FailJob, FailAll, Goto, DropJob
  <2>2. (LockHolder /\ JobInHand /\ OneEngine)'
    BY <1>19, IdType DEF TypeOK, LockHolder, JobInHand, OneEngine, Connected,
       Executing, Mine, FailJob, FailAll, Goto, DropJob
  <2>3. OwnedIsAccounted'
    BY <1>19, IdType DEF TypeOK, LockHolder, JobInHand, OwnedIsAccounted,
       Connected, Executing, Mine, FailJob, FailAll, Goto, DropJob
  <2>4. LogIsComplete'
    BY <1>19, IdType DEF TypeOK, JobInHand, OneEngine, LogIsComplete,
       Executing, FailJob, FailAll, Goto, DropJob
  <2> QED
    BY <2>1, <2>2, <2>3, <2>4
<1>20. ASSUME NEW p \in Procs, CompleteJob(p) PROVE IInv'
  BY <1>20, CompleteJobKeepsInv
<1>21. ASSUME NEW p \in Procs, Escapes(p) PROVE IInv'
  <2>1. TypeOK'
    BY <1>21, IdType DEF TypeOK, PCs, Escapes, Goto, DropJob
  <2>2. (LockHolder /\ JobInHand /\ OneEngine)'
    BY <1>21, IdType DEF TypeOK, LockHolder, JobInHand, OneEngine, Connected,
       Executing, Mine, Escapes, Goto, DropJob
  <2>3. OwnedIsAccounted'
    BY <1>21, IdType DEF TypeOK, LockHolder, JobInHand, OwnedIsAccounted,
       Connected, Executing, Mine, Escapes, Goto, DropJob
  <2>4. LogIsComplete'
    BY <1>21, IdType DEF TypeOK, JobInHand, OneEngine, LogIsComplete,
       Executing, Escapes, Goto, DropJob
  <2> QED
    BY <2>1, <2>2, <2>3, <2>4
<1>22. ASSUME NEW p \in Procs, RemoveRow(p) PROVE IInv'
  <2>1. TypeOK'
    BY <1>22, IdType DEF TypeOK, PCs, RemoveRow, Goto, NoRow, HeartbeatRow
  <2>2. (LockHolder /\ JobInHand /\ OneEngine)'
    BY <1>22, IdType DEF TypeOK, LockHolder, JobInHand, OneEngine, Connected,
       Executing, Mine, RemoveRow, Goto, NoRow, HeartbeatRow
  <2>3. OwnedIsAccounted'
    BY <1>22, IdType DEF TypeOK, LockHolder, JobInHand, OwnedIsAccounted,
       Connected, Executing, Mine, RemoveRow, Goto, NoRow, HeartbeatRow
  <2>4. LogIsComplete'
    BY <1>22, IdType DEF TypeOK, JobInHand, OneEngine, LogIsComplete,
       Executing, RemoveRow, Goto, NoRow, HeartbeatRow
  <2> QED
    BY <2>1, <2>2, <2>3, <2>4
<1>23. ASSUME NEW p \in Procs, Close(p) PROVE IInv'
  BY <1>23, GoneKeepsInv DEF Close, TypeOK
<1>24. ASSUME NEW p \in Procs, NoticeLoss(p) PROVE IInv'
  BY <1>24, GoneKeepsInv DEF NoticeLoss, TypeOK
<1>25. ASSUME NEW p \in Procs, Beat(p) PROVE IInv'
  <2>1. TypeOK'
    BY <1>25, IdType DEF TypeOK, PCs, Beat, Beaten, HeartbeatRow
  <2>2. (LockHolder /\ JobInHand /\ OneEngine)'
    BY <1>25, IdType DEF TypeOK, LockHolder, JobInHand, OneEngine, Connected,
       Executing, Mine, Beat, Beaten, HeartbeatRow
  <2>3. OwnedIsAccounted'
    BY <1>25, IdType DEF TypeOK, LockHolder, JobInHand, OwnedIsAccounted,
       Connected, Executing, Mine, Beat, Beaten, HeartbeatRow
  <2>4. LogIsComplete'
    BY <1>25, IdType DEF TypeOK, JobInHand, OneEngine, LogIsComplete,
       Executing, Beat, Beaten, HeartbeatRow
  <2> QED
    BY <2>1, <2>2, <2>3, <2>4
<1>26. ASSUME NEW p \in Procs, Crash(p) PROVE IInv'
  <2>1. faults' \in 0..MaxFaults
    BY <1>26 DEF Crash, Fault, TypeOK
  <2> QED
    BY <1>26, <2>1, GoneKeepsInv DEF Crash
<1>27. ASSUME NEW p \in Procs, LoseConnection(p) PROVE IInv'
  <2>1. TypeOK'
    BY <1>27, IdType DEF TypeOK, PCs, LoseConnection, Fault
  <2>2. (LockHolder /\ JobInHand /\ OneEngine)'
    BY <1>27, IdType DEF TypeOK, LockHolder, JobInHand, OneEngine, Connected,
       Executing, Mine, LoseConnection, Fault
  <2>3. OwnedIsAccounted'
    BY <1>27, IdType DEF TypeOK, LockHolder, JobInHand, OwnedIsAccounted,
       Connected, Executing, Mine, LoseConnection, Fault
  <2>4. LogIsComplete'
    BY <1>27, IdType DEF TypeOK, JobInHand, OneEngine, LogIsComplete,
       Executing, LoseConnection, Fault
  <2> QED
    BY <2>1, <2>2, <2>3, <2>4
<1>28. ASSUME NEW p \in Procs, ThreadDies(p) PROVE IInv'
  <2>1. TypeOK'
    BY <1>28, IdType DEF TypeOK, PCs, ThreadDies, Fault
  <2>2. (LockHolder /\ JobInHand /\ OneEngine)'
    BY <1>28, IdType DEF TypeOK, LockHolder, JobInHand, OneEngine, Connected,
       Executing, Mine, ThreadDies, Fault
  <2>3. OwnedIsAccounted'
    BY <1>28, IdType DEF TypeOK, LockHolder, JobInHand, OwnedIsAccounted,
       Connected, Executing, Mine, ThreadDies, Fault
  <2>4. LogIsComplete'
    BY <1>28, IdType DEF TypeOK, JobInHand, OneEngine, LogIsComplete,
       Executing, ThreadDies, Fault
  <2> QED
    BY <2>1, <2>2, <2>3, <2>4
<1>29. ASSUME NEW w \in WorkerIds, Expire(w) PROVE IInv'
  <2>1. /\ row' = [row EXCEPT ![w].fresh = FALSE]
        /\ UNCHANGED <<tables, lock, local, faults>>
    BY <1>29 DEF Expire
  <2>2. row[w] \in HeartbeatRow
    BY DEF TypeOK
  <2>3. [row[w] EXCEPT !.fresh = FALSE] \in HeartbeatRow
    BY <2>2 DEF HeartbeatRow
  <2>4. row' \in [WorkerIds -> HeartbeatRow]
    BY <2>1, <2>3 DEF TypeOK
  <2>5. TypeOK'
    BY <2>1, <2>4 DEF TypeOK
  <2>6. (LockHolder /\ JobInHand /\ OneEngine)'
    BY <2>1 DEF LockHolder, JobInHand, OneEngine, Executing
  <2>7. (OwnedIsAccounted /\ LogIsComplete)'
    BY <2>1 DEF OwnedIsAccounted, LogIsComplete, Connected, Executing, Mine
  <2> QED
    BY <2>5, <2>6, <2>7
<1>30. CASE UNCHANGED vars
  BY <1>30 DEF vars, TypeOK, LockHolder, JobInHand, OneEngine, OwnedIsAccounted,
     LogIsComplete, Connected, Executing, Mine
<1> QED
  BY <1>1, <1>2, <1>3, <1>4, <1>5, <1>6, <1>7, <1>8, <1>9, <1>10, <1>11, <1>12,
     <1>13, <1>14, <1>15, <1>16, <1>17, <1>18, <1>19, <1>20, <1>21, <1>22,
     <1>23, <1>24, <1>25, <1>26, <1>27, <1>28, <1>29, <1>30
  DEF Next, Step

(* The initial state has the invariant.                                    *)
LEMMA InitHasInv == Init => IInv
  BY DEF Init, IInv, TypeOK, LockHolder, JobInHand, OneEngine, OwnedIsAccounted,
         LogIsComplete, Executing, Mine, Connected, PCs, HeartbeatRow, NoRow

(* The inductive invariant holds in every reachable state.                 *)
THEOREM InductiveInvariant == Spec => []IInv
<1>1. Init => IInv
  BY InitHasInv
<1>2. IInv /\ [Next]_vars => IInv'
  BY NextKeepsInv
<1> QED
  BY <1>1, <1>2, PTL DEF Spec

(* Every variable keeps its type.                                          *)
THEOREM TypeCorrect == Spec => []TypeOK
<1>1. IInv => TypeOK
  BY DEF IInv
<1> QED
  BY <1>1, InductiveInvariant, PTL

(* No two processes ever run the engine on the same job.                   *)
THEOREM EngineExclusion == Spec => []OneEngine
<1>1. IInv => OneEngine
  BY DEF IInv
<1> QED
  BY <1>1, InductiveInvariant, PTL

(* A serving daemon leaves no running job of its own behind.               *)
THEOREM NothingAbandoned == Spec => []NoAbandonedJob
<1>1. IInv => NoAbandonedJob
  BY DEF IInv, OwnedIsAccounted, NoAbandonedJob
<1> QED
  BY <1>1, InductiveInvariant, PTL

-----------------------------------------------------------------------------
(* Heartbeats.  As long as a process holds its lock, only the process      *)
(* itself can delete its identity's row, and it does so when it leaves.    *)
LEMMA GoneKeepsLiveInv ==
  ASSUME IInv, DownIsSilent, BeatingMeansFresh, NEW p \in Procs, Gone(p)
  PROVE  (DownIsSilent /\ BeatingMeansFresh)'
<1>0. DownIsSilent'
  BY DEF DownIsSilent, Gone, IInv, TypeOK
<1> SUFFICES ASSUME Timely, NEW q \in Procs,
                    Connected(q)', thread'[q] = "beating", pc'[q] \notin {"exit", "closing"}
             PROVE  row'[Id(q)].fresh
  BY <1>0 DEF BeatingMeansFresh
<1>1. q # p /\ thread[q] = "beating" /\ pc[q] \notin {"exit", "closing"}
  BY DEF Gone, IInv, TypeOK
<1>2. Connected(q)
  BY <1>1, IdType DEF Gone, IInv, TypeOK, Connected
<1>3. row[Id(q)].fresh
  BY <1>1, <1>2 DEF BeatingMeansFresh
<1>4. row[Id(p)] \in HeartbeatRow /\ row \in [WorkerIds -> HeartbeatRow]
  BY IdType DEF IInv, TypeOK
<1>5. row'[Id(q)].fresh = row[Id(q)].fresh
  BY <1>4, IdType DEF Gone, HeartbeatRow
<1> QED
  BY <1>3, <1>5

(* Every step of the fleet keeps the rows of beating processes fresh.      *)
LEMMA NextKeepsLiveInv == LiveInv /\ [Next]_vars => LiveInv'
<1> SUFFICES ASSUME IInv, DownIsSilent, BeatingMeansFresh, [Next]_vars
             PROVE  (DownIsSilent /\ BeatingMeansFresh)'
  BY NextKeepsInv DEF LiveInv
<1> USE DEF DownIsSilent, BeatingMeansFresh, Connected, tables, local
<1> USE IdType DEF IInv, TypeOK
<1>1. ASSUME NEW j \in Jobs, Enqueue(j)
      PROVE  (DownIsSilent /\ BeatingMeansFresh)'
  BY <1>1 DEF Enqueue
<1>2. ASSUME NEW p \in Procs, Start(p)
      PROVE  (DownIsSilent /\ BeatingMeansFresh)'
  BY <1>2 DEF Start
<1>3. ASSUME NEW p \in Procs, NEW k \in Kinds, FailOwned(p, k)
      PROVE  (DownIsSilent /\ BeatingMeansFresh)'
  BY <1>3 DEF FailOwned, Swept
<1>4. ASSUME NEW p \in Procs, NEW k \in Kinds, FailOrphaned(p, k)
      PROVE  (DownIsSilent /\ BeatingMeansFresh)'
  BY <1>4 DEF FailOrphaned, Swept
<1>5. ASSUME NEW p \in Procs, Announce(p)
      PROVE  (DownIsSilent /\ BeatingMeansFresh)'
  BY <1>5 DEF Announce, Beaten
<1>6. ASSUME NEW p \in Procs, ProbePasses(p)
      PROVE  (DownIsSilent /\ BeatingMeansFresh)'
  BY <1>6 DEF ProbePasses
<1>7. ASSUME NEW p \in Procs, ProbeFails(p)
      PROVE  (DownIsSilent /\ BeatingMeansFresh)'
  BY <1>7 DEF ProbeFails
<1>8. ASSUME NEW p \in Procs, Advertise(p)
      PROVE  (DownIsSilent /\ BeatingMeansFresh)'
  BY <1>8 DEF Advertise, Beaten
<1>9. ASSUME NEW p \in Procs, Iterate(p)
      PROVE  (DownIsSilent /\ BeatingMeansFresh)'
  BY <1>9 DEF Iterate
<1>10. ASSUME NEW p \in Procs, Pick(p)
      PROVE  (DownIsSilent /\ BeatingMeansFresh)'
  <2>1. UNCHANGED <<lock, row, thread>> /\ pc[p] = "pick"
    BY <1>10 DEF Pick
  <2>2. \E next \in {"loop", "claim"} : pc' = [pc EXCEPT ![p] = next]
    BY <1>10 DEF Pick
  <2> QED
    BY <2>1, <2>2
<1>11. ASSUME NEW p \in Procs, ClaimNothing(p)
      PROVE  (DownIsSilent /\ BeatingMeansFresh)'
  BY <1>11 DEF ClaimNothing, Goto, DropJob
<1>12. ASSUME NEW p \in Procs, ClaimSound(p)
      PROVE  (DownIsSilent /\ BeatingMeansFresh)'
  BY <1>12 DEF ClaimSound, Goto
<1>13. ASSUME NEW p \in Procs, ClaimRejected(p)
      PROVE  (DownIsSilent /\ BeatingMeansFresh)'
  <2>1. UNCHANGED <<lock, row, thread>> /\ pc[p] = "claim"
    BY <1>13 DEF ClaimRejected
  <2>2. \E next \in {"loop", "reject", "exit"} : pc' = [pc EXCEPT ![p] = next]
    BY <1>13 DEF ClaimRejected, Goto
  <2> QED
    BY <2>1, <2>2
<1>14. ASSUME NEW p \in Procs, Reject(p)
      PROVE  (DownIsSilent /\ BeatingMeansFresh)'
  BY <1>14 DEF Reject, Goto, DropJob
<1>15. ASSUME NEW p \in Procs, AppendLog(p)
      PROVE  (DownIsSilent /\ BeatingMeansFresh)'
  BY <1>15 DEF AppendLog, Goto
<1>16. ASSUME NEW p \in Procs, EngineReturns(p)
      PROVE  (DownIsSilent /\ BeatingMeansFresh)'
  BY <1>16 DEF EngineReturns, Goto
<1>17. ASSUME NEW p \in Procs, EngineRaises(p)
      PROVE  (DownIsSilent /\ BeatingMeansFresh)'
  BY <1>17 DEF EngineRaises, Goto
<1>18. ASSUME NEW p \in Procs, CheckHeartbeat(p)
      PROVE  (DownIsSilent /\ BeatingMeansFresh)'
  BY <1>18 DEF CheckHeartbeat, Goto
<1>19. ASSUME NEW p \in Procs, FailJob(p)
      PROVE  (DownIsSilent /\ BeatingMeansFresh)'
  BY <1>19 DEF FailJob, Goto, DropJob
<1>20. ASSUME NEW p \in Procs, CompleteJob(p)
      PROVE  (DownIsSilent /\ BeatingMeansFresh)'
  BY <1>20 DEF CompleteJob, Goto, DropJob
<1>21. ASSUME NEW p \in Procs, Escapes(p)
      PROVE  (DownIsSilent /\ BeatingMeansFresh)'
  BY <1>21 DEF Escapes, Goto, DropJob
<1>22. ASSUME NEW p \in Procs, RemoveRow(p)
      PROVE  (DownIsSilent /\ BeatingMeansFresh)'
  BY <1>22 DEF RemoveRow, Goto, NoRow
<1>23. ASSUME NEW p \in Procs, Close(p)
      PROVE  (DownIsSilent /\ BeatingMeansFresh)'
  BY <1>23, GoneKeepsLiveInv DEF Close
<1>24. ASSUME NEW p \in Procs, NoticeLoss(p)
      PROVE  (DownIsSilent /\ BeatingMeansFresh)'
  BY <1>24, GoneKeepsLiveInv DEF NoticeLoss
<1>25. ASSUME NEW p \in Procs, Beat(p)
      PROVE  (DownIsSilent /\ BeatingMeansFresh)'
  BY <1>25 DEF Beat, Beaten
<1>26. ASSUME NEW p \in Procs, Crash(p)
      PROVE  (DownIsSilent /\ BeatingMeansFresh)'
  BY <1>26, GoneKeepsLiveInv DEF Crash
<1>27. ASSUME NEW p \in Procs, LoseConnection(p)
      PROVE  (DownIsSilent /\ BeatingMeansFresh)'
  BY <1>27 DEF LoseConnection, Fault
<1>28. ASSUME NEW p \in Procs, ThreadDies(p)
      PROVE  (DownIsSilent /\ BeatingMeansFresh)'
  BY <1>28 DEF ThreadDies, Fault
<1>29. ASSUME NEW w \in WorkerIds, Expire(w)
      PROVE  (DownIsSilent /\ BeatingMeansFresh)'
  BY <1>29 DEF Expire
<1>30. CASE UNCHANGED vars
  BY <1>30 DEF vars
<1> QED
  BY <1>1, <1>2, <1>3, <1>4, <1>5, <1>6, <1>7, <1>8, <1>9, <1>10, <1>11, <1>12,
     <1>13, <1>14, <1>15, <1>16, <1>17, <1>18, <1>19, <1>20, <1>21, <1>22,
     <1>23, <1>24, <1>25, <1>26, <1>27, <1>28, <1>29, <1>30
  DEF Next, Step

(* Nothing beats initially.                                                *)
LEMMA InitHasFresh == Init => DownIsSilent /\ BeatingMeansFresh
  BY DEF Init, DownIsSilent, BeatingMeansFresh

(* A daemon that beats and has its lock has a fresh row: while it works,   *)
(* no peer's sweep takes it for dead.                                      *)
THEOREM BeatingRowsAreFresh == Spec => []LiveInv
<1>1. Init => LiveInv
  BY InitHasInv, InitHasFresh DEF LiveInv
<1>2. LiveInv /\ [Next]_vars => LiveInv'
  BY NextKeepsLiveInv
<1> QED
  BY <1>1, <1>2, PTL DEF Spec

(* Who can fail a job that p runs: a process of p's identity, which would  *)
(* need p's lock; a peer, which would need p's heartbeat to be stale; or   *)
(* p, which then moves on.                                                 *)
LEMMA NextSpares == Timely /\ LiveInv /\ [Next]_vars => SparesLiveJobs
<1> SUFFICES ASSUME Timely, IInv, BeatingMeansFresh, [Next]_vars,
                    NEW p \in Procs,
                    Executing(p), Connected(p), thread[p] = "beating",
                    Mine(p, job[p]), status'[job[p]] = "failed"
             PROVE  pc'[p] # pc[p]
  BY DEF LiveInv, SparesLiveJobs
<1> DEFINE j == job[p]
<1>1. /\ j \in Jobs /\ status[j] = "running" /\ owner[j] = Id(p) /\ lock[Id(p)] = p
      /\ status \in [Jobs -> {"absent", "queued", "running", "succeeded", "failed"}]
      /\ row[Id(p)].fresh
  BY DEF IInv, TypeOK, JobInHand, Mine, Connected, Executing, BeatingMeansFresh
<1> HIDE DEF j
<1>2. ASSUME NEW q \in Procs, NEW k \in Kinds, FailOwned(q, k) PROVE FALSE
  <2>1. j \in OwnedBy(Id(q), k) /\ lock[Id(q)] = q /\ pc[q] = "owned_sweep"
    BY <1>1, <1>2 DEF FailOwned, FailAll, Connected, j
  <2>2. q = p
    BY <1>1, <2>1 DEF OwnedBy
  <2> QED
    BY <2>1, <2>2 DEF Executing
<1>3. ASSUME NEW q \in Procs, NEW k \in Kinds, FailOrphaned(q, k) PROVE FALSE
  BY <1>1, <1>3 DEF FailOrphaned, FailAll, Orphaned, j
<1>4. ASSUME NEW q \in Procs, Reject(q) PROVE FALSE
  <2>1. job[q] \in Jobs /\ lock[Id(q)] = q /\ pc[q] = "reject"
    BY <1>4 DEF Reject, IInv, JobInHand, Connected
  <2>2. job[q] = j /\ owner[j] = Id(q)
    BY <1>1, <1>4, <2>1 DEF Reject, SetRow, Mine, j
  <2>3. q = p
    BY <1>1, <2>1, <2>2
  <2> QED
    BY <2>1, <2>3 DEF Executing
<1>5. ASSUME NEW q \in Procs, FailJob(q) PROVE pc'[p] # pc[p]
  <2>1. job[q] = j /\ Executing(q)
    BY <1>1, <1>5 DEF FailJob, FailAll, Executing, j
  <2>2. q = p
    BY <2>1 DEF IInv, OneEngine, j
  <2> QED
    BY <1>5, <2>2 DEF FailJob, Goto, IInv, TypeOK
<1>6. ASSUME NEW q \in Procs, ClaimRejected(q) PROVE FALSE
  <2>1. job[q] \in Jobs /\ status[job[q]] = "queued"
    BY <1>6 DEF ClaimRejected, IInv, JobInHand
  <2> QED
    BY <1>1, <1>6, <2>1 DEF ClaimRejected, SetRow, j
<1>7. ASSUME NEW q \in Procs, ClaimSound(q) \/ CompleteJob(q) PROVE FALSE
  <2>1. job[q] \in Jobs
    BY <1>7 DEF ClaimSound, CompleteJob, IInv, JobInHand, Executing
  <2> QED
    BY <1>1, <1>7, <2>1 DEF ClaimSound, CompleteJob, SetRow, j
<1>8. ASSUME NEW i \in Jobs, Enqueue(i) PROVE FALSE
  BY <1>1, <1>8 DEF Enqueue, j
<1>9. CASE UNCHANGED status
  BY <1>1, <1>9 DEF j
<1> QED
  <2>1. ASSUME NEW q \in Procs,
               \/ Start(q) \/ Announce(q) \/ ProbePasses(q) \/ ProbeFails(q)
               \/ Advertise(q) \/ Iterate(q) \/ Pick(q) \/ ClaimNothing(q)
               \/ AppendLog(q) \/ EngineReturns(q) \/ EngineRaises(q)
               \/ CheckHeartbeat(q) \/ RemoveRow(q) \/ Close(q) \/ NoticeLoss(q)
               \/ Escapes(q) \/ Beat(q) \/ Crash(q) \/ LoseConnection(q) \/ ThreadDies(q)
        PROVE  UNCHANGED status
    BY <2>1 DEF tables, Start, Announce, ProbePasses, ProbeFails, Advertise,
       Iterate,
                Pick, ClaimNothing, AppendLog, EngineReturns, EngineRaises,
                CheckHeartbeat, RemoveRow, Close, NoticeLoss, Gone, Escapes, Beat,
                Crash,                 LoseConnection, ThreadDies
  <2>2. ASSUME NEW w \in WorkerIds, Expire(w) PROVE UNCHANGED status
    BY <2>2 DEF Expire, tables
  <2>3. CASE UNCHANGED vars
    BY <2>3, <1>9 DEF vars
  <2> QED
    BY <1>2, <1>3, <1>4, <1>5, <1>6, <1>7, <1>8, <1>9, <2>1, <2>2, <2>3
    DEF Next, Step

(* If a beating thread keeps its row fresh, no other process ever fails    *)
(* the job of a daemon that still has its lock.                            *)
THEOREM LiveJobsAreSpared ==
  ASSUME Timely
  PROVE  Spec => LiveJobIsSpared
<1>1. LiveInv /\ [Next]_vars => [SparesLiveJobs]_vars
  BY NextSpares
<1> QED
  BY <1>1, BeatingRowsAreFresh, PTL DEF Spec, LiveJobIsSpared

-----------------------------------------------------------------------------
(* Refinement.  A step that leaves the job tables alone is a stuttering    *)
(* step of JobLifecycle, and each statement the daemons send to a job      *)
(* table is one of its actions.                                            *)
Simulated == [Lifecycle!Next]_(Lifecycle!vars)

(* A step that leaves the job tables alone is a stuttering step.           *)
LEMMA StutterSimulated == UNCHANGED tables => Simulated
  BY DEF tables, Simulated, Lifecycle!vars

(* A sweep, a fail statement: an UPDATE of rows that are running.          *)
LEMMA FailSimulated ==
  ASSUME NEW S \in SUBSET Jobs, \A j \in S : status[j] = "running",
         FailAll(S), UNCHANGED <<owner, progress>>
  PROVE  Simulated
<1>1. Lifecycle!Fail(S)
  BY DEF Lifecycle!Fail, FailAll
<1> QED
  BY <1>1 DEF Simulated, Lifecycle!Next

(* A queued row that is failed at once is a rejection.                     *)
LEMMA RejectionSimulated ==
  ASSUME NEW j \in Jobs, NEW w \in WorkerIds, status[j] = "queued",
         SetRow(j, "failed", w), UNCHANGED progress
  PROVE  Simulated
<1>1. Lifecycle!Reject(j, w)
  BY DEF Lifecycle!Reject, SetRow
<1> QED
  BY <1>1 DEF Simulated, Lifecycle!Next

(* The second transaction of a refused claim rejects the row, fails what   *)
(* is the identity's own, or does nothing.                                 *)
LEMMA RejectSimulated ==
  ASSUME IInv, NEW p \in Procs, Reject(p)
  PROVE  Simulated
<1>1. job[p] \in Jobs /\ Id(p) \in WorkerIds /\ UNCHANGED progress
  BY IdType DEF IInv, JobInHand, Reject
<1>2. CASE status[job[p]] = "queued"
  BY <1>1, <1>2, RejectionSimulated DEF Reject
<1>3. CASE status[job[p]] # "queued" /\ Mine(p, job[p])
  <2>1. SetRow(job[p], "failed", Id(p))
    BY <1>3 DEF Reject
  <2>2. status[job[p]] = "running" /\ owner[job[p]] = Id(p)
    BY <1>3 DEF Mine
  <2>3. FailAll({job[p]})
    BY <1>1, <2>1 DEF SetRow, FailAll, IInv, TypeOK
  <2>4. UNCHANGED owner
    BY <1>1, <2>1, <2>2 DEF SetRow, IInv, TypeOK
  <2> QED
    BY <1>1, <2>2, <2>3, <2>4, FailSimulated
<1>4. CASE status[job[p]] # "queued" /\ ~Mine(p, job[p])
  BY <1>1, <1>4, StutterSimulated DEF Reject, tables
<1> QED
  BY <1>2, <1>3, <1>4

(* A claim claims the row, rejects it, or does nothing.                    *)
LEMMA ClaimSimulated ==
  ASSUME IInv, NEW p \in Procs, ClaimSound(p) \/ ClaimRejected(p)
  PROVE  Simulated
<1>1. /\ job[p] \in Jobs /\ Id(p) \in WorkerIds
      /\ status[job[p]] = "queued" /\ UNCHANGED progress
  BY IdType DEF IInv, JobInHand, ClaimSound, ClaimRejected
<1>2. CASE ClaimSound(p)
  <2>1. Lifecycle!Claim(job[p], Id(p))
    BY <1>1, <1>2 DEF ClaimSound, SetRow, Lifecycle!Claim
  <2> QED
    BY <1>1, <2>1 DEF Simulated, Lifecycle!Next
<1>3. CASE ClaimRejected(p)
  <2>1. \/ SetRow(job[p], "failed", Id(p))
        \/ UNCHANGED <<status, owner>>
    BY <1>3 DEF ClaimRejected
  <2> QED
    BY <1>1, <2>1, RejectionSimulated, StutterSimulated DEF tables
<1> QED
  BY <1>2, <1>3

(* An append adds one entry to a running job's log, or nothing.            *)
LEMMA AppendSimulated ==
  ASSUME IInv, NEW p \in Procs, AppendLog(p)
  PROVE  Simulated
<1>1. job[p] \in Jobs /\ UNCHANGED <<status, owner>>
  BY DEF IInv, JobInHand, Executing, AppendLog
<1>2. CASE Mine(p, job[p])
  <2>1. Lifecycle!Append(job[p])
    BY <1>1, <1>2 DEF AppendLog, Mine, Lifecycle!Append
  <2> QED
    BY <1>1, <2>1 DEF Simulated, Lifecycle!Next
<1>3. CASE ~Mine(p, job[p])
  BY <1>1, <1>3, StutterSimulated DEF AppendLog, tables
<1> QED
  BY <1>2, <1>3

(* A fail statement fails the running job in hand, or nothing.             *)
LEMMA FailJobSimulated ==
  ASSUME NEW p \in Procs, FailJob(p)
  PROVE  Simulated
<1> DEFINE S == {job[p]} \cap {j \in Jobs : Mine(p, j)}
<1>1. FailAll(S) /\ UNCHANGED <<owner, progress>>
  BY DEF FailJob
<1>2. S \in SUBSET Jobs /\ \A j \in S : status[j] = "running"
  BY DEF Mine
<1> QED
  BY <1>1, <1>2, FailSimulated

(* A completion succeeds over a complete log, or does nothing.             *)
LEMMA CompleteSimulated ==
  ASSUME IInv, NEW p \in Procs, CompleteJob(p)
  PROVE  Simulated
<1>1. job[p] \in Jobs /\ UNCHANGED <<owner, progress>> /\ pc[p] = "complete"
  BY DEF IInv, JobInHand, Executing, CompleteJob
<1>2. CASE Mine(p, job[p])
  <2>1. progress[job[p]] = LogLength[job[p]]
    BY <1>1 DEF IInv, LogIsComplete
  <2>2. Lifecycle!Succeed(job[p])
    BY <1>1, <1>2, <2>1 DEF CompleteJob, Mine, Lifecycle!Succeed
  <2> QED
    BY <1>1, <2>2 DEF Simulated, Lifecycle!Next
<1>3. CASE ~Mine(p, job[p])
  BY <1>1, <1>3, StutterSimulated DEF CompleteJob, tables
<1> QED
  BY <1>2, <1>3

(* A sweep fails running jobs only.                                        *)
LEMMA SweepSimulated ==
  ASSUME NEW p \in Procs, NEW k \in Kinds, FailOwned(p, k) \/ FailOrphaned(p, k)
  PROVE  Simulated
<1>1. CASE FailOwned(p, k)
  <2>1. /\ OwnedBy(Id(p), k) \in SUBSET Jobs
        /\ \A j \in OwnedBy(Id(p), k) : status[j] = "running"
    BY DEF OwnedBy
  <2> QED
    BY <1>1, <2>1, FailSimulated DEF FailOwned
<1>2. CASE FailOrphaned(p, k)
  <2>1. Orphaned(k) \in SUBSET Jobs /\ \A j \in Orphaned(k) : status[j] = "running"
    BY DEF Orphaned
  <2> QED
    BY <1>2, <2>1, FailSimulated DEF FailOrphaned
<1> QED
  BY <1>1, <1>2

(* Every step of the fleet maps to a step of JobLifecycle or a stutter.    *)
LEMMA NextSimulated == IInv /\ [Next]_vars => Simulated
<1> SUFFICES ASSUME IInv, [Next]_vars PROVE Simulated
  OBVIOUS
<1>1. ASSUME NEW j \in Jobs, Enqueue(j) PROVE Simulated
  BY <1>1 DEF Enqueue, Simulated, Lifecycle!Next, Lifecycle!Enqueue
<1>2. ASSUME NEW p \in Procs, NEW k \in Kinds, FailOwned(p, k) \/ FailOrphaned(p, k)
      PROVE  Simulated
  BY <1>2, SweepSimulated
<1>3. ASSUME NEW p \in Procs,
             \/ Start(p) \/ Announce(p) \/ ProbePasses(p) \/ ProbeFails(p)
             \/ Advertise(p) \/ Iterate(p) \/ Pick(p) \/ ClaimNothing(p)
             \/ EngineReturns(p) \/ EngineRaises(p) \/ CheckHeartbeat(p)
             \/ Escapes(p) \/ RemoveRow(p) \/ Beat(p) \/ LoseConnection(p) \/ ThreadDies(p)
      PROVE  Simulated
  <2>1. UNCHANGED tables
    BY <1>3 DEF tables, Start, Announce, ProbePasses, ProbeFails, Advertise,
       Iterate,
                Pick, ClaimNothing, EngineReturns, EngineRaises, CheckHeartbeat,
                Escapes, RemoveRow, Beat, LoseConnection, ThreadDies
  <2> QED
    BY <2>1, StutterSimulated
<1>4. ASSUME NEW p \in Procs, Close(p) \/ NoticeLoss(p) \/ Crash(p)
      PROVE  Simulated
  BY <1>4, StutterSimulated DEF Close, NoticeLoss, Crash, Gone
<1>5. ASSUME NEW p \in Procs, ClaimSound(p) \/ ClaimRejected(p) PROVE Simulated
  BY <1>5, ClaimSimulated
<1>6. ASSUME NEW p \in Procs, Reject(p) PROVE Simulated
  BY <1>6, RejectSimulated
<1>7. ASSUME NEW p \in Procs, AppendLog(p) PROVE Simulated
  BY <1>7, AppendSimulated
<1>8. ASSUME NEW p \in Procs, FailJob(p) PROVE Simulated
  BY <1>8, FailJobSimulated
<1>9. ASSUME NEW p \in Procs, CompleteJob(p) PROVE Simulated
  BY <1>9, CompleteSimulated
<1>10. ASSUME NEW w \in WorkerIds, Expire(w) PROVE Simulated
  BY <1>10, StutterSimulated DEF Expire
<1>11. CASE UNCHANGED vars
  BY <1>11, StutterSimulated DEF vars, tables
<1> QED
  BY <1>1, <1>2, <1>3, <1>4, <1>5, <1>6, <1>7, <1>8, <1>9, <1>10, <1>11
  DEF Next, Step

(* The fleet implements the promise of the job queues: claimed at most     *)
(* once, a monotonic log, one final status, success over a full log only.  *)
THEOREM FleetImplementsLifecycle == Spec => LifecycleSpec
<1>1. Init => Lifecycle!Init
  BY DEF Init, Lifecycle!Init
<1>2. IInv /\ [Next]_vars => [Lifecycle!Next]_(Lifecycle!vars)
  BY NextSimulated DEF Simulated
<1> QED
  BY <1>1, <1>2, InductiveInvariant, PTL DEF Spec, LifecycleSpec,
     Lifecycle!Spec

=============================================================================
