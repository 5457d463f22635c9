----------------------------- MODULE SchemaGuards -----------------------------
(***************************************************************************)
(* What the triggers of the migrations guarantee whatever the clients of   *)
(* the database do.  Sessions open transactions under READ COMMITTED and   *)
(* run arbitrary statements on two parent rows of one family of tables and *)
(* on their children: nothing of the application is assumed, a statement   *)
(* is limited by its trigger, its unique key and PostgreSQL's row locks    *)
(* only.  A statement a trigger refuses aborts its transaction, which is   *)
(* the action Rollback; a statement that must wait for a lock is not       *)
(* enabled until the lock can be granted, and then sees what committed in  *)
(* the meantime, as a locking SELECT of PostgreSQL does.                   *)
(*                                                                         *)
(* A trigger that counts children sees the committed ones and those of its *)
(* own transaction, never the uncommitted ones of another: only the lock   *)
(* the child's trigger takes on the parent makes the count binding.        *)
(***************************************************************************)
EXTENDS SchemaTables, FiniteSets

CONSTANTS
  Sessions,     \* the database sessions: API processes, workers, importers
  Parents       \* the parent rows they work on

ASSUME SessionsAssumption == Sessions # {} /\ Parents # {}

VARIABLES
  table,        \* the family of tables this behaviour is about
  row,          \* the committed status and finished rounds of each parent
  kids,         \* the committed children of each parent
  own,          \* the parent versions a session has written, not committed
  put, cut,     \* the children a session inserted or deleted, not committed
  held          \* the lock a session's transaction holds on each parent

vars == <<table, row, kids, own, put, cut, held>>

(* One position more than a closed parent may fill, so that a parent can be*)
(* too full as well as not full enough.                                    *)
Child == [at: 0..Full, round: 0..Full]

Phases == {"none", "draft", "sealed", "queued", "running", "succeeded",
           "failed", "live"}
Row    == [phase: Phases, round: 0..Full]
Same   == [phase |-> "unchanged", round |-> 0]

Start    == [sheet |-> "draft", job |-> "queued",  ledger |-> "live"]
Writable == [sheet |-> "draft", job |-> "running", ledger |-> "live"]
Closed   == {"sealed", "succeeded"}
Final    == Closed \cup {"failed"}

TypeOK ==
  /\ table \in Tables
  /\ row \in [Parents -> Row]
  /\ kids \in [Parents -> SUBSET Child]
  /\ own \in [Sessions -> [Parents -> Row \cup {Same}]]
  /\ put \in [Sessions -> [Parents -> SUBSET Child]]
  /\ cut \in [Sessions -> [Parents -> SUBSET Child]]
  /\ held \in [Sessions -> [Parents -> {"no", "share", "update"}]]

-------------------------------------------------------------------------------
(* What session s sees of parent p.                                        *)
Seen(s, p)     == IF own[s][p] = Same THEN row[p] ELSE own[s][p]
SeenKids(s, p) == (kids[p] \ cut[s][p]) \cup put[s][p]

(* Row locks: any number of sessions share a row, one alone updates it.    *)
CanLock(s, p, mode) ==
  \A t \in Sessions \ {s} :
    IF mode = "update" THEN held[t][p] = "no" ELSE held[t][p] # "update"

Stronger(s, p, mode) == IF held[s][p] = "update" THEN "update" ELSE mode

Lock(s, p, mode) ==
  /\ CanLock(s, p, mode)
  /\ held' = [held EXCEPT ![s][p] = Stronger(s, p, mode)]

(* Faulty variant: the trigger reads the parent without FOR UPDATE or      *)
(* FOR SHARE.                                                              *)
ReadParentUnlocked(s, p) == UNCHANGED held

(* The lock the child's trigger takes on the parent it reads.              *)
ReadParent(s, p) == Lock(s, p, table.lock)

-------------------------------------------------------------------------------
(* The counts the parent's trigger makes when the parent is closed.        *)
Filled(K) == \E n \in table.least..Full :
               /\ {c.at : c \in K} = 0..(n - 1)
               /\ Cardinality(K) = n

RoundDone(K, r) == Cardinality({c \in K : c.round = r}) = 1

Complete(K) ==
  /\ Filled(K)
  /\ table.rounds => \A r \in 1..Full : RoundDone(K, r)

(* Faulty variant: the failing transition does not look at the answers.    *)
MayFailAnyhow(K) == TRUE

MayFail(K) == table.failing = "empty" => K = {}

-------------------------------------------------------------------------------
(* INSERT of a draft parent: the insert trigger refuses any other status.  *)
InsertParent(s, p) ==
  /\ table.life = "sheet"
  /\ Seen(s, p).phase = "none"
  /\ Lock(s, p, "update")
  /\ own' = [own EXCEPT ![s][p] = [phase |-> "draft", round |-> 0]]
  /\ UNCHANGED <<table, row, kids, put, cut>>

(* DELETE of a parent that has not left its first status.                  *)
DeleteParent(s, p) ==
  /\ table.drop # "never"
  /\ Seen(s, p).phase = Start[table.life]
  /\ table.drop = "childless" => SeenKids(s, p) = {}
  /\ Lock(s, p, "update")
  /\ own' = [own EXCEPT ![s][p] = [phase |-> "none", round |-> 0]]
  /\ put' = [put EXCEPT ![s][p] = {}]
  /\ cut' = [cut EXCEPT ![s][p] = kids[p]]
  /\ UNCHANGED <<table, row, kids>>

(* Whether the child's trigger and its unique key admit c below p.  A key  *)
(* another session inserted and has not committed makes the insert wait.   *)
Admits(s, p, c) ==
  /\ Seen(s, p).phase = Writable[table.life]
  /\ c.round = (IF table.rounds THEN Seen(s, p).round + 1 ELSE 0)
  /\ table.next => c.at = Cardinality(SeenKids(s, p))
  /\ \A d \in SeenKids(s, p) \cup UNION {put[t][p] : t \in Sessions} : d.at # c.at

InsertChild(s, p, c) ==
  /\ Admits(s, p, c)
  /\ ReadParent(s, p)
  /\ put' = [put EXCEPT ![s][p] = @ \cup {c}]
  /\ UNCHANGED <<table, row, kids, own, cut>>

Removes(s, p, c) ==
  /\ c \in SeenKids(s, p)
  /\ \A t \in Sessions \ {s} : c \notin cut[t][p]

DeleteChild(s, p, c) ==
  /\ table.remove
  /\ ReadParent(s, p)
  /\ Seen(s, p).phase = Writable[table.life]
  /\ Removes(s, p, c)
  /\ put' = [put EXCEPT ![s][p] = @ \ {c}]
  /\ cut' = [cut EXCEPT ![s][p] = @ \cup (kids[p] \cap {c})]
  /\ UNCHANGED <<table, row, kids, own>>

(* Faulty variant: no trigger looks at the old parent.                     *)
LooksAtNewOnly(s, p) == TRUE

(* UPDATE of the column a child names its parent in.  Two of the triggers  *)
(* look at the new parent only.                                            *)
LooksAtOld(s, p) ==
  table.move = "both" => Seen(s, p).phase = Writable[table.life]

MoveChild(s, p, q, c, d) ==
  /\ table.move # "refused"
  /\ p # q
  /\ Admits(s, q, d)
  /\ Removes(s, p, c)
  /\ LooksAtOld(s, p)
  /\ CanLock(s, q, table.lock)
  /\ table.move = "both" => CanLock(s, p, table.lock)
  /\ held' = [held EXCEPT ![s][q] = Stronger(s, q, table.lock),
                          ![s][p] = IF table.move = "both"
                                    THEN Stronger(s, p, table.lock) ELSE @]
  /\ put' = [put EXCEPT ![s][p] = @ \ {c}, ![s][q] = @ \cup {d}]
  /\ cut' = [cut EXCEPT ![s][p] = @ \cup (kids[p] \cap {c})]
  /\ UNCHANGED <<table, row, kids, own>>

(* UPDATE of the parent.  PostgreSQL locks the row before its trigger runs.*)
Become(s, p, r) ==
  /\ Lock(s, p, "update")
  /\ own' = [own EXCEPT ![s][p] = r]
  /\ UNCHANGED <<table, row, kids, put, cut>>

Seal(s, p) ==
  /\ table.life = "sheet"
  /\ Seen(s, p).phase = "draft"
  /\ Complete(SeenKids(s, p))
  /\ Become(s, p, [phase |-> "sealed", round |-> 0])

Claim(s, p) ==
  /\ Seen(s, p) = [phase |-> "queued", round |-> 0]
  /\ Become(s, p, [phase |-> "running", round |-> 0])

(* Faulty variant: the round counter moves on without a look at the events *)
(* or at the number of rounds.                                             *)
AdvanceRoundBlindly(s, p) ==
  /\ table.rounds
  /\ Seen(s, p).phase = "running"
  /\ Become(s, p, [phase |-> "running", round |-> Seen(s, p).round + 1])

AdvanceRound(s, p) ==
  /\ table.rounds
  /\ Seen(s, p).phase = "running"
  /\ Seen(s, p).round < Full
  /\ RoundDone(SeenKids(s, p), Seen(s, p).round + 1)
  /\ \A c \in SeenKids(s, p) : c.round <= Seen(s, p).round + 1
  /\ Become(s, p, [phase |-> "running", round |-> Seen(s, p).round + 1])

Succeed(s, p) ==
  /\ Seen(s, p).phase = "running"
  /\ Complete(SeenKids(s, p))
  /\ Become(s, p, [phase |-> "succeeded",
                   round |-> IF table.rounds THEN Full ELSE 0])

Fail(s, p) ==
  /\ Seen(s, p).phase = "running"
  /\ MayFail(SeenKids(s, p))
  /\ Become(s, p, [phase |-> "failed", round |-> Seen(s, p).round])

-------------------------------------------------------------------------------
Nothing == [p \in Parents |-> {}]

End(s) ==
  /\ own' = [own EXCEPT ![s] = [p \in Parents |-> Same]]
  /\ put' = [put EXCEPT ![s] = Nothing]
  /\ cut' = [cut EXCEPT ![s] = Nothing]
  /\ held' = [held EXCEPT ![s] = [p \in Parents |-> "no"]]
  /\ UNCHANGED table

Commit(s) ==
  /\ row' = [p \in Parents |-> Seen(s, p)]
  /\ kids' = [p \in Parents |-> SeenKids(s, p)]
  /\ End(s)

Rollback(s) ==
  /\ UNCHANGED <<row, kids>>
  /\ End(s)

Statement(s) ==
  \/ \E p \in Parents :
       \/ InsertParent(s, p)
       \/ DeleteParent(s, p)
       \/ Seal(s, p)
       \/ Claim(s, p)
       \/ AdvanceRound(s, p)
       \/ Succeed(s, p)
       \/ Fail(s, p)
  \/ \E p \in Parents, c \in Child : InsertChild(s, p, c)
  \/ \E p \in Parents : \E c \in SeenKids(s, p) :
       \/ DeleteChild(s, p, c)
       \/ \E q \in Parents, d \in Child : MoveChild(s, p, q, c, d)

Init ==
  /\ table \in Tables
  /\ row = [p \in Parents |->
             [phase |-> IF table.life = "sheet" THEN "none" ELSE Start[table.life],
              round |-> 0]]
  /\ kids = Nothing
  /\ own = [s \in Sessions |-> [p \in Parents |-> Same]]
  /\ put = [s \in Sessions |-> Nothing]
  /\ cut = [s \in Sessions |-> Nothing]
  /\ held = [s \in Sessions |-> [p \in Parents |-> "no"]]

Next == \E s \in Sessions : Statement(s) \/ Commit(s) \/ Rollback(s)

Spec == Init /\ [][Next]_vars

-------------------------------------------------------------------------------
(* A parent that is sealed or succeeded has exactly its children: as many  *)
(* as it declares, without a gap, one per round.  In the two families whose*)
(* trigger does not look at the old parent a child can be moved away.      *)
ClosedIsComplete ==
  table.move # "new" =>
    \A p \in Parents : row[p].phase \in Closed => Complete(kids[p])

(* What is sealed, succeeded or failed stays what it was, children         *)
(* included; in the two one-sided families children may only be lost.      *)
ClosedIsFrozen ==
  [][\A p \in Parents :
       row[p].phase \in Final =>
         /\ row'[p] = row[p]
         /\ kids'[p] \subseteq kids[p]
         /\ table.move # "new" => kids'[p] = kids[p]]_vars

(* Every round the trial has counted holds the one event of each persona,  *)
(* and no event is more than one round ahead.                              *)
RoundsInOrder ==
  table.rounds =>
    \A p \in Parents :
      /\ \A r \in 1..row[p].round : RoundDone(kids[p], r)
      /\ \A c \in kids[p] : c.round <= row[p].round + 1

(* A survey trial that failed has no answers.                              *)
FailedIsEmpty ==
  table.failing = "empty" =>
    \A p \in Parents : row[p].phase = "failed" => kids[p] = {}

-------------------------------------------------------------------------------
(* The inductive invariant.  What a session sees is settled at every       *)
(* moment, not only what is committed, and a session that has changed      *)
(* something below a parent holds a lock that keeps the parent open.       *)
Settled(r, K) ==
  /\ r.phase \in Closed => Complete(K)
  /\ r.phase = "failed" => MayFail(K)

InOrder(r, K) ==
  /\ \A i \in 1..r.round : RoundDone(K, i)
  /\ \A c \in K : c.round <= r.round + 1

LocksExclude ==
  \A s, t \in Sessions, p \in Parents :
    s # t /\ held[s][p] = "update" => held[t][p] = "no"

Holds(s, p) == held[s][p] \in {table.lock, "update"}

StillOpen(s, p) == own[s][p] = Same => row[p].phase = Writable[table.life]

ViewInv(s, p) ==
  /\ own[s][p] # Same => held[s][p] = "update" /\ row[p].phase \notin Final
  /\ put[s][p] # {} => Holds(s, p) /\ StillOpen(s, p)
  /\ table.move # "new" =>
       /\ cut[s][p] # {} => Holds(s, p) /\ StillOpen(s, p)
       /\ Settled(Seen(s, p), SeenKids(s, p))
  /\ table.rounds => InOrder(Seen(s, p), SeenKids(s, p))

RowInv(p) ==
  /\ table.move # "new" => Settled(row[p], kids[p])
  /\ table.rounds => InOrder(row[p], kids[p])

IInv ==
  /\ TypeOK
  /\ LocksExclude
  /\ \A s \in Sessions, p \in Parents : ViewInv(s, p)
  /\ \A p \in Parents : RowInv(p)

===============================================================================
