------------------------------- MODULE Requests -------------------------------
(***************************************************************************)
(* Concurrent requests to the API, each one transaction that executes the  *)
(* plan of its handler under PostgreSQL's READ COMMITTED: every statement  *)
(* sees what is committed when it starts and what its own transaction has  *)
(* written.  Meanwhile workers report other configurations, and one of     *)
(* them runs the job in the source row the requests share.                 *)
(***************************************************************************)
EXTENDS PlanShapes, FiniteSets

CONSTANTS
  Clients,      \* the requests; each one is answered once
  Scripts,      \* what they ask for: a set of functions from Clients to plans
  Configs,      \* the model configurations workers can have
  Original,     \* the one the source row was made with
  Budget        \* what a run or document has room for (max_tool_calls, 100)

ASSUME RequestAssumption ==
  /\ Original \in Configs /\ "none" \notin Configs
  /\ Budget \in Nat \ {0}

Steps == {"live", "key", "look", "absent", "child", "failed", "succeeded", "hold", "count", "spend",
          "insert", "snapshot", "status", "artifacts", "joined", "commit"}
Items == UNION {UNION {{s[c][k].of : k \in DOMAIN s[c]} : c \in Clients} : s \in Scripts}
Plans == {p \in Seq([do : Steps, of : Items]) : p # <<>> /\ p[Len(p)].do = "commit"}

(* Plans end with a commit, which is nobody's business but its own, and    *)
(* insert what pins a configuration read under lock after reading it.      *)
ASSUME PlanAssumption ==
  /\ Scripts \subseteq [Clients -> Plans]
  /\ \A s \in Scripts : \A c \in Clients : CommitsApart(s[c]) /\ PinsUnderLock(s[c])

VARIABLES
  plan,         \* what each request does
  rows,         \* the committed records
  live,         \* the configurations that live workers report
  source,       \* the job row requests share: its status, its artifacts
  pc,           \* the step each request is at
  answer,       \* how it was answered, "none" before
  tx            \* its open transaction

vars == <<plan, rows, live, source, pc, answer, tx>>

(* A transaction: the configuration it chose, the number it gave its row,  *)
(* its snapshot if it keeps one, what it read of the source, the records   *)
(* it inserted, its advisory locks, its lock of the source row and its lock*)
(* of the heartbeat table.                                                 *)
NewTx == [config |-> "none", at |-> 0, view |-> {}, status |-> "unread", filled |-> FALSE,
          pending |-> {}, keys |-> {}, holds |-> FALSE, shares |-> FALSE]

Statuses == {"queued", "running", "succeeded", "failed"}

-------------------------------------------------------------------------------
Busy(c)      == answer[c] = "none"
Doing(c, do) == Busy(c) /\ plan[c][pc[c]].do = do
Item(c)      == plan[c][pc[c]].of

Advance(c)   == pc' = [pc EXCEPT ![c] = @ + 1]
(* What was looked for is there: nothing more is done about the item.      *)
Skip(c) ==
  \E k \in DOMAIN plan[c] :
    /\ plan[c][k].of = Item(c)
    /\ \A j \in DOMAIN plan[c] : j > k => plan[c][j].of # Item(c)
    /\ pc' = [pc EXCEPT ![c] = k + 1]

(* Faulty variant: the advisory locks outlive the transaction.             *)
ReleaseRowsOnly(t) == [t EXCEPT !.view = {}, !.pending = {}, !.holds = FALSE, !.shares = FALSE]

(* What is left of a transaction that ends, and what its statements read.  *)
Release(t) == [t EXCEPT !.view = {}, !.pending = {}, !.keys = {}, !.holds = FALSE, !.shares = FALSE]

(* An answer without a commit: the session is closed, which rolls back.    *)
End(c, a) ==
  /\ answer' = [answer EXCEPT ![c] = a]
  /\ tx' = [tx EXCEPT ![c] = Release(@)]
  /\ UNCHANGED <<plan, rows, live, source, pc>>

Pin(c)     == IF Item(c).pinned THEN tx[c].config ELSE "none"
Digest(c)  == [item |-> Item(c), config |-> Pin(c)]
Visible(c) == rows \cup tx[c].pending
New(c)     == [item |-> Item(c), config |-> Pin(c), at |-> tx[c].at]

Siblings(c) == {r \in Visible(c) : /\ r.item.family = Item(c).family
                                   /\ r.item.under = Item(c).under}

(* Whether the unique key of the table refuses r beside q.                 *)
Clash(q, r) ==
  /\ q.item.family = r.item.family /\ q.item.under = r.item.under
  /\ CASE r.item.unique = "parent"   -> TRUE
       [] r.item.unique = "position" -> q.at = r.at
       [] r.item.unique = "none"     -> FALSE
       [] OTHER -> q.item = r.item /\ q.config = r.config

(* Whom the next statement of c waits for.                                 *)
Blockers(c) ==
  {d \in Clients \ {c} :
     \/ Doing(c, "key")    /\ Digest(c) \in tx[d].keys
     \/ Doing(c, "hold")   /\ tx[d].holds
     \/ Doing(c, "insert") /\ \E q \in tx[d].pending : Clash(q, New(c))}

-------------------------------------------------------------------------------
(* get_live_semantic_config and its like.                                  *)
Usable(i) ==
  CASE i.live \in {"locked", "agreed"} -> {k \in live : live = {k}}
    [] i.live = "frozen"               -> live \cap {Original}
    [] OTHER                           -> live

(* Faulty variant: the heartbeats are read without LOCK TABLE.             *)
TakesShareNever(i) == FALSE

TakesShare(i) == i.live = "locked"

ReadLive(c) ==
  /\ Doing(c, "live")
  /\ \E k \in Usable(Item(c)) :
       tx' = [tx EXCEPT ![c].config = k,
                        ![c].shares = @ \/ TakesShare(Item(c))]
  /\ Advance(c)
  /\ UNCHANGED <<plan, rows, live, source, answer>>

Unavailable(c) ==
  /\ Doing(c, "live") /\ Usable(Item(c)) = {}
  /\ End(c, "unavailable")

TakeKey(c) ==
  /\ Doing(c, "key") /\ Blockers(c) = {}
  /\ tx' = [tx EXCEPT ![c].keys = @ \cup {Digest(c)}]
  /\ Advance(c)
  /\ UNCHANGED <<plan, rows, live, source, answer>>

Hold(c) ==
  /\ Doing(c, "hold") /\ Blockers(c) = {}
  /\ tx' = [tx EXCEPT ![c].holds = TRUE]
  /\ Advance(c)
  /\ UNCHANGED <<plan, rows, live, source, answer>>

There(c) == \E r \in Visible(c) : [item |-> r.item, config |-> r.config] = Digest(c)

Look(c) ==
  /\ Doing(c, "look")
  /\ IF There(c) THEN Skip(c) ELSE Advance(c)
  /\ UNCHANGED <<plan, rows, live, source, answer, tx>>

LookForChild(c) ==
  /\ Doing(c, "child")
  /\ \/ Siblings(c) = {} /\ Advance(c)
     \/ (\E r \in Siblings(c) : r.item = Item(c)) /\ Skip(c)
  /\ UNCHANGED <<plan, rows, live, source, answer, tx>>

(* Another target has been sealed for the run.                             *)
OtherChild(c) ==
  /\ Doing(c, "child")
  /\ Siblings(c) # {} /\ \A r \in Siblings(c) : r.item # Item(c)
  /\ End(c, "rejected")

(* What is there already, and a source row in another status, is refused.  *)
(* A row that the transaction has read is not read again.                  *)
StatusFor(c) == IF tx[c].status = "unread" THEN source.status ELSE tx[c].status
Wanted(c)    == Doing(c, "failed") \/ Doing(c, "succeeded") \/ Doing(c, "absent")
Met(c)       == IF Doing(c, "absent") THEN ~There(c) ELSE StatusFor(c) = plan[c][pc[c]].do

Require(c) ==
  /\ Wanted(c) /\ Met(c)
  /\ Advance(c)
  /\ UNCHANGED <<plan, rows, live, source, answer, tx>>

Reject(c) ==
  /\ Wanted(c) /\ ~Met(c)
  /\ End(c, "rejected")

Count(c) ==
  /\ \/ Doing(c, "count")
     \/ Doing(c, "spend") /\ Cardinality(Siblings(c)) < Budget
  /\ tx' = [tx EXCEPT ![c].at = Cardinality(Siblings(c))]
  /\ Advance(c)
  /\ UNCHANGED <<plan, rows, live, source, answer>>

Exhausted(c) ==
  /\ Doing(c, "spend") /\ Cardinality(Siblings(c)) >= Budget
  /\ End(c, "rejected")

Insert(c) ==
  /\ Doing(c, "insert") /\ Blockers(c) = {}
  /\ \A q \in Visible(c) : ~Clash(q, New(c))
  /\ tx' = [tx EXCEPT ![c].pending = @ \cup {New(c)}]
  /\ Advance(c)
  /\ UNCHANGED <<plan, rows, live, source, answer>>

(* The unique key is there already: IntegrityError, which nothing handles. *)
Collide(c) ==
  /\ Doing(c, "insert") /\ Blockers(c) = {}
  /\ \E q \in Visible(c) : Clash(q, New(c))
  /\ End(c, "integrity_error")

CommitTx(c) ==
  /\ Doing(c, "commit")
  /\ rows' = rows \cup tx[c].pending
  /\ tx' = [tx EXCEPT ![c] = Release(@)]
  /\ IF pc[c] = Len(plan[c])
       THEN answer' = [answer EXCEPT ![c] = "ok"] /\ UNCHANGED pc
       ELSE Advance(c) /\ UNCHANGED answer
  /\ UNCHANGED <<plan, live, source>>

-------------------------------------------------------------------------------
(* A reader.  Its verification raises when the row it read is not done and *)
(* the artifacts it reads are there.                                       *)
Sees(c) == IF tx[c].view = {} THEN source ELSE CHOOSE v \in tx[c].view : TRUE
Torn(c) == tx[c].status \in Early(Item(c).family) /\ Sees(c).filled

TakeSnapshot(c) ==
  /\ Doing(c, "snapshot")
  /\ tx' = [tx EXCEPT ![c].view = {source}]
  /\ Advance(c)
  /\ UNCHANGED <<plan, rows, live, source, answer>>

ReadStatus(c) ==
  /\ Doing(c, "status")
  /\ tx' = [tx EXCEPT ![c].status = Sees(c).status]
  /\ Advance(c)
  /\ UNCHANGED <<plan, rows, live, source, answer>>

ReadArtifacts(c) ==
  /\ Doing(c, "artifacts") /\ ~Torn(c)
  /\ tx' = [tx EXCEPT ![c].filled = Sees(c).filled]
  /\ Advance(c)
  /\ UNCHANGED <<plan, rows, live, source, answer>>

Raise(c) ==
  /\ Doing(c, "artifacts") /\ Torn(c)
  /\ End(c, "raised")

ReadJoined(c) ==
  /\ Doing(c, "joined")
  /\ tx' = [tx EXCEPT ![c].status = Sees(c).status, ![c].filled = Sees(c).filled]
  /\ Advance(c)
  /\ UNCHANGED <<plan, rows, live, source, answer>>

-------------------------------------------------------------------------------
(* Through others c waits for itself: no set without c has in it all that  *)
(* c, and its own members, wait for.  PostgreSQL aborts one transaction of *)
(* such a cycle.                                                           *)
Deadlocked(c) ==
  \A S \in SUBSET (Clients \ {c}) :
    Blockers(c) \subseteq S => \E d \in S : ~(Blockers(d) \subseteq S)

Victim(c) ==
  /\ Busy(c) /\ Deadlocked(c)
  /\ End(c, "deadlock")

(* The client goes away, or the process dies, before the commit.           *)
Abandon(c) ==
  /\ Busy(c)
  /\ End(c, "lost")

Serve(c) ==
  \/ ReadLive(c) \/ Unavailable(c) \/ TakeKey(c) \/ Hold(c)
  \/ Look(c) \/ LookForChild(c) \/ OtherChild(c) \/ Require(c) \/ Reject(c)
  \/ Count(c) \/ Exhausted(c) \/ Insert(c) \/ Collide(c) \/ CommitTx(c)
  \/ TakeSnapshot(c) \/ ReadStatus(c) \/ ReadArtifacts(c) \/ Raise(c) \/ ReadJoined(c)
  \/ Victim(c)

(* Workers start, beat and are reconfigured: every heartbeat is a write to *)
(* the table a request may have locked.                                    *)
Heartbeat ==
  /\ \A c \in Clients : ~tx[c].shares
  /\ live' \in (SUBSET Configs) \ {live}
  /\ UNCHANGED <<plan, rows, source, pc, answer, tx>>

(* A worker that has not beaten for 30 s is live no more: no write, and no *)
(* lock is in its way.                                                     *)
GoStale ==
  /\ \E k \in live : live' = live \ {k}
  /\ UNCHANGED <<plan, rows, source, pc, answer, tx>>

(* A worker claims the source job and ends it, its artifacts in the same   *)
(* transaction as its success.                                             *)
SourceRuns ==
  /\ \A c \in Clients : ~tx[c].holds
  /\ \/ source.status = "queued"  /\ source' = [source EXCEPT !.status = "running"]
     \/ source.status = "running" /\ source' = [status |-> "succeeded", filled |-> TRUE]
     \/ source.status = "running" /\ source' = [source EXCEPT !.status = "failed"]
  /\ UNCHANGED <<plan, rows, live, pc, answer, tx>>

Init ==
  /\ plan \in Scripts
  /\ rows = {}
  /\ live \in SUBSET Configs
  /\ source \in {[status |-> s, filled |-> s = "succeeded"] : s \in Statuses}
  /\ pc = [c \in Clients |-> 1]
  /\ answer = [c \in Clients |-> "none"]
  /\ tx = [c \in Clients |-> NewTx]

Next == (\E c \in Clients : Serve(c) \/ Abandon(c)) \/ Heartbeat \/ GoStale \/ SourceRuns

(* The event loop serves every request that does not wait for a lock, and  *)
(* PostgreSQL looks for deadlocks.                                         *)
Spec == Init /\ [][Next]_vars /\ \A c \in Clients : WF_vars(Serve(c))

-------------------------------------------------------------------------------
Answers == {"none", "ok", "rejected", "unavailable", "integrity_error",
            "deadlock", "raised", "lost"}
Chosen  == Configs \cup {"none"}
Jobs    == [status : Statuses, filled : BOOLEAN]
Records == [item : Items, config : Chosen, at : Nat]
Txs     == [config : Chosen, at : Nat, view : SUBSET Jobs,
            status : Statuses \cup {"unread"}, filled : BOOLEAN, pending : SUBSET Records,
            keys : SUBSET [item : Items, config : Chosen], holds : BOOLEAN, shares : BOOLEAN]

TypeOK ==
  /\ plan \in Scripts
  /\ rows \subseteq Records /\ IsFiniteSet(rows)
  /\ live \subseteq Configs
  /\ source \in Jobs
  /\ pc \in [Clients -> Nat] /\ \A c \in Clients : pc[c] \in DOMAIN plan[c]
  /\ answer \in [Clients -> Answers]
  /\ tx \in [Clients -> Txs] /\ \A c \in Clients : IsFiniteSet(tx[c].pending)

(* An answered request has no open transaction; advisory locks and the lock*)
(* of the source row are exclusive.                                        *)
Closed(t) == t.pending = {} /\ t.keys = {} /\ ~t.holds /\ ~t.shares
Settled   == \A c \in Clients : ~Busy(c) => Closed(tx[c])
Exclusive == \A c, d \in Clients : c # d => /\ tx[c].keys \cap tx[d].keys = {}
                                          /\ ~(tx[c].holds /\ tx[d].holds)

(* Under the lock of the heartbeat table live workers report what was read *)
(* or, by and by, nothing, so that all who hold it have read the same; what*)
(* pins a configuration read under it is inserted under it.                *)
Steady == \A c \in Clients :
            /\ tx[c].shares => live \subseteq {tx[c].config}
            /\ \A d \in Clients : tx[c].shares /\ tx[d].shares => tx[c].config = tx[d].config
            /\ Busy(c) /\ UnderLock(plan[c], pc[c]) => tx[c].shares
            /\ \A r \in tx[c].pending :
                 r.item.live = "locked" => tx[c].shares /\ r.config = tx[c].config

(* Types, and the discipline of the locks.                                 *)
Discipline == TypeOK /\ Settled /\ Exclusive /\ Steady

(* The shapes every handler has.                                           *)
Shaped(s) ==
  /\ \A c \in Clients : /\ Whole(s[c]) /\ Covered(s[c]) /\ LocksInOrder(s[c])
                        /\ ReadsOn(s[c]) /\ InOneSnapshot(s[c])
  /\ SkipsWhole(s) /\ Agree(s)
Shapes == \A s \in Scripts : Shaped(s)

(* What a transaction has written, and the locks it holds, come from steps *)
(* it has done; and whatever it had to insert by now, it sees.             *)
Done(c, do) == {plan[c][j].of : j \in {k \in DOMAIN plan[c] : k < pc[c] /\ plan[c][k].do = do}}
Owned(c) ==
  /\ \A r \in tx[c].pending : r.item \in Done(c, "insert")
  /\ \A l \in tx[c].keys : l.item \in Done(c, "key")
  /\ tx[c].holds => Done(c, "hold") # {}
Seen(c) == Busy(c) => \A i \in Done(c, "insert") : \E r \in Visible(c) : r.item = i

(* What c would insert of item i, the lock other requests for it meet on,  *)
(* and what it must not find.                                              *)
Record(c, i)   == [item |-> i, config |-> IF i.pinned THEN tx[c].config ELSE "none",
                   at |-> tx[c].at]
Token(r)       == LET i == LockOf(r.item).of
                  IN  [item |-> i, config |-> IF i.pinned THEN r.config ELSE "none"]
Secured(t, r)  == IF LockOf(r.item).do = "hold" THEN t.holds ELSE Token(r) \in t.keys
Family(V, i)   == {r \in V : Alike(r.item, i)}
Rival(q, r)    == Alike(q.item, r.item)
                    /\ (r.item.unique = "digest" => q.item = r.item /\ q.config = r.config)
Clear(V, r)    == IF r.item.unique = "position" THEN r.at = Cardinality(Family(V, r.item))
                                                ELSE \A q \in V : ~Rival(q, r)

(* From its lock on a transaction keeps others from what it is to insert,  *)
(* from its check on there is nothing the insert could run into.           *)
Sealed(c) == \A r \in tx[c].pending : Spared(r.item) => Secured(tx[c], r)
Awaited(c, k) == Busy(c) /\ k >= pc[c] /\ plan[c][k].do = "insert" /\ Spared(plan[c][k].of)
Safe(c) == \A k \in DOMAIN plan[c] : Awaited(c, k) =>
  \E j, m \in DOMAIN plan[c] :
    /\ Cover(plan[c], j, m, k)
    /\ j < pc[c] => Secured(tx[c], Record(c, plan[c][k].of))
    /\ m < pc[c] => Clear(Visible(c), Record(c, plan[c][k].of))
Numbered(V) ==
  \A r \in V : r.item.unique = "position" => r.at < Cardinality(Family(V, r.item))

Guarded == Numbered(rows) /\ \A c \in Clients : Numbered(Visible(c)) /\ Sealed(c) /\ Safe(c)

(* A job has its artifacts when, and only when, it has succeeded, in every *)
(* snapshot; who has read that it has succeeded has them or will.          *)
Finished(j) == j.filled = (j.status = "succeeded")
Viewed(c)   == tx[c].view # {} => \E v \in tx[c].view : /\ tx[c].view = {v} /\ Finished(v)
                                                        /\ v.filled => source.filled
Informed(c) == tx[c].status = "succeeded" =>
  /\ source.filled /\ Sees(c).filled
  /\ answer[c] \in {"none", "ok"} => tx[c].filled \/ (Busy(c) /\ Due(plan[c], pc[c]))
(* Readers that verify in one snapshot have read the status in it.         *)
Snapped(c)  == Busy(c) =>
  /\ Verifies(plan[c][pc[c]]) => tx[c].view # {} /\ tx[c].status = Sees(c).status
  /\ pc[c] < Len(plan[c]) /\ Verifies(plan[c][pc[c] + 1]) => tx[c].view # {}

Read == Finished(source) /\ \A c \in Clients : Viewed(c) /\ Informed(c) /\ Snapped(c)

(* Types and locks, the shapes of the plans, and how they keep requests out*)
(* of each other's way.                                                    *)
IInv == Shapes /\ Discipline /\ (\A c \in Clients : Owned(c) /\ Seen(c)) /\ Guarded /\ Read

Asked(c) == Inserts(plan[c])

(* There is nothing in the tables that no request answered ok has asked    *)
(* for: a launch of a batch, an interview session, a policy capture that   *)
(* fails, at whatever step, leaves nothing behind.                         *)
NothingHalfDone ==
  \A r \in rows : \E c \in Clients : answer[c] = "ok" /\ r.item \in Asked(c)

(* A request that is answered ok finds everything it asked for, made by    *)
(* itself or by another one, whichever part was there before.              *)
EverythingThere ==
  \A c \in Clients : answer[c] = "ok" => \A i \in Asked(c) : \E r \in rows : r.item = i

(* The lock on the content digest spares every request a violation of a    *)
(* unique key, except seven: a project, its agenda context and its run,    *)
(* created without a lock, the retries of chat, web and Linux evaluations, *)
(* whose digest covers a configuration that may have changed since the     *)
(* other retry, and two different targets of one run.                      *)
OnlyTheseCollide ==
  \A c \in Clients : answer[c] = "integrity_error" => \E i \in Asked(c) : Collides(i)

(* Locks are taken in one order by all requests, a batch launch sorts its  *)
(* items for that, except for interview sessions, which lock the members   *)
(* in the order of the request.                                            *)
OnlySessionsDeadlock ==
  \A c \in Clients : answer[c] = "deadlock" => InSession(plan[c])

(* When a record that pins the configuration read under LOCK TABLE is      *)
(* committed, no live worker reports another one.  Its own worker may have *)
(* died before and be live no more: that takes no write.                   *)
NoRivalWhenCommitted ==
  [][\A r \in rows' \ rows : r.item.live = "locked" => live \subseteq {r.config}]_vars

(* No reader presents a finished job without its artifacts, although it    *)
(* reads the two in statements of their own.                               *)
ReadsAreWhole ==
  \A c \in Clients : answer[c] = "ok" /\ tx[c].status = "succeeded" => tx[c].filled

(* The readers that raise over a job which ends between their statements   *)
(* are those under READ COMMITTED; GET of a world graph and the archive's  *)
(* verification, which check as much, read one snapshot and never do.      *)
OnlyTheseRaise ==
  \A c \in Clients : answer[c] = "raised" =>
    Item(c).family \in Raising

(* Every request is answered, whatever the others wait for.                *)
EveryRequestAnswered == \A c \in Clients : <>(answer[c] # "none")

===============================================================================
