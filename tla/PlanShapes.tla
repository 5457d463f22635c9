------------------------------ MODULE PlanShapes ------------------------------
(***************************************************************************)
(* What the plans of the handlers have in common, and what keeps any number*)
(* of requests with such plans from half-done work, from violations of a   *)
(* unique key, from deadlocks and from torn reads.  A shape is a property  *)
(* of one plan, or of a script, the plans of requests that run together.   *)
(***************************************************************************)
EXTENDS RequestPlans

Inserts(p)  == {p[k].of : k \in {j \in DOMAIN p : p[j].do = "insert"}}
Finds(x)    == x.do \in {"look", "child"}

(* Step k of plan p is about an item whose configuration has been read     *)
(* under LOCK TABLE by this transaction.                                   *)
UnderLock(p, k) ==
  /\ p[k].of.live = "locked"
  /\ \E j \in 1..(k - 1) : /\ p[j].do = "live"
                           /\ \A i \in j..k : p[i].of = p[k].of /\ p[i].do # "commit"

(* A commit is about nothing but its transaction.                          *)
CommitsApart(p) ==
  \A j, k \in DOMAIN p : p[j].do = "commit" /\ p[k].of = p[j].of => p[k].do = "commit"

(* What pins a configuration read under lock is inserted after reading it. *)
PinsUnderLock(p) ==
  \A k \in DOMAIN p : p[k].do = "insert" /\ p[k].of.live = "locked" =>
    p[k].of.pinned /\ UnderLock(p, k)

-------------------------------------------------------------------------------
(* What a plan inserts it commits at its end, and with everything else.    *)
Whole(p) ==
  \A j, k \in DOMAIN p : p[j].do = "insert" /\ p[k].do = "commit" /\ j < k => k = Len(p)

(* The insert at k is jumped over when step x finds its item.              *)
Jumped(p, x, k) ==
  /\ Finds(p[x]) /\ x < k /\ p[k].do = "insert" /\ p[k].of # p[x].of
  /\ \E n \in DOMAIN p : n > k /\ p[n].of = p[x].of

(* What is jumped over when an item is found has been made together with   *)
(* it by whoever made it, and not by the request itself.                   *)
SkipsWhole(s) ==
  \A c \in DOMAIN s : \A x, k \in DOMAIN s[c] : Jumped(s[c], x, k) =>
    /\ \A j \in DOMAIN s[c] : s[c][j].do = "insert" /\ s[c][j].of = s[c][x].of => j > x
    /\ \A d \in DOMAIN s : s[c][x].of \in Inserts(s[d]) => s[c][k].of \in Inserts(s[d])

-------------------------------------------------------------------------------
(* What the lock on a content digest does not spare a violation of a unique *)
(* key.                                                                    *)
Collides(i) ==
  \/ i.unique = "digest" /\ i.family \in {"research run", "research project", "agenda context"}
  \/ i.unique = "parent" /\ i.family \in {"chat evaluation", "web evaluation",
                                         "linux trial", "target"}
Spared(i)   == i.unique # "none" /\ ~Collides(i)
Alike(i, j) == i.family = j.family /\ i.under = j.under

KeyOf(i)    == [do |-> "key", of |-> i]
SourceLock  == [do |-> "hold", of |-> Thing("source", 0)]
(* The lock that requests for the same thing meet on: that on the digest,  *)
(* that on the bundle or the document it belongs to, or that on its parent.*)
LockOf(i) ==
  IF i.unique = "digest" \/ (i.unique = "parent" /\ i.family = "survey experiment") THEN KeyOf(i)
  ELSE CASE i.family \in {"task bundle", "research survey"} -> KeyOf(Bundle)
         [] i.family = "policy version"                    -> KeyOf(Document)
         [] OTHER                                          -> SourceLock
Takes(x, l) == x.do = l.do /\ (l.do = "hold" \/ x.of = l.of)

(* The statement that finds, or counts, what the insert could run into.    *)
Checks(x, i) ==
  /\ x.of = i
  /\ CASE i.unique = "digest"   -> x.do = "look"
       [] i.unique = "position" -> x.do \in {"count", "spend"}
       [] OTHER                 -> x.do = "child"

(* Whoever gets to step k from before step j has done step j.              *)
Straight(p, j, k) ==
  \A x, n \in DOMAIN p :
    Finds(p[x]) /\ x < j /\ j <= n /\ n < k /\ p[n].of = p[x].of =>
      \E z \in DOMAIN p : z >= k /\ p[z].of = p[x].of

(* The insert at k is covered by the lock taken at j, kept until then, and *)
(* by the check at m, which stays true until then.                         *)
Cover(p, j, m, k) ==
  LET i == p[k].of
  IN  /\ j < m /\ m < k
      /\ Takes(p[j], LockOf(i)) /\ Checks(p[m], i)
      /\ \A n \in DOMAIN p : j <= n /\ n <= k =>
           p[n].do # "commit" /\ (LockOf(i).of.pinned => p[n].do # "live")
      /\ \A n \in DOMAIN p : m < n /\ n < k =>
           p[n].do \notin {"count", "spend"} /\ (p[n].do = "insert" => ~Alike(p[n].of, i))
      /\ Straight(p, j, k) /\ Straight(p, m, k)

Covered(p) ==
  \A k \in DOMAIN p : p[k].do = "insert" /\ Spared(p[k].of) =>
    \E j, m \in DOMAIN p : Cover(p, j, m, k)

(* Requests for things of one table under one parent agree on the unique   *)
(* key and on the lock.                                                    *)
Agree(s) ==
  LET items == UNION {Inserts(s[c]) : c \in DOMAIN s}
  IN  /\ \A i, j \in items : Alike(i, j) =>
           /\ i.unique = j.unique /\ (Collides(i) <=> Collides(j))
           /\ Spared(i) /\ i.unique # "digest" => LockOf(i) = LockOf(j)
      /\ \A i \in items : Spared(i) /\ i.unique # "digest" /\ LockOf(i).of.pinned =>
           i.live = "locked"

-------------------------------------------------------------------------------
(* The order of the locks.  An insert that may run into the insert of an   *)
(* open transaction waits for its end, like the taker of a lock.           *)
Grabs(x) == \/ x.do \in {"key", "hold"}
            \/ x.do = "insert" /\ Collides(x.of)

First == {"cohort", "linux trial", "policy source", "interview session",
          "run interview session"}
Final == {"linux evaluation", "batch registry"}
Level(x) ==
  IF x.do = "key"
    THEN CASE x.of.family \in First       -> 1
           [] x.of.family = "task bundle" -> 3
           [] x.of.family \in Final       -> 4
           [] OTHER                       -> 2
    ELSE IF x.do = "hold" THEN 0 ELSE IF x.of.family = "agenda context" THEN 4 ELSE 3
(* A launch takes the locks of several evaluations.                        *)
Turn(x)      == IF x.do = "key" /\ x.of.family = "chat evaluation" THEN x.of.name ELSE 0
Before(x, y) == \/ Level(x) < Level(y)
                \/ Level(x) = Level(y) /\ Turn(x) < Turn(y)

InSession(p) == \E i \in Inserts(p) : i.family \in {"interview session", "run interview session"}

LocksInOrder(p) ==
  /\ \A k \in DOMAIN p : Grabs(p[k]) => Turn(p[k]) \in Nat
  /\ \A j, k \in DOMAIN p : j < k /\ Grabs(p[j]) /\ Grabs(p[k]) =>
       IF InSession(p) THEN ~Before(p[k], p[j]) ELSE Before(p[j], p[k])

-------------------------------------------------------------------------------
(* Artifacts are to be read, at step k or later, without a detour.         *)
Due(p, k) ==
  \E n \in DOMAIN p : /\ k <= n /\ p[n].do = "artifacts"
                      /\ \A x \in DOMAIN p : k <= x /\ x <= n => ~Finds(p[x])

(* Whoever reads the status of a job goes on to read its artifacts.        *)
ReadsOn(p) == \A j \in DOMAIN p : p[j].do = "status" => Due(p, j + 1)

(* The readers that check as much and run under READ COMMITTED.            *)
Raising == {"chat evaluation", "survey experiment", "web evaluation", "research run",
            "posted graph"}

(* The others that check the artifacts against the row take one snapshot.  *)
Verifies(x) == x.do = "artifacts" /\ Early(x.of.family) # {} /\ x.of.family \notin Raising
InOneSnapshot(p) ==
  \A k \in DOMAIN p : Verifies(p[k]) =>
      /\ k > 2
      /\ p[k - 1] = [do |-> "status",   of |-> p[k].of]
      /\ p[k - 2] = [do |-> "snapshot", of |-> p[k].of]

===============================================================================
