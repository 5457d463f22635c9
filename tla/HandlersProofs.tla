---------------------------- MODULE HandlersProofs ----------------------------
(***************************************************************************)
(* That the handlers' own plans have the shapes, whatever the things are   *)
(* that they are asked for, and hence what any number of such requests do. *)
(* The launch of a batch and the interview sessions, whose plans are as    *)
(* long as the request makes them, stay with the model checker.            *)
(***************************************************************************)
EXTENDS RequestLocksProofs

EndOf == Thing("transaction", 0)

(* What the requests machine takes for granted of a plan.                  *)
IsPair(x) == x = [do |-> x.do, of |-> x.of]
WellFormed(p) ==
  /\ \E n \in Nat \ {0} : DOMAIN p = 1..n /\ p = [k \in 1..n |-> p[k]] /\ p[n].do = "commit"
  /\ \A k \in DOMAIN p : IsPair(p[k]) /\ p[k].do \in Steps
  /\ CommitsApart(p) /\ PinsUnderLock(p)

(* How the handlers choose the unique key of what they insert.             *)
Numbering == {"world snapshot", "thread revision", "policy version", "tool call"}
Keyless   == {"world model", "decision thread", "media source"}
Regular(i) ==
  /\ i.unique =
       (IF i.under = "none" THEN IF i.family \in Keyless THEN "none" ELSE "digest"
        ELSE IF i.family \in Numbering THEN "position" ELSE "parent")
  /\ i.under # "none" /\ i.family = "survey experiment" => i = RetryOf(Survey(0))
  /\ i.family = "linux evaluation" => i.under = "none"

(* What every plan has, and what all have but the retry of a Linux trial,  *)
(* whose child is found by the evaluation it makes last.                   *)
Shape(p) ==
  /\ Whole(p) /\ Covered(p) /\ LocksInOrder(p) /\ ReadsOn(p) /\ InOneSnapshot(p)
  /\ ~InSession(p) /\ WellFormed(p)
Fit(p) ==
  /\ Shape(p)
  /\ \A x, k \in DOMAIN p : ~Jumped(p, x, k)
  /\ \A i \in Inserts(p) : Regular(i)

-------------------------------------------------------------------------------
(* Plans as lists of known length.                                         *)
List(s, n) == n \in Nat /\ s = [k \in 1..n |-> s[k]]

LEMMA ListFacts ==
  ASSUME NEW s, NEW n, List(s, n)
  PROVE  /\ DOMAIN s = 1..n /\ n \in Nat
         /\ \A S : (\A k \in 1..n : s[k] \in S) => s \in Seq(S) /\ Len(s) = n
<1>1. n \in Nat /\ s = [k \in 1..n |-> s[k]]
  BY DEF List
<1>2. DOMAIN s = 1..n
  BY <1>1
<1>3. ASSUME NEW S, \A k \in 1..n : s[k] \in S PROVE s \in Seq(S) /\ Len(s) = n
  <2>1. s \in [1..n -> S]
    BY <1>1, <1>3
  <2> QED
    BY <1>1, <2>1
<1> QED
  BY <1>1, <1>2, <1>3

(* u is s, of length m, and then t, of length n.                           *)
Joined(u, s, m, t, n) ==
  /\ List(u, m + n)
  /\ \A k \in 1..m : u[k] = s[k]
  /\ \A k \in 1..n : u[m + k] = t[k]

LEMMA Join ==
  ASSUME NEW s, NEW m, List(s, m), NEW t, NEW n, List(t, n)
  PROVE  Joined(s \o t, s, m, t, n)
<1>1. PICK S : S = {s[k] : k \in 1..m} \cup {t[k] : k \in 1..n}
  OBVIOUS
<1>2. /\ m \in Nat /\ n \in Nat /\ s \in Seq(S) /\ t \in Seq(S)
      /\ Len(s) = m /\ Len(t) = n
  BY <1>1, ListFacts
<1>3. s \o t \in Seq(S) /\ Len(s \o t) = m + n
  BY <1>2, ConcatProperties
<1>4. ASSUME NEW k \in 1..m PROVE (s \o t)[k] = s[k]
  BY <1>2, ConcatProperties
<1>5. ASSUME NEW k \in 1..n PROVE (s \o t)[m + k] = t[k]
  <2>1. m + k \in 1..(m + n) /\ ~(m + k <= m) /\ (m + k) - m = k
    BY <1>2
  <2> QED
    BY <1>2, <2>1, ConcatProperties
<1>6. PICK u : u = s \o t
  OBVIOUS
<1>7. u \in Seq(S) /\ Len(u) = m + n /\ m + n \in Nat
  BY <1>2, <1>3, <1>6
<1>8. u = [k \in 1..(m + n) |-> u[k]]
  BY <1>7
<1>9. Joined(u, s, m, t, n)
  BY <1>4, <1>5, <1>6, <1>7, <1>8 DEF Joined, List
<1> QED
  BY <1>6, <1>9

LEMMA OnList ==
  ASSUME NEW i, NEW st, NEW n, List(st, n)
  PROVE  List(On(i, st), n) /\ \A k \in 1..n : On(i, st)[k] = [do |-> st[k], of |-> i]
<1>1. DOMAIN st = 1..n /\ n \in Nat
  BY ListFacts
<1> QED
  BY <1>1 DEF On, List

(* The lists of the code.                                                  *)
LEMMA One == \A a : /\ List(<<a>>, 1)
                    /\ <<a>>[1] = a
BY DEF List
LEMMA Two == \A a, b : /\ List(<<a, b>>, 2)
                       /\ <<a, b>>[1] = a /\ <<a, b>>[2] = b
BY DEF List
LEMMA Three == \A a, b, c : /\ List(<<a, b, c>>, 3)
                            /\ <<a, b, c>>[1] = a /\ <<a, b, c>>[2] = b
                            /\ <<a, b, c>>[3] = c
BY DEF List
LEMMA Four == \A a, b, c, d : /\ List(<<a, b, c, d>>, 4)
                              /\ <<a, b, c, d>>[1] = a /\ <<a, b, c, d>>[2] = b
                              /\ <<a, b, c, d>>[3] = c /\ <<a, b, c, d>>[4] = d
BY DEF List
LEMMA Five == \A a, b, c, d, e : /\ List(<<a, b, c, d, e>>, 5)
                                 /\ <<a, b, c, d, e>>[1] = a /\ <<a, b, c, d, e>>[2] = b
                                 /\ <<a, b, c, d, e>>[3] = c /\ <<a, b, c, d, e>>[4] = d
                                 /\ <<a, b, c, d, e>>[5] = e
BY DEF List
LEMMA Six == \A a, b, c, d, e, f : /\ List(<<a, b, c, d, e, f>>, 6)
                                   /\ <<a, b, c, d, e, f>>[1] = a
                                   /\ <<a, b, c, d, e, f>>[2] = b
                                   /\ <<a, b, c, d, e, f>>[3] = c
                                   /\ <<a, b, c, d, e, f>>[4] = d
                                   /\ <<a, b, c, d, e, f>>[5] = e
                                   /\ <<a, b, c, d, e, f>>[6] = f
BY DEF List

(* A transaction that does the steps st about i, and commits.              *)
Does(p, i, st, n) ==
  /\ List(p, n + 1)
  /\ \A k \in 1..n : p[k] = [do |-> st[k], of |-> i]
  /\ p[n + 1] = [do |-> "commit", of |-> EndOf]

LEMMA CommitList == List(Commit, 1) /\ Commit[1] = [do |-> "commit", of |-> EndOf]
<1>1. PICK st : st = <<"commit">>
  OBVIOUS
<1>2. List(st, 1) /\ st[1] = "commit"
  BY <1>1, One
<1>3. List(On(EndOf, st), 1) /\ On(EndOf, st)[1] = [do |-> st[1], of |-> EndOf]
  BY <1>2, OnList
<1> QED
  BY <1>1, <1>2, <1>3 DEF Commit, EndOf

LEMMA OnFacts ==
  ASSUME NEW i, NEW st, NEW n, List(st, n)
  PROVE  Does(On(i, st) \o Commit, i, st, n)
<1>1. PICK t : t = On(i, st)
  OBVIOUS
<1>2. List(t, n) /\ n \in Nat /\ \A k \in 1..n : t[k] = [do |-> st[k], of |-> i]
  BY <1>1, OnList, ListFacts
<1>3. PICK e : e = Commit /\ List(e, 1) /\ e[1] = [do |-> "commit", of |-> EndOf]
  BY CommitList
<1>4. List(t, n) /\ List(e, 1)
  BY <1>2, <1>3
<1>5. Joined(t \o e, t, n, e, 1)
  BY <1>4, Join
<1>6. PICK p : p = t \o e
  OBVIOUS
<1>7. Joined(p, t, n, e, 1)
  BY <1>5, <1>6
<1>8. Does(p, i, st, n)
  BY <1>2, <1>3, <1>7 DEF Does, Joined
<1> QED
  BY <1>1, <1>3, <1>6, <1>8

-------------------------------------------------------------------------------
(* Plans about one thing, which they insert at last, under one lock.       *)
InsertsLast(st, n) ==
  /\ n > 0
  /\ \A k \in 1..n : /\ k = n <=> st[k] = "insert"
                     /\ st[k] \in Steps \ {"commit", "status", "artifacts"}
LocksOnce(st, n) ==
  \A j, k \in 1..n : st[j] \in {"key", "hold"} /\ st[k] \in {"key", "hold"} => j = k
Proper(i) ==
  /\ i.family \notin {"transaction", "interview session", "run interview session"}
  /\ i.name \in Nat /\ Regular(i)
  /\ Collides(i) => i.family \notin Final \cup {"task bundle"}
  /\ i.live = "locked" => i.pinned
GuardedBy(i, st, n, j, m) ==
  /\ j < m /\ m < n /\ st[j] = LockOf(i).do /\ (LockOf(i).do = "hold" \/ LockOf(i).of = i)
  /\ Checks([do |-> st[m], of |-> i], i)
  /\ \A k \in 1..n : /\ LockOf(i).of.pinned /\ j <= k => st[k] # "live"
                     /\ m < k => st[k] \notin {"count", "spend"}
(* What reads the configuration under lock does so before the insert.      *)
Chooses(i, st, n) == i.live = "locked" => \E j \in 1..n : st[j] = "live"
Guards(i, st, n) == Spared(i) => \E j, m \in 1..n : GuardedBy(i, st, n, j, m)

LEMMA Fields == \A a, b : [do |-> a, of |-> b].do = a /\ [do |-> a, of |-> b].of = b
OBVIOUS

(* Where the steps of a plan come in the order of the locks.               *)
LEMMA HoldLevel   == \A x : x.do = "hold" => Level(x) = 0 /\ Turn(x) = 0
BY DEF Level, Turn
LEMMA InsertLevel ==
  \A x : x.do = "insert" =>
    /\ Level(x) = IF x.of.family = "agenda context" THEN 4 ELSE 3
    /\ Turn(x) = 0
BY DEF Level, Turn
LEMMA KeyLevel ==
  ASSUME NEW x, x.do = "key"
  PROVE  /\ x.of.family \in First => Level(x) = 1
         /\ x.of.family = "task bundle" => Level(x) = 3
         /\ x.of.family \in Final => Level(x) = 4
         /\ x.of.family \notin First \cup Final \cup {"task bundle"} => Level(x) = 2
         /\ Turn(x) = IF x.of.family = "chat evaluation" THEN x.of.name ELSE 0
BY DEF Level, Turn, First, Final

LEMMA OwnKey ==
  ASSUME NEW i, i.unique = "digest" \/ (i.unique = "parent" /\ i.family = "survey experiment")
  PROVE  LockOf(i).do = "key" /\ LockOf(i).of = i
BY DEF LockOf, KeyOf

LEMMA HeldSource ==
  ASSUME NEW i, i.unique # "digest",
         i.family \notin {"survey experiment", "task bundle", "research survey", "policy version"}
  PROVE  LockOf(i).do = "hold" /\ LockOf(i).of.pinned = FALSE
BY DEF LockOf, SourceLock, Thing

LEMMA OneThing ==
  ASSUME NEW i, Proper(i), NEW st, NEW l, List(st, l), InsertsLast(st, l), LocksOnce(st, l),
         Guards(i, st, l), Chooses(i, st, l), NEW p, Does(p, i, st, l)
  PROVE  Fit(p)
<1>1. /\ l \in Nat /\ l > 0 /\ DOMAIN p = 1..(l + 1) /\ l \in 1..(l + 1)
      /\ \A k \in 1..l : p[k].do = st[k] /\ p[k].of = i
      /\ p[l + 1].do = "commit" /\ p[l + 1].of = EndOf
  <2>1. ASSUME NEW k \in 1..l PROVE p[k].do = st[k] /\ p[k].of = i
    <3>1. p[k] = [do |-> st[k], of |-> i]
      BY DEF Does
    <3> QED
      BY <3>1, Fields
  <2> QED
    BY <2>1, ListFacts DEF InsertsLast, Does
<1>2. i # EndOf
  <2>1. EndOf.family = "transaction"
    BY DEF EndOf, Thing
  <2> QED
    BY <2>1 DEF Proper
<1>3. /\ \A k \in DOMAIN p : /\ k = l + 1 \/ k \in 1..l
                             /\ p[k].do = "insert" <=> k = l
                             /\ p[k].do = "commit" <=> k = l + 1
                             /\ p[k].do \notin {"status", "artifacts"}
      /\ p[l].of = i
  BY <1>1 DEF InsertsLast
<1>4. Whole(p)
  BY <1>1, <1>3 DEF Whole
<1>5. Covered(p)
  <2> SUFFICES ASSUME Spared(i) PROVE \E j, m \in DOMAIN p : Cover(p, j, m, l)
    BY <1>3 DEF Covered
  <2>1. PICK j \in 1..l, m \in 1..l : GuardedBy(i, st, l, j, m)
    BY DEF Guards
  <2>2. Takes(p[j], LockOf(i)) /\ Checks(p[m], i)
    BY <1>1, <2>1 DEF Takes, Checks, GuardedBy
  <2>3. \A n \in DOMAIN p : j <= n /\ n <= l =>
          p[n].do # "commit" /\ (LockOf(i).of.pinned => p[n].do # "live")
    BY <1>1, <1>3, <2>1 DEF GuardedBy
  <2>4. \A n \in DOMAIN p : m < n /\ n < l =>
           p[n].do \notin {"count", "spend"} /\ (p[n].do = "insert" => ~Alike(p[n].of, i))
    BY <1>1, <1>3, <2>1 DEF GuardedBy
  <2>5. \A h \in 1..l : Straight(p, h, l)
    BY <1>1, <1>3 DEF Straight
  <2>6. Cover(p, j, m, l)
    BY <1>1, <1>3, <2>1, <2>2, <2>3, <2>4, <2>5 DEF Cover, GuardedBy
  <2>7. j \in DOMAIN p /\ m \in DOMAIN p
    BY <1>1
  <2> QED
    BY <2>6, <2>7
<1>6. ~InSession(p)
  BY <1>3 DEF InSession, Inserts, Proper
<1>7. LocksInOrder(p)
  <2>1. ~InSession(p)
    BY <1>6
  <2>2. \A k \in DOMAIN p :
          Grabs(p[k]) => /\ k \in 1..l /\ p[k].of = i
                         /\ Turn(p[k]) \in Nat
                         /\ \/ p[k].do \in {"key", "hold"} /\ k # l
                            \/ k = l /\ Collides(i) /\ p[k].do = "insert"
    <3> SUFFICES ASSUME NEW k \in DOMAIN p, Grabs(p[k])
                 PROVE  /\ k \in 1..l /\ p[k].of = i /\ Turn(p[k]) \in Nat
                        /\ \/ p[k].do \in {"key", "hold"} /\ k # l
                           \/ k = l /\ Collides(i) /\ p[k].do = "insert"
      OBVIOUS
    <3>1. k \in 1..l /\ p[k].of = i
      BY <1>1, <1>3 DEF Grabs
    <3>2. Turn(p[k]) \in Nat
      BY <3>1 DEF Turn, Proper
    <3>3. p[k].do \in {"key", "hold"} \/ (p[k].do = "insert" /\ Collides(i))
      BY <3>1 DEF Grabs
    <3> QED
      BY <1>1, <1>3, <3>1, <3>2, <3>3
  <2>3. ASSUME NEW j \in DOMAIN p, NEW k \in DOMAIN p, j < k, Grabs(p[j]), Grabs(p[k])
        PROVE  Before(p[j], p[k])
    <3>1. /\ k = l /\ Collides(i) /\ p[k].do = "insert" /\ p[j].do \in {"key", "hold"}
          /\ p[j].of = i
      BY <1>1, <2>2, <2>3 DEF LocksOnce
    <3>2. Level(p[k]) \in {3, 4} /\ Level(p[j]) \in 0..2
      <4>1. i.family # "task bundle" /\ i.family \notin Final
        BY <3>1 DEF Proper
      <4>2. Level(p[k]) \in {3, 4}
        BY <3>1, InsertLevel
      <4>3. CASE p[j].do = "hold"
        BY <4>2, <4>3, HoldLevel
      <4>4. CASE p[j].do = "key"
        <5>1. p[j].of.family # "task bundle" /\ p[j].of.family \notin Final
          BY <3>1, <4>1
        <5>2. Level(p[j]) = 1 \/ Level(p[j]) = 2
          BY <4>4, <5>1, KeyLevel
        <5> QED
          BY <4>2, <5>2
      <4> QED
        BY <3>1, <4>3, <4>4
    <3> QED
      BY <3>2 DEF Before
  <2> QED
    BY <2>1, <2>2, <2>3 DEF LocksInOrder
<1>8. ReadsOn(p) /\ InOneSnapshot(p)
  BY <1>3 DEF ReadsOn, InOneSnapshot, Verifies
<1>9. \A x, k \in DOMAIN p : ~Jumped(p, x, k)
  BY <1>1, <1>3 DEF Jumped, Finds
<1>10. WellFormed(p)
  <2>1. List(p, l + 1) /\ l + 1 \in Nat \ {0}
    BY <1>1 DEF Does
  <2>2. ASSUME NEW k \in DOMAIN p PROVE IsPair(p[k]) /\ p[k].do \in Steps
    <3>1. CASE k \in 1..l
      <4>1. p[k] = [do |-> st[k], of |-> i] /\ st[k] \in Steps
        BY <3>1 DEF Does, InsertsLast
      <4> QED
        BY <4>1, Fields DEF IsPair
    <3>2. CASE k = l + 1
      <4>1. p[k] = [do |-> "commit", of |-> EndOf] /\ "commit" \in Steps
        BY <3>2 DEF Does, Steps
      <4> QED
        BY <4>1, Fields DEF IsPair
    <3> QED
      BY <1>3, <3>1, <3>2
  <2>3. CommitsApart(p)
    BY <1>1, <1>2, <1>3 DEF CommitsApart
  <2>4. PinsUnderLock(p)
    <3>1. SUFFICES ASSUME i.live = "locked" PROVE i.pinned /\ UnderLock(p, l)
      BY <1>3 DEF PinsUnderLock
    <3>2. i.pinned
      BY <3>1 DEF Proper
    <3>3. PICK j \in 1..l : st[j] = "live"
      BY <3>1 DEF Chooses
    <3>4. j \in 1..(l - 1) /\ p[j].do = "live"
      BY <1>1, <1>3, <3>3
    <3>5. \A k \in j..l : p[k].of = p[l].of /\ p[k].do # "commit"
      BY <1>1, <1>3, <3>4
    <3> QED
      BY <1>3, <3>1, <3>2, <3>4, <3>5 DEF UnderLock
  <2> QED
    BY <1>1, <2>1, <2>2, <2>3, <2>4 DEF WellFormed, List
<1>11. \A k \in Inserts(p) : k = i
  BY <1>3 DEF Inserts
<1> QED
  BY <1>4, <1>5, <1>6, <1>7, <1>8, <1>9, <1>10, <1>11 DEF Fit, Shape, Proper

-------------------------------------------------------------------------------
(* The steps that single things are made with.                             *)
Orderly(st, n)  == List(st, n) /\ InsertsLast(st, n) /\ LocksOnce(st, n)
ReadsLive(st, n) == \E j \in 1..n : st[j] = "live"
(* A lock, then a check, then the insert; a pinned configuration is not    *)
(* chosen again in between.                                                *)
Between(st, n, lock, check, pinned) ==
  \E j, m \in 1..n :
    /\ j < m /\ m < n /\ st[j] = lock /\ st[m] = check
    /\ \A k \in 1..n : /\ pinned /\ j <= k => st[k] # "live"
                       /\ m < k => st[k] \notin {"count", "spend"}

LEMMA ByLock ==
  ASSUME NEW i, NEW st, NEW n, NEW check,
         LockOf(i).do = "hold" \/ LockOf(i).of = i, Checks([do |-> check, of |-> i], i),
         Between(st, n, LockOf(i).do, check, LockOf(i).of.pinned)
  PROVE  Guards(i, st, n)
BY DEF Guards, GuardedBy, Between

LEMMA ByKey ==
  ASSUME NEW i, i.unique = "digest", NEW st, NEW n, Between(st, n, "key", "look", i.pinned)
  PROVE  Guards(i, st, n)
<1>1. LockOf(i).do = "key" /\ LockOf(i).of = i
  BY OwnKey
<1>2. Checks([do |-> "look", of |-> i], i)
  BY Fields DEF Checks
<1> QED
  BY <1>1, <1>2, ByLock

LEMMA ByKeyOfParent ==
  ASSUME NEW i, i.unique = "parent", i.family = "survey experiment",
         NEW st, NEW n, Between(st, n, "key", "child", i.pinned)
  PROVE  Guards(i, st, n)
<1>1. LockOf(i).do = "key" /\ LockOf(i).of = i
  BY OwnKey
<1>2. Checks([do |-> "child", of |-> i], i)
  BY Fields DEF Checks
<1> QED
  BY <1>1, <1>2, ByLock

LEMMA ByRow ==
  ASSUME NEW i, i.unique # "digest",
         i.family \notin {"survey experiment", "task bundle", "research survey", "policy version"},
         NEW st, NEW n, NEW check, Between(st, n, "hold", check, FALSE),
         Checks([do |-> check, of |-> i], i)
  PROVE  Guards(i, st, n)
<1>1. LockOf(i).do = "hold" /\ LockOf(i).of.pinned = FALSE
  BY HeldSource
<1> QED
  BY <1>1, ByLock

LEMMA EnqueueSteps ==
  ASSUME NEW st, st = <<"live", "key", "look", "insert">>
  PROVE  Orderly(st, 4) /\ ReadsLive(st, 4) /\ Between(st, 4, "key", "look", TRUE)
<1>1. /\ List(st, 4)
      /\ st[1] = "live" /\ st[2] = "key" /\ st[3] = "look" /\ st[4] = "insert"
  BY Four
<1>2. Orderly(st, 4)
  BY <1>1 DEF Orderly, InsertsLast, LocksOnce, Steps
<1>3. Between(st, 4, "key", "look", TRUE)
  BY <1>1 DEF Between
<1>4. ReadsLive(st, 4)
  BY <1>1 DEF ReadsLive
<1> QED
  BY <1>2, <1>3, <1>4

LEMMA AdoptSteps ==
  ASSUME NEW st, st = <<"key", "look", "insert">>
  PROVE  Orderly(st, 3) /\ Between(st, 3, "key", "look", TRUE)
<1>1. /\ List(st, 3)
      /\ st[1] = "key" /\ st[2] = "look" /\ st[3] = "insert"
  BY Three
<1>2. Orderly(st, 3)
  BY <1>1 DEF Orderly, InsertsLast, LocksOnce, Steps
<1>3. Between(st, 3, "key", "look", TRUE)
  BY <1>1 DEF Between
<1> QED
  BY <1>2, <1>3

LEMMA RetrySteps ==
  ASSUME NEW st, st = <<"child", "failed", "live", "key", "look", "insert">>
  PROVE  Orderly(st, 6) /\ ReadsLive(st, 6)
<1>1. /\ List(st, 6)
      /\ st[1] = "child" /\ st[2] = "failed" /\ st[3] = "live" /\ st[4] = "key"
      /\ st[5] = "look" /\ st[6] = "insert"
  BY Six
<1>2. Orderly(st, 6)
  BY <1>1 DEF Orderly, InsertsLast, LocksOnce, Steps
<1>3. ReadsLive(st, 6)
  BY <1>1 DEF ReadsLive
<1> QED
  BY <1>2, <1>3

LEMMA RetrySurveySteps ==
  ASSUME NEW st, st = <<"child", "failed", "live", "key", "child", "insert">>
  PROVE  Orderly(st, 6) /\ ReadsLive(st, 6) /\ Between(st, 6, "key", "child", TRUE)
<1>1. /\ List(st, 6)
      /\ st[1] = "child" /\ st[2] = "failed" /\ st[3] = "live" /\ st[4] = "key"
      /\ st[5] = "child" /\ st[6] = "insert"
  BY Six
<1>2. Orderly(st, 6)
  BY <1>1 DEF Orderly, InsertsLast, LocksOnce, Steps
<1>3. Between(st, 6, "key", "child", TRUE)
  BY <1>1 DEF Between
<1>4. ReadsLive(st, 6)
  BY <1>1 DEF ReadsLive
<1> QED
  BY <1>2, <1>3, <1>4

LEMMA RunSteps ==
  ASSUME NEW st, st = <<"live", "look", "insert">>
  PROVE  Orderly(st, 3) /\ ReadsLive(st, 3)
<1>1. /\ List(st, 3)
      /\ st[1] = "live" /\ st[2] = "look" /\ st[3] = "insert"
  BY Three
<1>2. Orderly(st, 3)
  BY <1>1 DEF Orderly, InsertsLast, LocksOnce, Steps
<1>3. ReadsLive(st, 3)
  BY <1>1 DEF ReadsLive
<1> QED
  BY <1>2, <1>3

LEMMA TargetSteps ==
  ASSUME NEW st, st = <<"succeeded", "key", "child", "insert">>
  PROVE  Orderly(st, 4)
<1>1. /\ List(st, 4)
      /\ st[1] = "succeeded" /\ st[2] = "key" /\ st[3] = "child" /\ st[4] = "insert"
  BY Four
<1>2. Orderly(st, 4)
  BY <1>1 DEF Orderly, InsertsLast, LocksOnce, Steps
<1> QED
  BY <1>2

LEMMA BundleSteps ==
  ASSUME NEW st, st = <<"succeeded", "key", "child", "insert">>
  PROVE  Between(st, 4, "key", "child", FALSE)
<1>1. /\ List(st, 4)
      /\ st[1] = "succeeded" /\ st[2] = "key" /\ st[3] = "child" /\ st[4] = "insert"
  BY Four
<1> QED
  BY <1>1 DEF Between

LEMMA ContextSteps ==
  ASSUME NEW st, st = <<"look", "insert">>
  PROVE  Orderly(st, 2)
<1>1. List(st, 2) /\ st[1] = "look" /\ st[2] = "insert"
  BY Two
<1> QED
  BY <1>1 DEF Orderly, InsertsLast, LocksOnce, Steps

LEMMA ThreadSteps ==
  ASSUME NEW st, st = <<"insert">>
  PROVE  Orderly(st, 1)
<1>1. List(st, 1) /\ st[1] = "insert"
  BY One
<1> QED
  BY <1>1 DEF Orderly, InsertsLast, LocksOnce, Steps

LEMMA MediaSourceSteps ==
  ASSUME NEW st, st = <<"absent", "insert">>
  PROVE  Orderly(st, 2)
<1>1. List(st, 2) /\ st[1] = "absent" /\ st[2] = "insert"
  BY Two
<1> QED
  BY <1>1 DEF Orderly, InsertsLast, LocksOnce, Steps

LEMMA RetryHarborSteps ==
  ASSUME NEW st, st = <<"hold", "child", "failed", "insert">>
  PROVE  Orderly(st, 4) /\ Between(st, 4, "hold", "child", FALSE)
<1>1. /\ List(st, 4)
      /\ st[1] = "hold" /\ st[2] = "child" /\ st[3] = "failed" /\ st[4] = "insert"
  BY Four
<1>2. Orderly(st, 4)
  BY <1>1 DEF Orderly, InsertsLast, LocksOnce, Steps
<1>3. Between(st, 4, "hold", "child", FALSE)
  BY <1>1 DEF Between
<1> QED
  BY <1>2, <1>3

LEMMA SmokeSteps ==
  ASSUME NEW st, st = <<"key", "look", "live", "insert">>
  PROVE  Orderly(st, 4) /\ ReadsLive(st, 4) /\ Between(st, 4, "key", "look", FALSE)
<1>1. /\ List(st, 4)
      /\ st[1] = "key" /\ st[2] = "look" /\ st[3] = "live" /\ st[4] = "insert"
  BY Four
<1>2. Orderly(st, 4)
  BY <1>1 DEF Orderly, InsertsLast, LocksOnce, Steps
<1>3. Between(st, 4, "key", "look", FALSE)
  BY <1>1 DEF Between
<1>4. ReadsLive(st, 4)
  BY <1>1 DEF ReadsLive
<1> QED
  BY <1>2, <1>3, <1>4

LEMMA RevisionSteps ==
  ASSUME NEW st, st = <<"hold", "count", "insert">>
  PROVE  Orderly(st, 3) /\ Between(st, 3, "hold", "count", FALSE)
<1>1. /\ List(st, 3)
      /\ st[1] = "hold" /\ st[2] = "count" /\ st[3] = "insert"
  BY Three
<1>2. Orderly(st, 3)
  BY <1>1 DEF Orderly, InsertsLast, LocksOnce, Steps
<1>3. Between(st, 3, "hold", "count", FALSE)
  BY <1>1 DEF Between
<1> QED
  BY <1>2, <1>3

LEMMA RunReportSteps ==
  ASSUME NEW st, st = <<"succeeded", "key", "look", "insert">>
  PROVE  Orderly(st, 4) /\ Between(st, 4, "key", "look", TRUE)
<1>1. /\ List(st, 4)
      /\ st[1] = "succeeded" /\ st[2] = "key" /\ st[3] = "look" /\ st[4] = "insert"
  BY Four
<1>2. Orderly(st, 4)
  BY <1>1 DEF Orderly, InsertsLast, LocksOnce, Steps
<1>3. Between(st, 4, "key", "look", TRUE)
  BY <1>1 DEF Between
<1> QED
  BY <1>2, <1>3

LEMMA ToolCallSteps ==
  ASSUME NEW st, st = <<"hold", "spend", "insert">>
  PROVE  Orderly(st, 3) /\ Between(st, 3, "hold", "spend", FALSE)
<1>1. /\ List(st, 3)
      /\ st[1] = "hold" /\ st[2] = "spend" /\ st[3] = "insert"
  BY Three
<1>2. Orderly(st, 3)
  BY <1>1 DEF Orderly, InsertsLast, LocksOnce, Steps
<1>3. Between(st, 3, "hold", "spend", FALSE)
  BY <1>1 DEF Between
<1> QED
  BY <1>2, <1>3

LEMMA FollowUpSteps ==
  ASSUME NEW st, st = <<"succeeded", "live", "key", "look", "insert">>
  PROVE  Orderly(st, 5) /\ ReadsLive(st, 5) /\ Between(st, 5, "key", "look", TRUE)
<1>1. /\ List(st, 5)
      /\ st[1] = "succeeded" /\ st[2] = "live" /\ st[3] = "key" /\ st[4] = "look"
      /\ st[5] = "insert"
  BY Five
<1>2. Orderly(st, 5)
  BY <1>1 DEF Orderly, InsertsLast, LocksOnce, Steps
<1>3. Between(st, 5, "key", "look", TRUE)
  BY <1>1 DEF Between
<1>4. ReadsLive(st, 5)
  BY <1>1 DEF ReadsLive
<1> QED
  BY <1>2, <1>3, <1>4

-------------------------------------------------------------------------------
(* Things found by their digest, by their parent, by their number.         *)
Special == {"transaction", "task bundle", "interview session", "run interview session",
            "linux evaluation", "world model", "decision thread", "media source"}
Digested(i) ==
  /\ i.under = "none" /\ i.unique = "digest" /\ i.name \in Nat /\ i.family \notin Special
  /\ i.live = "locked" => i.pinned
Parented(i) ==
  i.under = "source" /\ i.unique = "parent" /\ i.name \in Nat /\ i.live = "unread"
    /\ i.family \notin Special \cup Numbering \cup Final
                      \cup {"survey experiment", "research survey"}
Counted(i) ==
  i.under = "source" /\ i.unique = "position" /\ i.name \in Nat /\ i.live = "unread"
    /\ i.family \in {"thread revision", "tool call"}

LEMMA DigestedIsProper == ASSUME NEW i, Digested(i) PROVE Proper(i)
BY DEF Digested, Special, Keyless, Proper, Regular, Collides, Final
LEMMA ParentedIsProper == ASSUME NEW i, Parented(i) PROVE Proper(i)
BY DEF Parented, Special, Proper, Regular, Numbering
LEMMA CountedIsProper  == ASSUME NEW i, Counted(i) PROVE Proper(i)
BY DEF Counted, Proper, Regular, Collides, Numbering, Final

LEMMA ThisFits ==
  ASSUME NEW i, Proper(i), NEW st, NEW n, Orderly(st, n), Guards(i, st, n),
         Chooses(i, st, n)
  PROVE  Fit(On(i, st) \o Commit)
<1>1. List(st, n) /\ InsertsLast(st, n) /\ LocksOnce(st, n)
  BY DEF Orderly
<1>2. Does(On(i, st) \o Commit, i, st, n)
  BY <1>1, OnFacts
<1> QED
  BY <1>1, <1>2, OneThing

LEMMA DigestedFits ==
  ASSUME NEW i, Digested(i), NEW st, NEW n, Orderly(st, n),
         NEW pinned, Between(st, n, "key", "look", pinned), i.pinned => pinned,
         i.live # "unread" => ReadsLive(st, n)
  PROVE  Fit(On(i, st) \o Commit)
<1>1. Between(st, n, "key", "look", i.pinned)
  BY DEF Between
<1>2. Guards(i, st, n)
  BY <1>1, ByKey DEF Digested
<1>3. Chooses(i, st, n)
  BY DEF Chooses, ReadsLive
<1> QED
  BY <1>2, <1>3, ThisFits, DigestedIsProper

LEMMA CollidingFits ==
  ASSUME NEW i, Proper(i), Collides(i), NEW st, NEW n, Orderly(st, n),
         i.live # "unread" => ReadsLive(st, n)
  PROVE  Fit(On(i, st) \o Commit)
<1>1. Guards(i, st, n)
  BY DEF Guards, Spared
<1>2. Chooses(i, st, n)
  BY DEF Chooses, ReadsLive
<1> QED
  BY <1>1, <1>2, ThisFits

LEMMA ParentedFits ==
  ASSUME NEW i, Parented(i), NEW st, NEW n, Orderly(st, n), Between(st, n, "hold", "child", FALSE)
  PROVE  Fit(On(i, st) \o Commit)
<1>1. Checks([do |-> "child", of |-> i], i)
  BY Fields DEF Checks, Parented
<1>2. /\ i.unique # "digest"
      /\ i.family \notin {"survey experiment", "task bundle", "research survey", "policy version"}
  BY DEF Parented, Special, Numbering
<1>3. Guards(i, st, n)
  BY <1>1, <1>2, ByRow
<1>4. Chooses(i, st, n)
  BY DEF Chooses, Parented
<1> QED
  BY <1>3, <1>4, ThisFits, ParentedIsProper

LEMMA CountedFits ==
  ASSUME NEW i, Counted(i), NEW st, NEW n, Orderly(st, n),
         NEW check \in {"count", "spend"}, Between(st, n, "hold", check, FALSE)
  PROVE  Fit(On(i, st) \o Commit)
<1>1. Checks([do |-> check, of |-> i], i)
  BY Fields DEF Checks, Counted
<1>2. /\ i.unique # "digest"
      /\ i.family \notin {"survey experiment", "task bundle", "research survey", "policy version"}
  BY DEF Counted
<1>3. Guards(i, st, n)
  BY <1>1, <1>2, ByRow
<1>4. Chooses(i, st, n)
  BY DEF Chooses, Counted
<1> QED
  BY <1>3, <1>4, ThisFits, CountedIsProper

LEMMA EnqueueFits == ASSUME NEW i, Digested(i) PROVE Fit(Enqueue(i) \o Commit)
<1>1. PICK st : st = <<"live", "key", "look", "insert">>
  OBVIOUS
<1>2. Fit(On(i, st) \o Commit)
  BY <1>1, EnqueueSteps, DigestedFits
<1> QED
  BY <1>1, <1>2 DEF Enqueue

LEMMA AdoptFits == ASSUME NEW i, Digested(i), i.live = "unread" PROVE Fit(Adopt(i) \o Commit)
<1>1. PICK st : st = <<"key", "look", "insert">>
  OBVIOUS
<1>2. Fit(On(i, st) \o Commit)
  BY <1>1, AdoptSteps, DigestedFits
<1> QED
  BY <1>1, <1>2 DEF Adopt

LEMMA RetryFits ==
  ASSUME NEW i, Proper(RetryOf(i)), Collides(RetryOf(i)) PROVE Fit(RetryPlan(i) \o Commit)
<1>1. PICK st : st = <<"child", "failed", "live", "key", "look", "insert">>
  OBVIOUS
<1>2. Fit(On(RetryOf(i), st) \o Commit)
  BY <1>1, RetrySteps, CollidingFits
<1> QED
  BY <1>1, <1>2 DEF RetryPlan

-------------------------------------------------------------------------------
(* The things of the handlers.                                             *)
LEMMA FoundByDigest ==
  ASSUME NEW n \in Nat
  PROVE
    /\ Digested(Chat(n))
    /\ Digested(Web(n))
    /\ Digested(Trial(n))
    /\ Digested(Survey(n))
    /\ Digested(Experiment(n))
    /\ Digested(Run(n))
    /\ Digested(HarborJob(n)) /\ HarborJob(n).live = "unread"
    /\ Digested(Registry(n)) /\ Registry(n).live = "unread"
    /\ Digested(Graph(n))
    /\ Digested(Smoke(n))
    /\ Digested(Draft(n))
    /\ Digested(Interview(n))
    /\ Digested(RunInterview(n))
    /\ Digested(Thing("cohort", n)) /\ Thing("cohort", n).live = "unread"
    /\ Digested(Thing("persona dataset", n)) /\ Thing("persona dataset", n).live = "unread"
    /\ Digested(Thing("scenario", n)) /\ Thing("scenario", n).live = "unread"
    /\ Digested(Thing("decision report", n)) /\ Thing("decision report", n).live = "unread"
    /\ Digested(Thing("decision report v2", n)) /\ Thing("decision report v2", n).live = "unread"
    /\ Digested(Thing("evidence run", n)) /\ Thing("evidence run", n).live = "unread"
    /\ Digested(Thing("report of a run", n)) /\ Thing("report of a run", n).live = "unread"
    /\ Digested(Frozen(Thing("agent interaction", n)))
    /\ Digested(Frozen(Thing("report question", n)))
<1>1. Digested(Chat(n))
  BY DEF Chat, Locked, Thing, Digested, Special
<1>2. Digested(Web(n))
  BY DEF Web, Locked, Thing, Digested, Special
<1>3. Digested(Trial(n))
  BY DEF Trial, Locked, Thing, Digested, Special
<1>4. Digested(Survey(n))
  BY DEF Survey, Locked, Thing, Digested, Special
<1>5. Digested(Experiment(n))
  BY DEF Experiment, Locked, Thing, Digested, Special
<1>6. Digested(Run(n))
  BY DEF Run, Locked, Thing, Digested, Special
<1>7. Digested(HarborJob(n)) /\ HarborJob(n).live = "unread"
  BY DEF HarborJob, Thing, Digested, Special
<1>8. Digested(Registry(n)) /\ Registry(n).live = "unread"
  BY DEF Registry, Thing, Digested, Special
<1>9. Digested(Graph(n))
  BY DEF Graph, Locked, Thing, Digested, Special
<1>10. Digested(Smoke(n))
  BY DEF Smoke, Thing, Digested, Special
<1>11. Digested(Draft(n))
  BY DEF Draft, Newest, Thing, Digested, Special
<1>12. Digested(Interview(n))
  BY DEF Interview, Frozen, Thing, Digested, Special
<1>13. Digested(RunInterview(n))
  BY DEF RunInterview, Newest, Thing, Digested, Special
<1>14. Digested(Thing("cohort", n)) /\ Thing("cohort", n).live = "unread"
  BY DEF Thing, Digested, Special
<1>15. Digested(Thing("persona dataset", n)) /\ Thing("persona dataset", n).live = "unread"
  BY DEF Thing, Digested, Special
<1>16. Digested(Thing("scenario", n)) /\ Thing("scenario", n).live = "unread"
  BY DEF Thing, Digested, Special
<1>17. Digested(Thing("decision report", n)) /\ Thing("decision report", n).live = "unread"
  BY DEF Thing, Digested, Special
<1>18. Digested(Thing("decision report v2", n)) /\ Thing("decision report v2", n).live = "unread"
  BY DEF Thing, Digested, Special
<1>19. Digested(Thing("evidence run", n)) /\ Thing("evidence run", n).live = "unread"
  BY DEF Thing, Digested, Special
<1>20. Digested(Thing("report of a run", n)) /\ Thing("report of a run", n).live = "unread"
  BY DEF Thing, Digested, Special
<1>21. Digested(Frozen(Thing("agent interaction", n)))
  BY DEF Frozen, Thing, Digested, Special
<1>22. Digested(Frozen(Thing("report question", n)))
  BY DEF Frozen, Thing, Digested, Special
<1> QED
  BY <1>1, <1>2, <1>3, <1>4, <1>5, <1>6, <1>7, <1>8, <1>9, <1>10, <1>11, <1>12, <1>13,
     <1>14, <1>15, <1>16, <1>17, <1>18, <1>19, <1>20, <1>21, <1>22

LEMMA FoundByParent ==
  /\ Parented(RetryOf(HarborJob(0))) /\ Parented(RetryOf(Thing("report draft", 0)))
  /\ \A i \in {Chat(0), Web(0), Trial(0)} : Proper(RetryOf(i)) /\ Collides(RetryOf(i))
  /\ \A n \in Nat : Proper(Target(n)) /\ Collides(Target(n)) /\ Target(n).live = "unread"
  /\ \A n \in Nat : Proper(Run(n)) /\ Collides(Run(n))
  /\ \A n \in Nat : Proper(Context(n)) /\ Collides(Context(n)) /\ Context(n).live = "unread"
  /\ Proper(RetryOf(Survey(0))) /\ RetryOf(Survey(0)).unique = "parent"
  /\ RetryOf(Survey(0)).family = "survey experiment" /\ RetryOf(Survey(0)).pinned = TRUE
<1>1. Parented(RetryOf(HarborJob(0))) /\ Parented(RetryOf(Thing("report draft", 0)))
  BY DEF Parented, Special, Numbering, Final, RetryOf, Alone, Under, HarborJob, Thing
<1>2. Proper(RetryOf(Chat(0))) /\ Collides(RetryOf(Chat(0)))
  BY DEF Proper, Regular, Numbering, Final, Collides, RetryOf, Alone, Under, Chat,
     Locked, Thing
<1>3. Proper(RetryOf(Web(0))) /\ Collides(RetryOf(Web(0)))
  BY DEF Proper, Regular, Numbering, Final, Collides, RetryOf, Alone, Under, Web,
     Locked, Thing
<1>4. Proper(RetryOf(Trial(0))) /\ Collides(RetryOf(Trial(0)))
  BY DEF Proper, Regular, Numbering, Final, Collides, RetryOf, Alone, Under, Trial,
     Locked, Thing
<1>5. \A n \in Nat : Proper(Target(n)) /\ Collides(Target(n)) /\ Target(n).live = "unread"
  BY DEF Proper, Regular, Numbering, Final, Collides, Target, Alone, Under, Thing
<1>6. \A n \in Nat : Proper(Run(n)) /\ Collides(Run(n))
  BY DEF Proper, Regular, Keyless, Numbering, Final, Collides, Run, Locked, Thing
<1>7. /\ RetryOf(Survey(0)).unique = "parent"
      /\ RetryOf(Survey(0)).family = "survey experiment"
      /\ RetryOf(Survey(0)).pinned = TRUE /\ RetryOf(Survey(0)).under = "source"
      /\ RetryOf(Survey(0)).name \in Nat
  BY DEF RetryOf, Alone, Under, Survey, Locked, Thing
<1>8. Proper(RetryOf(Survey(0)))
  <2>1. PICK i : i = RetryOf(Survey(0))
    OBVIOUS
  <2>2. /\ i.unique = "parent" /\ i.family = "survey experiment" /\ i.under = "source"
        /\ i.name \in Nat /\ i.pinned
    BY <1>7, <2>1
  <2>3. Regular(i)
    BY <2>1, <2>2 DEF Regular, Numbering
  <2>4. ~Collides(i)
    BY <2>2 DEF Collides
  <2>5. Proper(i)
    BY <2>2, <2>3, <2>4 DEF Proper
  <2> QED
    BY <2>1, <2>5
<1>9. \A n \in Nat : Proper(Context(n)) /\ Collides(Context(n)) /\ Context(n).live = "unread"
  BY DEF Proper, Regular, Keyless, Numbering, Final, Collides, Context, Thing
<1> QED
  BY <1>1, <1>2, <1>3, <1>4, <1>5, <1>6, <1>7, <1>8, <1>9

LEMMA FoundByNumber ==
  \A n \in Nat : Counted(Revision(n)) /\ Counted(ToolCall(n))
BY DEF Counted, Revision, ToolCall, Ordered, Under, Thing

(* A thread and a media source have no key to violate, a bundle is found   *)
(* under the lock that is named after it.                                  *)
LEMMA FoundOtherwise ==
  /\ \A n \in Nat : \A i \in {Thread(n), MediaSource(n)} :
       Proper(i) /\ ~Spared(i) /\ i.live = "unread"
  /\ Proper(Bundle) /\ Bundle.live = "unread"
  /\ LockOf(Bundle).do = "key" /\ LockOf(Bundle).of = Bundle /\ LockOf(Bundle).of.pinned = FALSE
  /\ Checks([do |-> "child", of |-> Bundle], Bundle)
<1>1. ASSUME NEW n \in Nat, NEW i \in {Thread(n), MediaSource(n)}
      PROVE  Proper(i) /\ ~Spared(i) /\ i.live = "unread"
  <2>1. /\ i.family \in {"decision thread", "media source"} /\ i.name \in Nat
        /\ i.unique = "none" /\ i.under = "none" /\ i.live = "unread"
    BY <1>1 DEF Thread, MediaSource, Fresh, Thing
  <2> QED
    BY <2>1 DEF Proper, Regular, Keyless, Collides, Spared
<1>2. PICK b : b = Bundle
  OBVIOUS
<1>3. /\ b.family = "task bundle" /\ b.unique = "parent" /\ b.under = "source"
      /\ b.name \in Nat /\ b.live = "unread" /\ b.pinned = FALSE
  BY <1>2 DEF Bundle, Alone, Under, Thing
<1>4. Proper(b)
  BY <1>3 DEF Proper, Regular, Numbering, Collides
<1>5. LockOf(b).do = "key" /\ LockOf(b).of = b
  BY <1>2, <1>3, Fields DEF LockOf, KeyOf
<1>6. Checks([do |-> "child", of |-> b], b)
  BY <1>3, Fields DEF Checks
<1> QED
  BY <1>1, <1>2, <1>3, <1>4, <1>5, <1>6

-------------------------------------------------------------------------------
(* The handlers that make one thing.                                       *)
Makers(n) ==
  {CreateChat(n), RetryChat, CreateWeb(n), RetryWeb, CreateTrial(n),
   CreateSurvey(n), RetrySurvey, CreateExperiment(n), CreateRun(n),
   CreateTarget(n), CreateHarbor(n), RetryHarbor, CreateRegistry(n),
   CreateGraph(n), CreateCohort(n), ImportPersonas(n), CreateScenario(n),
   CreateSmoke(n), GenerateReport(n), GenerateReportV2(n),
   AppendRevision(n), CreateEvidenceRun(n), CreateRunReport(n),
   AppendToolCall(n), EnqueueDraft(n), RetryDraft, AskAgent(n),
   AskReport(n), Interviewed(n), RunInterviewed(n), CaptureContext(n), CreateBundle,
   CreateThread(n), CreateMediaSource(n)}

LEMMA MakersFit == ASSUME NEW n \in Nat, NEW p \in Makers(n) PROVE Fit(p)
<1>1. Fit(CreateChat(n))
  BY EnqueueFits, FoundByDigest DEF CreateChat, EnsureChat
<1>2. Fit(RetryChat)
  BY RetryFits, FoundByParent DEF RetryChat
<1>3. Fit(CreateWeb(n))
  BY EnqueueFits, FoundByDigest DEF CreateWeb
<1>4. Fit(RetryWeb)
  BY RetryFits, FoundByParent DEF RetryWeb
<1>5. Fit(CreateTrial(n))
  BY EnqueueFits, FoundByDigest DEF CreateTrial, EnsureTrial
<1>6. Fit(CreateSurvey(n))
  BY EnqueueFits, FoundByDigest DEF CreateSurvey
<1>7. Fit(RetrySurvey)
  <2>1. PICK st : st = <<"child", "failed", "live", "key", "child", "insert">>
    OBVIOUS
  <2>2. Fit(On(RetryOf(Survey(0)), st) \o Commit)
    <3>1. /\ Proper(RetryOf(Survey(0))) /\ RetryOf(Survey(0)).unique = "parent"
          /\ RetryOf(Survey(0)).family = "survey experiment"
          /\ RetryOf(Survey(0)).pinned = TRUE
      BY FoundByParent
    <3>2. /\ Orderly(st, 6) /\ Between(st, 6, "key", "child", TRUE)
          /\ Chooses(RetryOf(Survey(0)), st, 6)
      BY <2>1, RetrySurveySteps DEF Chooses, ReadsLive
    <3>3. Guards(RetryOf(Survey(0)), st, 6)
      BY <3>1, <3>2, ByKeyOfParent
    <3> QED
      BY <3>1, <3>2, <3>3, ThisFits
  <2> QED
    BY <2>1, <2>2 DEF RetrySurvey
<1>8. Fit(CreateExperiment(n))
  BY EnqueueFits, FoundByDigest DEF CreateExperiment
<1>9. Fit(CreateRun(n))
  <2>1. PICK st : st = <<"live", "look", "insert">>
    OBVIOUS
  <2>2. Fit(On(Run(n), st) \o Commit)
    BY <2>1, RunSteps, CollidingFits, FoundByParent
  <2> QED
    BY <2>1, <2>2 DEF CreateRun
<1>10. Fit(CreateTarget(n))
  <2>1. PICK st : st = <<"succeeded", "key", "child", "insert">>
    OBVIOUS
  <2>2. Fit(On(Target(n), st) \o Commit)
    BY <2>1, TargetSteps, CollidingFits, FoundByParent
  <2> QED
    BY <2>1, <2>2 DEF CreateTarget
<1>11. Fit(CreateHarbor(n))
  BY AdoptFits, FoundByDigest DEF CreateHarbor
<1>12. Fit(RetryHarbor)
  <2>1. PICK st : st = <<"hold", "child", "failed", "insert">>
    OBVIOUS
  <2>2. Fit(On(RetryOf(HarborJob(0)), st) \o Commit)
    BY <2>1, RetryHarborSteps, ParentedFits, FoundByParent
  <2> QED
    BY <2>1, <2>2 DEF RetryHarbor
<1>13. Fit(CreateRegistry(n))
  BY AdoptFits, FoundByDigest DEF CreateRegistry, EnsureRegistry
<1>14. Fit(CreateGraph(n))
  BY EnqueueFits, FoundByDigest DEF CreateGraph
<1>15. Fit(CreateCohort(n))
  BY AdoptFits, FoundByDigest DEF CreateCohort, EnsureCohort
<1>16. Fit(ImportPersonas(n))
  BY AdoptFits, FoundByDigest DEF ImportPersonas
<1>17. Fit(CreateScenario(n))
  BY AdoptFits, FoundByDigest DEF CreateScenario
<1>18. Fit(CreateSmoke(n))
  <2>1. PICK st : st = <<"key", "look", "live", "insert">>
    OBVIOUS
  <2>2. Fit(On(Smoke(n), st) \o Commit)
    <3>1. Smoke(n).pinned => FALSE
      BY DEF Smoke, Thing
    <3> QED
      BY <2>1, <3>1, SmokeSteps, DigestedFits, FoundByDigest
  <2> QED
    BY <2>1, <2>2 DEF CreateSmoke
<1>19. Fit(GenerateReport(n))
  BY AdoptFits, FoundByDigest DEF GenerateReport
<1>20. Fit(GenerateReportV2(n))
  BY AdoptFits, FoundByDigest DEF GenerateReportV2
<1>21. Fit(AppendRevision(n))
  <2>1. PICK st : st = <<"hold", "count", "insert">>
    OBVIOUS
  <2>2. Fit(On(Revision(n), st) \o Commit)
    BY <2>1, RevisionSteps, CountedFits, FoundByNumber
  <2> QED
    BY <2>1, <2>2 DEF AppendRevision
<1>22. Fit(CreateEvidenceRun(n))
  BY AdoptFits, FoundByDigest DEF CreateEvidenceRun
<1>23. Fit(CreateRunReport(n))
  <2>1. PICK st : st = <<"succeeded", "key", "look", "insert">>
    OBVIOUS
  <2>2. Fit(On(Thing("report of a run", n), st) \o Commit)
    BY <2>1, RunReportSteps, DigestedFits, FoundByDigest
  <2> QED
    BY <2>1, <2>2 DEF CreateRunReport
<1>24. Fit(AppendToolCall(n))
  <2>1. PICK st : st = <<"hold", "spend", "insert">>
    OBVIOUS
  <2>2. Fit(On(ToolCall(n), st) \o Commit)
    BY <2>1, ToolCallSteps, CountedFits, FoundByNumber
  <2> QED
    BY <2>1, <2>2 DEF AppendToolCall
<1>25. Fit(EnqueueDraft(n))
  BY EnqueueFits, FoundByDigest DEF EnqueueDraft
<1>26. Fit(RetryDraft)
  <2>1. PICK st : st = <<"hold", "child", "failed", "insert">>
    OBVIOUS
  <2>2. Fit(On(RetryOf(Thing("report draft", 0)), st) \o Commit)
    BY <2>1, RetryHarborSteps, ParentedFits, FoundByParent
  <2> QED
    BY <2>1, <2>2 DEF RetryDraft
<1>27. Fit(AskAgent(n))
  <2>1. PICK st : st = <<"succeeded", "live", "key", "look", "insert">>
    OBVIOUS
  <2>2. Fit(On(Frozen(Thing("agent interaction", n)), st) \o Commit)
    BY <2>1, FollowUpSteps, DigestedFits, FoundByDigest
  <2> QED
    BY <2>1, <2>2 DEF AskAgent, FollowUp
<1>28. Fit(AskReport(n))
  <2>1. PICK st : st = <<"succeeded", "live", "key", "look", "insert">>
    OBVIOUS
  <2>2. Fit(On(Frozen(Thing("report question", n)), st) \o Commit)
    BY <2>1, FollowUpSteps, DigestedFits, FoundByDigest
  <2> QED
    BY <2>1, <2>2 DEF AskReport, FollowUp
<1>29. Fit(Interviewed(n))
  BY EnqueueFits, FoundByDigest DEF Interviewed
<1>30. Fit(RunInterviewed(n))
  <2>1. PICK st : st = <<"succeeded", "live", "key", "look", "insert">>
    OBVIOUS
  <2>2. Fit(On(RunInterview(n), st) \o Commit)
    BY <2>1, FollowUpSteps, DigestedFits, FoundByDigest
  <2> QED
    BY <2>1, <2>2 DEF RunInterviewed
<1>31. Fit(CaptureContext(n))
  <2>1. PICK st : st = <<"look", "insert">>
    OBVIOUS
  <2>2. Fit(On(Context(n), st) \o Commit)
    BY <2>1, ContextSteps, CollidingFits, FoundByParent
  <2> QED
    BY <2>1, <2>2 DEF CaptureContext, EnsureContext
<1>32. Fit(CreateBundle)
  <2>1. PICK st : st = <<"succeeded", "key", "child", "insert">>
    OBVIOUS
  <2>2. Guards(Bundle, st, 4)
    BY <2>1, BundleSteps, FoundOtherwise, ByLock
  <2>3. Chooses(Bundle, st, 4)
    BY FoundOtherwise DEF Chooses
  <2>4. Fit(On(Bundle, st) \o Commit)
    BY <2>1, <2>2, <2>3, TargetSteps, FoundOtherwise, ThisFits
  <2> QED
    BY <2>1, <2>4 DEF CreateBundle, EnsureBundle
<1>33. Fit(CreateThread(n))
  <2>1. PICK st : st = <<"insert">>
    OBVIOUS
  <2>2. Guards(Thread(n), st, 1) /\ Chooses(Thread(n), st, 1)
    BY FoundOtherwise DEF Guards, Chooses
  <2>3. Fit(On(Thread(n), st) \o Commit)
    BY <2>1, <2>2, ThreadSteps, FoundOtherwise, ThisFits
  <2> QED
    BY <2>1, <2>3 DEF CreateThread
<1>34. Fit(CreateMediaSource(n))
  <2>1. PICK st : st = <<"absent", "insert">>
    OBVIOUS
  <2>2. Guards(MediaSource(n), st, 2) /\ Chooses(MediaSource(n), st, 2)
    BY FoundOtherwise DEF Guards, Chooses
  <2>3. Fit(On(MediaSource(n), st) \o Commit)
    BY <2>1, <2>2, MediaSourceSteps, FoundOtherwise, ThisFits
  <2> QED
    BY <2>1, <2>3 DEF CreateMediaSource
<1> QED
  BY <1>1, <1>2, <1>3, <1>4, <1>5, <1>6, <1>7, <1>8, <1>9, <1>10, <1>11, <1>12, <1>13,
     <1>14, <1>15, <1>16, <1>17, <1>18, <1>19, <1>20, <1>21, <1>22, <1>23, <1>24, <1>25,
     <1>26, <1>27, <1>28, <1>29, <1>30, <1>31, <1>32, <1>33, <1>34 DEF Makers

-------------------------------------------------------------------------------
(* A plan whose steps are of the machine's, that ends with its commit.     *)
LEMMA MadeWell ==
  ASSUME NEW p, NEW n \in Nat \ {0}, List(p, n), p[n].do = "commit",
         \A k \in 1..n : IsPair(p[k]) /\ p[k].do \in Steps,
         CommitsApart(p), PinsUnderLock(p)
  PROVE  WellFormed(p)
BY ListFacts DEF WellFormed, List

LEMMA EndsApart ==
  ASSUME NEW p, \A k \in DOMAIN p : p[k].of = EndOf <=> p[k].do = "commit"
  PROVE  CommitsApart(p)
BY DEF CommitsApart

LEMMA NoneUnderLock ==
  ASSUME NEW p, \A i \in Inserts(p) : i.live # "locked"
  PROVE  PinsUnderLock(p)
BY DEF PinsUnderLock, Inserts

(* u is what s does, m steps, and then the n steps st about i.             *)
Then(u, s, m, i, st, n) ==
  /\ List(u, m + n)
  /\ \A k \in 1..m : u[k] = s[k]
  /\ \A k \in 1..n : u[m + k].do = st[k] /\ u[m + k].of = i /\ IsPair(u[m + k])

LEMMA JoinOn ==
  ASSUME NEW s, NEW m, List(s, m), NEW i, NEW st, NEW n, List(st, n)
  PROVE  Then(s \o On(i, st), s, m, i, st, n)
<1>1. PICK t : t = On(i, st)
  OBVIOUS
<1>2. List(t, n) /\ \A k \in 1..n : t[k] = [do |-> st[k], of |-> i]
  BY <1>1, OnList
<1>3. PICK u : u = s \o t
  OBVIOUS
<1>4. Joined(u, s, m, t, n)
  BY <1>2, <1>3, Join
<1>5. ASSUME NEW k \in 1..n
      PROVE  u[m + k].do = st[k] /\ u[m + k].of = i /\ IsPair(u[m + k])
  <2>1. u[m + k] = [do |-> st[k], of |-> i]
    BY <1>2, <1>4 DEF Joined
  <2> QED
    BY <2>1, Fields DEF IsPair
<1>6. Then(u, s, m, i, st, n)
  BY <1>4, <1>5 DEF Then, Joined
<1> QED
  BY <1>1, <1>3, <1>6

(* u is the n steps st about i.                                            *)
Opens(u, i, st, n) ==
  List(u, n) /\ \A k \in 1..n : u[k].do = st[k] /\ u[k].of = i /\ IsPair(u[k])

LEMMA FirstOn == ASSUME NEW i, NEW st, NEW n, List(st, n) PROVE Opens(On(i, st), i, st, n)
<1>1. PICK t : t = On(i, st)
  OBVIOUS
<1>2. List(t, n) /\ \A k \in 1..n : t[k] = [do |-> st[k], of |-> i]
  BY <1>1, OnList
<1>3. ASSUME NEW k \in 1..n PROVE t[k].do = st[k] /\ t[k].of = i /\ IsPair(t[k])
  <2>1. t[k] = [do |-> st[k], of |-> i]
    BY <1>2
  <2> QED
    BY <2>1, Fields DEF IsPair
<1>4. Opens(t, i, st, n)
  BY <1>2, <1>3 DEF Opens
<1> QED
  BY <1>1, <1>4

LEMMA CreateLinuxFits == ASSUME NEW n \in Nat PROVE Fit(CreateLinux(n))
<1>1. PICK t, e : t = Trial(n) /\ e = LinuxEvaluation(Trial(n))
  OBVIOUS
<1>2. /\ t.family = "linux trial" /\ t.under = "none" /\ t.unique = "digest"
      /\ e.family = "linux evaluation" /\ e.under = "none" /\ e.unique = "digest"
      /\ EndOf.family = "transaction"
  BY <1>1 DEF Trial, LinuxEvaluation, Locked, Thing, EndOf
<1>3. t # e /\ t # EndOf /\ e # EndOf
  BY <1>2
<1>4. PICK s1, s2, s3 :
        /\ s1 = <<"live", "key", "look", "insert">>
        /\ s2 = <<"key", "look", "insert">>
        /\ s3 = <<"commit">>
  OBVIOUS
<1>5. List(s1, 4) /\ s1[1] = "live" /\ s1[2] = "key" /\ s1[3] = "look" /\ s1[4] = "insert"
  BY <1>4, Four
<1>6. List(s2, 3) /\ s2[1] = "key" /\ s2[2] = "look" /\ s2[3] = "insert"
  BY <1>4, Three
<1>7. List(s3, 1) /\ s3[1] = "commit"
  BY <1>4, One
<1>8. PICK u1 : u1 = On(t, s1)
  OBVIOUS
<1>9. Opens(u1, t, s1, 4)
  BY <1>5, <1>8, FirstOn
<1>10. List(u1, 4)
  BY <1>9 DEF Opens
<1>11. PICK u2 : u2 = u1 \o On(e, s2)
  OBVIOUS
<1>12. Then(u2, u1, 4, e, s2, 3)
  BY <1>10, <1>6, <1>11, JoinOn
<1>13. List(u2, 7)
  BY <1>12 DEF Then
<1>14. PICK p : p = u2 \o On(EndOf, s3)
  OBVIOUS
<1>15. Then(p, u2, 7, EndOf, s3, 1)
  BY <1>13, <1>7, <1>14, JoinOn
<1>16. List(p, 8)
  BY <1>15 DEF Then
<1>17. /\ p[1].do = "live" /\ p[1].of = t
      /\ p[2].do = "key" /\ p[2].of = t
      /\ p[3].do = "look" /\ p[3].of = t
      /\ p[4].do = "insert" /\ p[4].of = t
      /\ p[5].do = "key" /\ p[5].of = e
      /\ p[6].do = "look" /\ p[6].of = e
      /\ p[7].do = "insert" /\ p[7].of = e
      /\ p[8].do = "commit" /\ p[8].of = EndOf
  BY <1>5, <1>6, <1>7, <1>9, <1>12, <1>15 DEF Opens, Then
<1>18. p = CreateLinux(n)
  BY <1>1, <1>4, <1>8, <1>11, <1>14 DEF CreateLinux, EnsureTrial, Enqueue, Adopt,
     Commit, EndOf
<1>19. DOMAIN p = 1..8
  BY <1>16, ListFacts
<1>20. DOMAIN p = {1, 2, 3, 4, 5, 6, 7, 8} /\ Len(p) = 8
  BY <1>19
<1>21. Whole(p)
  BY <1>17, <1>20 DEF Whole
<1>22. ReadsOn(p) /\ InOneSnapshot(p)
  BY <1>17, <1>20 DEF ReadsOn, InOneSnapshot, Verifies
<1>23. \A x, k \in DOMAIN p : ~Jumped(p, x, k)
  BY <1>17, <1>20, <1>3 DEF Jumped, Finds
<1>24. Inserts(p) = {t, e}
  BY <1>17, <1>20 DEF Inserts
<1>25. Regular(t) /\ Regular(e)
  BY <1>2 DEF Regular, Numbering, Keyless
<1>26. ~InSession(p)
  BY <1>2, <1>24 DEF InSession
<1>27. LocksInOrder(p)
  <2>1. \A k \in DOMAIN p : Grabs(p[k]) => k \in {2, 5}
    BY <1>2, <1>17, <1>20 DEF Grabs, Collides
  <2>2. Level(p[2]) = 1 /\ Level(p[5]) = 4
        /\ Turn(p[2]) = 0 /\ Turn(p[5]) = 0
    <3>1. p[2].do = "key" /\ p[5].do = "key"
      BY <1>17
    <3>2. /\ p[2].of.family = "linux trial"
          /\ p[5].of.family = "linux evaluation"
      BY <1>2, <1>17
    <3> QED
      BY <3>1, <3>2, KeyLevel, HoldLevel, InsertLevel DEF First, Final
  <2> QED
    BY <1>20, <1>26, <2>1, <2>2 DEF LocksInOrder, Before
<1>28. Covered(p)
  <2>1. /\ LockOf(t).do = "key" /\ LockOf(t).of = t
        /\ LockOf(e).do = "key" /\ LockOf(e).of = e
    BY <1>1, <1>2, OwnKey
  <2>2. /\ Takes(p[2], LockOf(t)) /\ Checks(p[3], t)
        /\ Takes(p[5], LockOf(e)) /\ Checks(p[6], e)
    BY <1>2, <1>17, <2>1 DEF Takes, Checks
  <2>3. /\ Straight(p, 2, 4) /\ Straight(p, 3, 4)
        /\ Straight(p, 5, 7) /\ Straight(p, 6, 7)
    BY <1>17, <1>20, <1>3 DEF Straight, Finds
  <2>4. Cover(p, 2, 3, 4)
    BY <1>17, <1>20, <2>1, <2>2, <2>3 DEF Cover
  <2>5. Cover(p, 5, 6, 7)
    BY <1>17, <1>20, <2>1, <2>2, <2>3 DEF Cover
  <2> QED
    BY <1>2, <1>17, <1>20, <2>4, <2>5 DEF Covered, Spared, Collides
<1>29. WellFormed(p)
  <2>1. /\ IsPair(p[1]) /\ IsPair(p[2]) /\ IsPair(p[3]) /\ IsPair(p[4])
        /\ IsPair(p[5]) /\ IsPair(p[6]) /\ IsPair(p[7]) /\ IsPair(p[8])
    BY <1>5, <1>6, <1>7, <1>9, <1>12, <1>15 DEF Opens, Then
  <2>2. \A k \in 1..8 : IsPair(p[k]) /\ p[k].do \in Steps
    BY <1>17, <1>20, <1>16, <2>1 DEF Steps
  <2>3. CommitsApart(p)
    <3>1. t # EndOf /\ e # EndOf
      BY <1>2
    <3>2. \A k \in DOMAIN p : p[k].of = EndOf <=> p[k].do = "commit"
      BY <1>17, <1>20, <3>1
    <3> QED
      BY <3>2, EndsApart
  <2>4. PinsUnderLock(p)
    <3>1. t.live = "locked" /\ t.pinned = TRUE /\ e.live = "unread"
      BY <1>1 DEF Trial, LinuxEvaluation, Locked, Thing, EndOf
    <3>2. ASSUME NEW k \in DOMAIN p, p[k].do = "insert", p[k].of.live = "locked"
          PROVE  k = 4
      <4>1. k \in {4, 7}
        BY <1>17, <1>20, <3>2
      <4> QED
        BY <1>17, <3>1, <3>2, <4>1
    <3>3. 1 \in 1..(4 - 1) /\ \A k \in 1..4 : p[k].of = t /\ p[k].do # "commit"
      BY <1>17
    <3>4. UnderLock(p, 4)
      BY <1>17, <3>1, <3>3 DEF UnderLock
    <3> QED
      BY <1>17, <3>1, <3>2, <3>4 DEF PinsUnderLock
  <2>5. List(p, 8) /\ 8 \in Nat \ {0} /\ p[8].do = "commit"
    BY <1>16, <1>17
  <2> QED
    BY <2>2, <2>3, <2>4, <2>5, MadeWell
<1> QED
  BY <1>18, <1>21, <1>22, <1>23, <1>24, <1>25, <1>26, <1>27, <1>28, <1>29 DEF Fit, Shape

LEMMA RetryLinuxFits ==
  /\ Shape(RetryLinux)
  /\ Inserts(RetryLinux) = {RetryOf(Trial(0)), LinuxChild} /\ Regular(RetryOf(Trial(0)))
  /\ \A x, k \in DOMAIN RetryLinux : Jumped(RetryLinux, x, k) =>
       /\ RetryLinux[x].of = LinuxChild /\ RetryLinux[k].of = RetryOf(Trial(0))
       /\ \A j \in DOMAIN RetryLinux : RetryLinux[j].do = "insert" => j > x
<1>1. PICK t, e : t = RetryOf(Trial(0)) /\ e = LinuxChild
  OBVIOUS
<1>2. /\ t.family = "linux trial" /\ t.under = "source" /\ t.unique = "parent"
      /\ e.family = "linux evaluation" /\ e.under = "source" /\ e.unique = "digest"
      /\ EndOf.family = "transaction" /\ EndOf.under = "none"
  BY <1>1 DEF RetryOf, Alone, Under, Trial, LinuxChild, LinuxEvaluation,
     Locked, Thing, EndOf
<1>3. t # e /\ t # EndOf /\ e # EndOf
  BY <1>2
<1>4. PICK s1, s2, s3, s4 :
        /\ s1 = <<"child">>
        /\ s2 = <<"failed", "live", "key", "look", "insert">>
        /\ s3 = <<"key", "look", "insert">>
        /\ s4 = <<"commit">>
  OBVIOUS
<1>5. List(s1, 1) /\ s1[1] = "child"
  BY <1>4, One
<1>6. /\ List(s2, 5) /\ s2[1] = "failed" /\ s2[2] = "live" /\ s2[3] = "key"
      /\ s2[4] = "look" /\ s2[5] = "insert"
  BY <1>4, Five
<1>7. List(s3, 3) /\ s3[1] = "key" /\ s3[2] = "look" /\ s3[3] = "insert"
  BY <1>4, Three
<1>8. List(s4, 1) /\ s4[1] = "commit"
  BY <1>4, One
<1>9. PICK u1 : u1 = On(e, s1)
  OBVIOUS
<1>10. Opens(u1, e, s1, 1)
  BY <1>5, <1>9, FirstOn
<1>11. List(u1, 1)
  BY <1>10 DEF Opens
<1>12. PICK u2 : u2 = u1 \o On(t, s2)
  OBVIOUS
<1>13. Then(u2, u1, 1, t, s2, 5)
  BY <1>11, <1>6, <1>12, JoinOn
<1>14. List(u2, 6)
  BY <1>13 DEF Then
<1>15. PICK u3 : u3 = u2 \o On(e, s3)
  OBVIOUS
<1>16. Then(u3, u2, 6, e, s3, 3)
  BY <1>14, <1>7, <1>15, JoinOn
<1>17. List(u3, 9)
  BY <1>16 DEF Then
<1>18. PICK p : p = u3 \o On(EndOf, s4)
  OBVIOUS
<1>19. Then(p, u3, 9, EndOf, s4, 1)
  BY <1>17, <1>8, <1>18, JoinOn
<1>20. List(p, 10)
  BY <1>19 DEF Then
<1>21. /\ p[1].do = "child" /\ p[1].of = e
      /\ p[2].do = "failed" /\ p[2].of = t
      /\ p[3].do = "live" /\ p[3].of = t
      /\ p[4].do = "key" /\ p[4].of = t
      /\ p[5].do = "look" /\ p[5].of = t
      /\ p[6].do = "insert" /\ p[6].of = t
      /\ p[7].do = "key" /\ p[7].of = e
      /\ p[8].do = "look" /\ p[8].of = e
      /\ p[9].do = "insert" /\ p[9].of = e
      /\ p[10].do = "commit" /\ p[10].of = EndOf
  BY <1>5, <1>6, <1>7, <1>8, <1>10, <1>13, <1>16, <1>19 DEF Opens, Then
<1>22. p = RetryLinux
  BY <1>1, <1>4, <1>9, <1>12, <1>15, <1>18 DEF RetryLinux, Adopt, Commit, EndOf
<1>23. DOMAIN p = 1..10
  BY <1>20, ListFacts
<1>24. DOMAIN p = {1, 2, 3, 4, 5, 6, 7, 8, 9, 10} /\ Len(p) = 10
  BY <1>23
<1>25. Whole(p)
  BY <1>21, <1>24 DEF Whole
<1>26. ReadsOn(p) /\ InOneSnapshot(p)
  BY <1>21, <1>24 DEF ReadsOn, InOneSnapshot, Verifies
<1>27. \A x, k \in DOMAIN p : Jumped(p, x, k) => x = 1 /\ p[k].of = t
  BY <1>21, <1>24, <1>3 DEF Jumped, Finds
<1>28. Inserts(p) = {t, e}
  BY <1>21, <1>24 DEF Inserts
<1>29. Regular(t)
  BY <1>2 DEF Regular, Numbering, Keyless
<1>30. ~InSession(p)
  BY <1>2, <1>28 DEF InSession
<1>31. LocksInOrder(p)
  <2>1. \A k \in DOMAIN p : Grabs(p[k]) => k \in {4, 6, 7}
    BY <1>2, <1>21, <1>24 DEF Grabs, Collides
  <2>2. Level(p[4]) = 1 /\ Level(p[6]) = 3 /\ Level(p[7]) = 4
        /\ Turn(p[4]) = 0 /\ Turn(p[6]) = 0 /\ Turn(p[7]) = 0
    <3>1. p[4].do = "key" /\ p[6].do = "insert" /\ p[7].do = "key"
      BY <1>21
    <3>2. /\ p[4].of.family = "linux trial"
          /\ p[6].of.family = "linux trial"
          /\ p[7].of.family = "linux evaluation"
      BY <1>2, <1>21
    <3> QED
      BY <3>1, <3>2, KeyLevel, HoldLevel, InsertLevel DEF First, Final
  <2> QED
    BY <1>24, <1>30, <2>1, <2>2 DEF LocksInOrder, Before
<1>32. Covered(p)
  <2>1. /\ LockOf(e).do = "key" /\ LockOf(e).of = e
    BY <1>1, <1>2, OwnKey
  <2>2. /\ Takes(p[7], LockOf(e)) /\ Checks(p[8], e)
    BY <1>2, <1>21, <2>1 DEF Takes, Checks
  <2>3. /\ Straight(p, 7, 9) /\ Straight(p, 8, 9)
    BY <1>21, <1>24, <1>3 DEF Straight, Finds
  <2>4. Cover(p, 7, 8, 9)
    BY <1>21, <1>24, <2>1, <2>2, <2>3 DEF Cover
  <2> QED
    BY <1>2, <1>21, <1>24, <2>4 DEF Covered, Spared, Collides
<1>33. WellFormed(p)
  <2>1. /\ IsPair(p[1]) /\ IsPair(p[2]) /\ IsPair(p[3]) /\ IsPair(p[4])
        /\ IsPair(p[5]) /\ IsPair(p[6]) /\ IsPair(p[7]) /\ IsPair(p[8])
        /\ IsPair(p[9]) /\ IsPair(p[10])
    BY <1>5, <1>6, <1>7, <1>8, <1>10, <1>13, <1>16, <1>19 DEF Opens, Then
  <2>2. \A k \in 1..10 : IsPair(p[k]) /\ p[k].do \in Steps
    BY <1>21, <1>24, <1>20, <2>1 DEF Steps
  <2>3. CommitsApart(p)
    <3>1. \A k \in DOMAIN p : p[k].of = EndOf <=> p[k].do = "commit"
      BY <1>21, <1>24, <1>3
    <3> QED
      BY <3>1, EndsApart
  <2>4. PinsUnderLock(p)
    <3>1. t.live = "locked" /\ t.pinned = TRUE /\ e.live = "unread"
      BY <1>1 DEF RetryOf, Alone, Under, Trial, LinuxChild, LinuxEvaluation, Locked, Thing
    <3>2. ASSUME NEW k \in DOMAIN p, p[k].do = "insert", p[k].of.live = "locked"
          PROVE  k = 6
      <4>1. k \in {6, 9}
        BY <1>21, <1>24, <3>2
      <4> QED
        BY <1>21, <3>1, <3>2, <4>1
    <3>3. 3 \in 1..(6 - 1) /\ \A k \in 3..6 : p[k].of = t /\ p[k].do # "commit"
      BY <1>21
    <3>4. UnderLock(p, 6)
      BY <1>21, <3>1, <3>3 DEF UnderLock
    <3> QED
      BY <1>21, <3>1, <3>2, <3>4 DEF PinsUnderLock
  <2>5. List(p, 10) /\ 10 \in Nat \ {0} /\ p[10].do = "commit"
    BY <1>20, <1>21
  <2> QED
    BY <2>2, <2>3, <2>4, <2>5, MadeWell
<1>35. \A j \in DOMAIN p : p[j].do = "insert" => j > 1
  BY <1>21, <1>24
<1> QED
  BY <1>1, <1>21, <1>22, <1>25, <1>26, <1>27, <1>28, <1>29, <1>30, <1>31, <1>32, <1>33,
     <1>35 DEF Shape

LEMMA CreateResearchSurveyFits == ASSUME NEW n \in Nat PROVE Fit(CreateResearchSurvey(n))
<1>1. PICK b, s : b = Bundle /\ s = ResearchSurvey(n)
  OBVIOUS
<1>2. /\ b.family = "task bundle" /\ b.under = "source" /\ b.unique = "parent"
      /\ b.pinned = FALSE
      /\ s.family = "research survey" /\ s.under = "source" /\ s.unique = "parent"
      /\ EndOf.family = "transaction"
  BY <1>1 DEF Bundle, ResearchSurvey, Agreed, Alone, Under, Thing, EndOf
<1>3. b # s /\ b # EndOf /\ s # EndOf
  BY <1>2
<1>4. PICK s1, s2, s3 :
        /\ s1 = <<"succeeded", "key", "child", "insert">>
        /\ s2 = <<"child", "live", "insert">>
        /\ s3 = <<"commit">>
  OBVIOUS
<1>5. /\ List(s1, 4) /\ s1[1] = "succeeded" /\ s1[2] = "key" /\ s1[3] = "child"
      /\ s1[4] = "insert"
  BY <1>4, Four
<1>6. List(s2, 3) /\ s2[1] = "child" /\ s2[2] = "live" /\ s2[3] = "insert"
  BY <1>4, Three
<1>7. List(s3, 1) /\ s3[1] = "commit"
  BY <1>4, One
<1>8. PICK u1 : u1 = On(b, s1)
  OBVIOUS
<1>9. Opens(u1, b, s1, 4)
  BY <1>5, <1>8, FirstOn
<1>10. List(u1, 4)
  BY <1>9 DEF Opens
<1>11. PICK u2 : u2 = u1 \o On(s, s2)
  OBVIOUS
<1>12. Then(u2, u1, 4, s, s2, 3)
  BY <1>10, <1>6, <1>11, JoinOn
<1>13. List(u2, 7)
  BY <1>12 DEF Then
<1>14. PICK p : p = u2 \o On(EndOf, s3)
  OBVIOUS
<1>15. Then(p, u2, 7, EndOf, s3, 1)
  BY <1>13, <1>7, <1>14, JoinOn
<1>16. List(p, 8)
  BY <1>15 DEF Then
<1>17. /\ p[1].do = "succeeded" /\ p[1].of = b
      /\ p[2].do = "key" /\ p[2].of = b
      /\ p[3].do = "child" /\ p[3].of = b
      /\ p[4].do = "insert" /\ p[4].of = b
      /\ p[5].do = "child" /\ p[5].of = s
      /\ p[6].do = "live" /\ p[6].of = s
      /\ p[7].do = "insert" /\ p[7].of = s
      /\ p[8].do = "commit" /\ p[8].of = EndOf
  BY <1>5, <1>6, <1>7, <1>9, <1>12, <1>15 DEF Opens, Then
<1>18. p = CreateResearchSurvey(n)
  BY <1>1, <1>4, <1>8, <1>11, <1>14 DEF CreateResearchSurvey, EnsureResearchSurvey,
     EnsureBundle, Commit, EndOf
<1>19. DOMAIN p = 1..8
  BY <1>16, ListFacts
<1>20. DOMAIN p = {1, 2, 3, 4, 5, 6, 7, 8} /\ Len(p) = 8
  BY <1>19
<1>21. Whole(p)
  BY <1>17, <1>20 DEF Whole
<1>22. ReadsOn(p) /\ InOneSnapshot(p)
  BY <1>17, <1>20 DEF ReadsOn, InOneSnapshot, Verifies
<1>23. \A x, k \in DOMAIN p : ~Jumped(p, x, k)
  BY <1>17, <1>20, <1>3 DEF Jumped, Finds
<1>24. Inserts(p) = {b, s}
  BY <1>17, <1>20 DEF Inserts
<1>25. Regular(b) /\ Regular(s)
  BY <1>2 DEF Regular, Numbering, Keyless
<1>26. ~InSession(p)
  BY <1>2, <1>24 DEF InSession
<1>27. LocksInOrder(p)
  <2>1. \A k \in DOMAIN p : Grabs(p[k]) => k \in {2}
    BY <1>2, <1>17, <1>20 DEF Grabs, Collides
  <2>2. Level(p[2]) = 3
        /\ Turn(p[2]) = 0
    <3>1. p[2].do = "key"
      BY <1>17
    <3>2. p[2].of.family = "task bundle"
      BY <1>2, <1>17
    <3> QED
      BY <3>1, <3>2, KeyLevel, HoldLevel, InsertLevel DEF First, Final
  <2> QED
    BY <1>20, <1>26, <2>1, <2>2 DEF LocksInOrder, Before
<1>28. Covered(p)
  <2>1. /\ LockOf(b).do = "key" /\ LockOf(b).of = b /\ LockOf(b).of.pinned = FALSE
        /\ LockOf(s).do = "key" /\ LockOf(s).of = b /\ LockOf(s).of.pinned = FALSE
    BY <1>1, <1>2 DEF LockOf, KeyOf
  <2>2. /\ Takes(p[2], LockOf(b)) /\ Checks(p[3], b)
        /\ Takes(p[2], LockOf(s)) /\ Checks(p[5], s)
    BY <1>2, <1>17, <2>1 DEF Takes, Checks
  <2>3. /\ Straight(p, 2, 4) /\ Straight(p, 3, 4)
        /\ Straight(p, 2, 7) /\ Straight(p, 5, 7)
    BY <1>17, <1>20, <1>3 DEF Straight, Finds
  <2>4. Cover(p, 2, 3, 4)
    BY <1>17, <1>20, <2>1, <2>2, <2>3 DEF Cover
  <2>5. Cover(p, 2, 5, 7)
    BY <1>17, <1>20, <2>1, <2>2, <2>3 DEF Cover
  <2> QED
    BY <1>2, <1>17, <1>20, <2>4, <2>5 DEF Covered, Spared, Collides
<1>29. WellFormed(p)
  <2>1. /\ IsPair(p[1]) /\ IsPair(p[2]) /\ IsPair(p[3]) /\ IsPair(p[4])
        /\ IsPair(p[5]) /\ IsPair(p[6]) /\ IsPair(p[7]) /\ IsPair(p[8])
    BY <1>5, <1>6, <1>7, <1>9, <1>12, <1>15 DEF Opens, Then
  <2>2. \A k \in 1..8 : IsPair(p[k]) /\ p[k].do \in Steps
    BY <1>17, <1>20, <1>16, <2>1 DEF Steps
  <2>3. CommitsApart(p)
    <3>1. b # EndOf /\ s # EndOf
      BY <1>2
    <3>2. \A k \in DOMAIN p : p[k].of = EndOf <=> p[k].do = "commit"
      BY <1>17, <1>20, <3>1
    <3> QED
      BY <3>2, EndsApart
  <2>4. PinsUnderLock(p)
    <3>1. b.live = "unread" /\ s.live = "agreed"
      BY <1>1 DEF Bundle, ResearchSurvey, Agreed, Alone, Under, Thing, EndOf
    <3> QED
      BY <1>24, <3>1, NoneUnderLock
  <2>5. List(p, 8) /\ 8 \in Nat \ {0} /\ p[8].do = "commit"
    BY <1>16, <1>17
  <2> QED
    BY <2>2, <2>3, <2>4, <2>5, MadeWell
<1> QED
  BY <1>18, <1>21, <1>22, <1>23, <1>24, <1>25, <1>26, <1>27, <1>28, <1>29 DEF Fit, Shape

LEMMA CreateOriginFits == ASSUME NEW n \in Nat PROVE Fit(CreateOrigin(n))
<1>1. PICK g, c, o : /\ g = Job("posted graph")
                     /\ c = Thing("cohort", n) /\ o = Thing("cohort origin", n)
  OBVIOUS
<1>2. /\ g.family = "posted graph" /\ g.under = "source" /\ g.family \in Raising
      /\ c.family = "cohort" /\ c.under = "none" /\ c.unique = "digest"
      /\ o.family = "cohort origin" /\ o.under = "none" /\ o.unique = "digest"
      /\ EndOf.family = "transaction" /\ EndOf.under = "none"
  BY <1>1 DEF Job, Under, Thing, Raising, EndOf
<1>3. g # c /\ g # o /\ g # EndOf /\ c # o /\ c # EndOf /\ o # EndOf
  BY <1>2
<1>4. PICK s1, s2, s3, s4 :
        /\ s1 = <<"status", "artifacts", "succeeded">>
        /\ s2 = <<"key", "look", "insert">>
        /\ s3 = <<"key", "look", "insert">>
        /\ s4 = <<"commit">>
  OBVIOUS
<1>5. List(s1, 3) /\ s1[1] = "status" /\ s1[2] = "artifacts" /\ s1[3] = "succeeded"
  BY <1>4, Three
<1>6. List(s2, 3) /\ s2[1] = "key" /\ s2[2] = "look" /\ s2[3] = "insert"
  BY <1>4, Three
<1>7. List(s3, 3) /\ s3[1] = "key" /\ s3[2] = "look" /\ s3[3] = "insert"
  BY <1>4, Three
<1>8. List(s4, 1) /\ s4[1] = "commit"
  BY <1>4, One
<1>9. PICK u1 : u1 = On(g, s1)
  OBVIOUS
<1>10. Opens(u1, g, s1, 3)
  BY <1>5, <1>9, FirstOn
<1>11. List(u1, 3)
  BY <1>10 DEF Opens
<1>12. PICK u2 : u2 = u1 \o On(c, s2)
  OBVIOUS
<1>13. Then(u2, u1, 3, c, s2, 3)
  BY <1>11, <1>6, <1>12, JoinOn
<1>14. List(u2, 6)
  BY <1>13 DEF Then
<1>15. PICK u3 : u3 = u2 \o On(o, s3)
  OBVIOUS
<1>16. Then(u3, u2, 6, o, s3, 3)
  BY <1>14, <1>7, <1>15, JoinOn
<1>17. List(u3, 9)
  BY <1>16 DEF Then
<1>18. PICK p : p = u3 \o On(EndOf, s4)
  OBVIOUS
<1>19. Then(p, u3, 9, EndOf, s4, 1)
  BY <1>17, <1>8, <1>18, JoinOn
<1>20. List(p, 10)
  BY <1>19 DEF Then
<1>21. /\ p[1].do = "status" /\ p[1].of = g
      /\ p[2].do = "artifacts" /\ p[2].of = g
      /\ p[3].do = "succeeded" /\ p[3].of = g
      /\ p[4].do = "key" /\ p[4].of = c
      /\ p[5].do = "look" /\ p[5].of = c
      /\ p[6].do = "insert" /\ p[6].of = c
      /\ p[7].do = "key" /\ p[7].of = o
      /\ p[8].do = "look" /\ p[8].of = o
      /\ p[9].do = "insert" /\ p[9].of = o
      /\ p[10].do = "commit" /\ p[10].of = EndOf
  BY <1>5, <1>6, <1>7, <1>8, <1>10, <1>13, <1>16, <1>19 DEF Opens, Then
<1>22. p = CreateOrigin(n)
  BY <1>1, <1>4, <1>9, <1>12, <1>15, <1>18 DEF CreateOrigin, NeedGraph, EnsureCohort,
     Adopt, Commit, EndOf
<1>23. DOMAIN p = 1..10
  BY <1>20, ListFacts
<1>24. DOMAIN p = {1, 2, 3, 4, 5, 6, 7, 8, 9, 10} /\ Len(p) = 10
  BY <1>23
<1>25. Whole(p)
  BY <1>21, <1>24 DEF Whole
<1>26. ReadsOn(p) /\ InOneSnapshot(p)
  <2>1. Due(p, 2)
    BY <1>21, <1>24 DEF Due, Finds
  <2>2. ReadsOn(p)
    BY <1>21, <1>24, <2>1 DEF ReadsOn
  <2>3. InOneSnapshot(p)
    BY <1>2, <1>21, <1>24 DEF InOneSnapshot, Verifies
  <2> QED
    BY <2>2, <2>3
<1>27. \A x, k \in DOMAIN p : ~Jumped(p, x, k)
  BY <1>21, <1>24, <1>3 DEF Jumped, Finds
<1>28. Inserts(p) = {c, o}
  BY <1>21, <1>24 DEF Inserts
<1>29. Regular(c) /\ Regular(o)
  BY <1>2 DEF Regular, Numbering, Keyless
<1>30. ~InSession(p)
  BY <1>2, <1>28 DEF InSession
<1>31. LocksInOrder(p)
  <2>1. \A k \in DOMAIN p : Grabs(p[k]) => k \in {4, 7}
    BY <1>2, <1>21, <1>24 DEF Grabs, Collides
  <2>2. Level(p[4]) = 1 /\ Level(p[7]) = 2
        /\ Turn(p[4]) = 0 /\ Turn(p[7]) = 0
    <3>1. p[4].do = "key" /\ p[7].do = "key"
      BY <1>21
    <3>2. /\ p[4].of.family = "cohort"
          /\ p[7].of.family = "cohort origin"
      BY <1>2, <1>21
    <3> QED
      BY <3>1, <3>2, KeyLevel, HoldLevel, InsertLevel DEF First, Final
  <2> QED
    BY <1>24, <1>30, <2>1, <2>2 DEF LocksInOrder, Before
<1>32. Covered(p)
  <2>1. /\ LockOf(c).do = "key" /\ LockOf(c).of = c
        /\ LockOf(o).do = "key" /\ LockOf(o).of = o
    BY <1>1, <1>2, OwnKey
  <2>2. /\ Takes(p[4], LockOf(c)) /\ Checks(p[5], c)
        /\ Takes(p[7], LockOf(o)) /\ Checks(p[8], o)
    BY <1>2, <1>21, <2>1 DEF Takes, Checks
  <2>3. /\ Straight(p, 4, 6) /\ Straight(p, 5, 6)
        /\ Straight(p, 7, 9) /\ Straight(p, 8, 9)
    BY <1>21, <1>24, <1>3 DEF Straight, Finds
  <2>4. Cover(p, 4, 5, 6)
    BY <1>21, <1>24, <2>1, <2>2, <2>3 DEF Cover
  <2>5. Cover(p, 7, 8, 9)
    BY <1>21, <1>24, <2>1, <2>2, <2>3 DEF Cover
  <2> QED
    BY <1>2, <1>21, <1>24, <2>4, <2>5 DEF Covered, Spared, Collides
<1>33. WellFormed(p)
  <2>1. /\ IsPair(p[1]) /\ IsPair(p[2]) /\ IsPair(p[3]) /\ IsPair(p[4])
        /\ IsPair(p[5]) /\ IsPair(p[6]) /\ IsPair(p[7]) /\ IsPair(p[8])
        /\ IsPair(p[9]) /\ IsPair(p[10])
    BY <1>5, <1>6, <1>7, <1>8, <1>10, <1>13, <1>16, <1>19 DEF Opens, Then
  <2>2. \A k \in 1..10 : IsPair(p[k]) /\ p[k].do \in Steps
    BY <1>21, <1>24, <1>20, <2>1 DEF Steps
  <2>3. CommitsApart(p)
    <3>1. \A k \in DOMAIN p : p[k].of = EndOf <=> p[k].do = "commit"
      BY <1>21, <1>24, <1>3
    <3> QED
      BY <3>1, EndsApart
  <2>4. PinsUnderLock(p)
    <3>1. c.live = "unread" /\ o.live = "unread"
      BY <1>1 DEF Thing
    <3> QED
      BY <1>28, <3>1, NoneUnderLock
  <2>5. List(p, 10) /\ 10 \in Nat \ {0} /\ p[10].do = "commit"
    BY <1>20, <1>21
  <2> QED
    BY <2>2, <2>3, <2>4, <2>5, MadeWell
<1> QED
  BY <1>22, <1>25, <1>26, <1>27, <1>28, <1>29, <1>30, <1>31, <1>32, <1>33 DEF Fit, Shape

LEMMA CreateProjectFits == ASSUME NEW n \in Nat PROVE Fit(CreateProject(n))
<1>1. PICK g, r, a : g = Job("posted graph") /\ r = Project(n) /\ a = Context(n)
  OBVIOUS
<1>2. /\ g.family = "posted graph" /\ g.under = "source" /\ g.family \in Raising
      /\ r.family = "research project" /\ r.under = "none" /\ r.unique = "digest"
      /\ a.family = "agenda context" /\ a.under = "none" /\ a.unique = "digest"
      /\ EndOf.family = "transaction" /\ EndOf.under = "none"
  BY <1>1 DEF Job, Under, Project, Context, Thing, Raising, EndOf
<1>3. g # r /\ g # a /\ g # EndOf /\ r # a /\ r # EndOf /\ a # EndOf
  BY <1>2
<1>4. PICK s1, s2, s3, s4 :
        /\ s1 = <<"status", "artifacts", "succeeded">>
        /\ s2 = <<"look", "insert">>
        /\ s3 = <<"look", "insert">>
        /\ s4 = <<"commit">>
  OBVIOUS
<1>5. List(s1, 3) /\ s1[1] = "status" /\ s1[2] = "artifacts" /\ s1[3] = "succeeded"
  BY <1>4, Three
<1>6. List(s2, 2) /\ s2[1] = "look" /\ s2[2] = "insert"
  BY <1>4, Two
<1>7. List(s3, 2) /\ s3[1] = "look" /\ s3[2] = "insert"
  BY <1>4, Two
<1>8. List(s4, 1) /\ s4[1] = "commit"
  BY <1>4, One
<1>9. PICK u1 : u1 = On(g, s1)
  OBVIOUS
<1>10. Opens(u1, g, s1, 3)
  BY <1>5, <1>9, FirstOn
<1>11. List(u1, 3)
  BY <1>10 DEF Opens
<1>12. PICK u2 : u2 = u1 \o On(r, s2)
  OBVIOUS
<1>13. Then(u2, u1, 3, r, s2, 2)
  BY <1>11, <1>6, <1>12, JoinOn
<1>14. List(u2, 5)
  BY <1>13 DEF Then
<1>15. PICK u3 : u3 = u2 \o On(a, s3)
  OBVIOUS
<1>16. Then(u3, u2, 5, a, s3, 2)
  BY <1>14, <1>7, <1>15, JoinOn
<1>17. List(u3, 7)
  BY <1>16 DEF Then
<1>18. PICK p : p = u3 \o On(EndOf, s4)
  OBVIOUS
<1>19. Then(p, u3, 7, EndOf, s4, 1)
  BY <1>17, <1>8, <1>18, JoinOn
<1>20. List(p, 8)
  BY <1>19 DEF Then
<1>21. /\ p[1].do = "status" /\ p[1].of = g
      /\ p[2].do = "artifacts" /\ p[2].of = g
      /\ p[3].do = "succeeded" /\ p[3].of = g
      /\ p[4].do = "look" /\ p[4].of = r
      /\ p[5].do = "insert" /\ p[5].of = r
      /\ p[6].do = "look" /\ p[6].of = a
      /\ p[7].do = "insert" /\ p[7].of = a
      /\ p[8].do = "commit" /\ p[8].of = EndOf
  BY <1>5, <1>6, <1>7, <1>8, <1>10, <1>13, <1>16, <1>19 DEF Opens, Then
<1>22. p = CreateProject(n)
  BY <1>1, <1>4, <1>9, <1>12, <1>15, <1>18 DEF CreateProject, NeedGraph, EnsureContext,
     Commit, EndOf
<1>23. DOMAIN p = 1..8
  BY <1>20, ListFacts
<1>24. DOMAIN p = {1, 2, 3, 4, 5, 6, 7, 8} /\ Len(p) = 8
  BY <1>23
<1>25. Whole(p)
  BY <1>21, <1>24 DEF Whole
<1>26. ReadsOn(p) /\ InOneSnapshot(p)
  <2>1. Due(p, 2)
    BY <1>21, <1>24 DEF Due, Finds
  <2>2. ReadsOn(p)
    BY <1>21, <1>24, <2>1 DEF ReadsOn
  <2>3. InOneSnapshot(p)
    BY <1>2, <1>21, <1>24 DEF InOneSnapshot, Verifies
  <2> QED
    BY <2>2, <2>3
<1>27. \A x, k \in DOMAIN p : ~Jumped(p, x, k)
  BY <1>21, <1>24, <1>3 DEF Jumped, Finds
<1>28. Inserts(p) = {r, a}
  BY <1>21, <1>24 DEF Inserts
<1>29. Regular(r) /\ Regular(a)
  BY <1>2 DEF Regular, Numbering, Keyless
<1>30. ~InSession(p)
  BY <1>2, <1>28 DEF InSession
<1>31. LocksInOrder(p)
  <2>1. \A k \in DOMAIN p : Grabs(p[k]) => k \in {5, 7}
    BY <1>2, <1>21, <1>24 DEF Grabs, Collides
  <2>2. Level(p[5]) = 3 /\ Level(p[7]) = 4
        /\ Turn(p[5]) = 0 /\ Turn(p[7]) = 0
    <3>1. p[5].do = "insert" /\ p[7].do = "insert"
      BY <1>21
    <3>2. /\ p[5].of.family = "research project"
          /\ p[7].of.family = "agenda context"
      BY <1>2, <1>21
    <3> QED
      BY <3>1, <3>2, KeyLevel, HoldLevel, InsertLevel DEF First, Final
  <2> QED
    BY <1>24, <1>30, <2>1, <2>2 DEF LocksInOrder, Before
<1>32. Covered(p)
  BY <1>2, <1>21, <1>24 DEF Covered, Spared, Collides
<1>33. WellFormed(p)
  <2>1. /\ IsPair(p[1]) /\ IsPair(p[2]) /\ IsPair(p[3]) /\ IsPair(p[4])
        /\ IsPair(p[5]) /\ IsPair(p[6]) /\ IsPair(p[7]) /\ IsPair(p[8])
    BY <1>5, <1>6, <1>7, <1>8, <1>10, <1>13, <1>16, <1>19 DEF Opens, Then
  <2>2. \A k \in 1..8 : IsPair(p[k]) /\ p[k].do \in Steps
    BY <1>21, <1>24, <1>20, <2>1 DEF Steps
  <2>3. CommitsApart(p)
    <3>1. \A k \in DOMAIN p : p[k].of = EndOf <=> p[k].do = "commit"
      BY <1>21, <1>24, <1>3
    <3> QED
      BY <3>1, EndsApart
  <2>4. PinsUnderLock(p)
    <3>1. r.live = "unread" /\ a.live = "unread"
      BY <1>1 DEF Project, Context, Thing
    <3> QED
      BY <1>28, <3>1, NoneUnderLock
  <2>5. List(p, 8) /\ 8 \in Nat \ {0} /\ p[8].do = "commit"
    BY <1>20, <1>21
  <2> QED
    BY <2>2, <2>3, <2>4, <2>5, MadeWell
<1> QED
  BY <1>22, <1>25, <1>26, <1>27, <1>28, <1>29, <1>30, <1>31, <1>32, <1>33 DEF Fit, Shape

LEMMA CreateWorldFits == ASSUME NEW n \in Nat PROVE Fit(CreateWorld(n))
<1>1. PICK l, w : l = ImportLock /\ w = Fresh(Thing("world model", n))
  OBVIOUS
<1>2. /\ l.family = "media import"
      /\ w.family = "world model" /\ w.under = "none" /\ w.unique = "none"
  BY <1>1 DEF ImportLock, Fresh, Thing
<1>3. PICK s1, s2, s3 :
        /\ s1 = <<"key">>
        /\ s2 = <<"insert">>
        /\ s3 = <<"commit">>
  OBVIOUS
<1>4. List(s1, 1) /\ s1[1] = "key"
  BY <1>3, One
<1>5. List(s2, 1) /\ s2[1] = "insert"
  BY <1>3, One
<1>6. List(s3, 1) /\ s3[1] = "commit"
  BY <1>3, One
<1>7. PICK u1 : u1 = On(l, s1)
  OBVIOUS
<1>8. Opens(u1, l, s1, 1)
  BY <1>4, <1>7, FirstOn
<1>9. List(u1, 1)
  BY <1>8 DEF Opens
<1>10. PICK u2 : u2 = u1 \o On(w, s2)
  OBVIOUS
<1>11. Then(u2, u1, 1, w, s2, 1)
  BY <1>9, <1>5, <1>10, JoinOn
<1>12. List(u2, 2)
  BY <1>11 DEF Then
<1>13. PICK p : p = u2 \o On(EndOf, s3)
  OBVIOUS
<1>14. Then(p, u2, 2, EndOf, s3, 1)
  BY <1>12, <1>6, <1>13, JoinOn
<1>15. List(p, 3)
  BY <1>14 DEF Then
<1>16. /\ p[1].do = "key" /\ p[1].of = l
      /\ p[2].do = "insert" /\ p[2].of = w
      /\ p[3].do = "commit" /\ p[3].of = EndOf
  BY <1>4, <1>5, <1>6, <1>8, <1>11, <1>14 DEF Opens, Then
<1>17. p = CreateWorld(n)
  BY <1>1, <1>3, <1>7, <1>10, <1>13 DEF CreateWorld, Commit, EndOf
<1>18. DOMAIN p = 1..3
  BY <1>15, ListFacts
<1>19. DOMAIN p = {1, 2, 3} /\ Len(p) = 3
  BY <1>18
<1>20. Whole(p)
  BY <1>16, <1>19 DEF Whole
<1>21. ReadsOn(p) /\ InOneSnapshot(p)
  BY <1>16, <1>19 DEF ReadsOn, InOneSnapshot, Verifies
<1>22. \A x, k \in DOMAIN p : ~Jumped(p, x, k)
  BY <1>16, <1>19 DEF Jumped, Finds
<1>23. Inserts(p) = {w}
  BY <1>16, <1>19 DEF Inserts
<1>24. Regular(w)
  BY <1>2 DEF Regular, Numbering, Keyless
<1>25. ~InSession(p)
  BY <1>2, <1>23 DEF InSession
<1>26. LocksInOrder(p)
  <2>1. \A k \in DOMAIN p : Grabs(p[k]) => k \in {1}
    BY <1>2, <1>16, <1>19 DEF Grabs, Collides
  <2>2. Level(p[1]) = 2
        /\ Turn(p[1]) = 0
    <3>1. p[1].do = "key"
      BY <1>16
    <3>2. p[1].of.family = "media import"
      BY <1>2, <1>16
    <3> QED
      BY <3>1, <3>2, KeyLevel, HoldLevel, InsertLevel DEF First, Final
  <2> QED
    BY <1>19, <1>25, <2>1, <2>2 DEF LocksInOrder, Before
<1>27. Covered(p)
  BY <1>2, <1>16, <1>19 DEF Covered, Spared
<1>28. WellFormed(p)
  <2>1. IsPair(p[1]) /\ IsPair(p[2]) /\ IsPair(p[3])
    BY <1>4, <1>5, <1>6, <1>8, <1>11, <1>14 DEF Opens, Then
  <2>2. \A k \in 1..3 : IsPair(p[k]) /\ p[k].do \in Steps
    BY <1>16, <1>19, <1>15, <2>1 DEF Steps
  <2>3. CommitsApart(p)
    <3>1. w # EndOf /\ l # EndOf
      <4>1. EndOf.family = "transaction"
        BY DEF EndOf, Thing
      <4> QED
        BY <1>2, <4>1
    <3>2. \A k \in DOMAIN p : p[k].of = EndOf <=> p[k].do = "commit"
      BY <1>16, <1>19, <3>1
    <3> QED
      BY <3>2, EndsApart
  <2>4. PinsUnderLock(p)
    <3>1. w.live = "unread"
      BY <1>1 DEF ImportLock, Fresh, Thing
    <3> QED
      BY <1>23, <3>1, NoneUnderLock
  <2>5. List(p, 3) /\ 3 \in Nat \ {0} /\ p[3].do = "commit"
    BY <1>15, <1>16
  <2> QED
    BY <2>2, <2>3, <2>4, <2>5, MadeWell
<1> QED
  BY <1>17, <1>20, <1>21, <1>22, <1>23, <1>24, <1>25, <1>26, <1>27, <1>28 DEF Fit, Shape

LEMMA AppendSnapshotFits == ASSUME NEW n \in Nat PROVE Fit(AppendSnapshot(n))
<1>1. PICK l, w : l = ImportLock /\ w = Snapshot(n)
  OBVIOUS
<1>2. /\ l.family = "media import"
      /\ w.family = "world snapshot" /\ w.under = "source" /\ w.unique = "position"
  BY <1>1 DEF ImportLock, Snapshot, Ordered, Under, Thing
<1>3. PICK s1, s2, s3, s4 :
        /\ s1 = <<"hold", "count">>
        /\ s2 = <<"key">>
        /\ s3 = <<"insert">>
        /\ s4 = <<"commit">>
  OBVIOUS
<1>4. List(s1, 2) /\ s1[1] = "hold" /\ s1[2] = "count"
  BY <1>3, Two
<1>5. List(s2, 1) /\ s2[1] = "key"
  BY <1>3, One
<1>6. List(s3, 1) /\ s3[1] = "insert"
  BY <1>3, One
<1>7. List(s4, 1) /\ s4[1] = "commit"
  BY <1>3, One
<1>8. PICK u1 : u1 = On(w, s1)
  OBVIOUS
<1>9. Opens(u1, w, s1, 2)
  BY <1>4, <1>8, FirstOn
<1>10. List(u1, 2)
  BY <1>9 DEF Opens
<1>11. PICK u2 : u2 = u1 \o On(l, s2)
  OBVIOUS
<1>12. Then(u2, u1, 2, l, s2, 1)
  BY <1>10, <1>5, <1>11, JoinOn
<1>13. List(u2, 3)
  BY <1>12 DEF Then
<1>14. PICK u3 : u3 = u2 \o On(w, s3)
  OBVIOUS
<1>15. Then(u3, u2, 3, w, s3, 1)
  BY <1>13, <1>6, <1>14, JoinOn
<1>16. List(u3, 4)
  BY <1>15 DEF Then
<1>17. PICK p : p = u3 \o On(EndOf, s4)
  OBVIOUS
<1>18. Then(p, u3, 4, EndOf, s4, 1)
  BY <1>16, <1>7, <1>17, JoinOn
<1>19. List(p, 5)
  BY <1>18 DEF Then
<1>20. /\ p[1].do = "hold" /\ p[1].of = w
      /\ p[2].do = "count" /\ p[2].of = w
      /\ p[3].do = "key" /\ p[3].of = l
      /\ p[4].do = "insert" /\ p[4].of = w
      /\ p[5].do = "commit" /\ p[5].of = EndOf
  BY <1>4, <1>5, <1>6, <1>7, <1>9, <1>12, <1>15, <1>18 DEF Opens, Then
<1>21. p = AppendSnapshot(n)
  BY <1>1, <1>3, <1>8, <1>11, <1>14, <1>17 DEF AppendSnapshot, Commit, EndOf
<1>22. DOMAIN p = 1..5
  BY <1>19, ListFacts
<1>23. DOMAIN p = {1, 2, 3, 4, 5} /\ Len(p) = 5
  BY <1>22
<1>24. Whole(p)
  BY <1>20, <1>23 DEF Whole
<1>25. ReadsOn(p) /\ InOneSnapshot(p)
  BY <1>20, <1>23 DEF ReadsOn, InOneSnapshot, Verifies
<1>26. \A x, k \in DOMAIN p : ~Jumped(p, x, k)
  BY <1>20, <1>23 DEF Jumped, Finds
<1>27. Inserts(p) = {w}
  BY <1>20, <1>23 DEF Inserts
<1>28. Regular(w)
  BY <1>2 DEF Regular, Numbering, Keyless
<1>29. ~InSession(p)
  BY <1>2, <1>27 DEF InSession
<1>30. LocksInOrder(p)
  <2>1. \A k \in DOMAIN p : Grabs(p[k]) => k \in {1, 3}
    BY <1>2, <1>20, <1>23 DEF Grabs, Collides
  <2>2. Level(p[1]) = 0 /\ Level(p[3]) = 2
        /\ Turn(p[1]) = 0 /\ Turn(p[3]) = 0
    <3>1. p[1].do = "hold" /\ p[3].do = "key"
      BY <1>20
    <3>2. p[3].of.family = "media import"
      BY <1>2, <1>20
    <3> QED
      BY <3>1, <3>2, KeyLevel, HoldLevel, InsertLevel DEF First, Final
  <2> QED
    BY <1>23, <1>29, <2>1, <2>2 DEF LocksInOrder, Before
<1>31. Covered(p)
  <2>1. /\ LockOf(w).do = "hold" /\ LockOf(w).of.pinned = FALSE
    BY <1>1, <1>2, HeldSource
  <2>2. /\ Takes(p[1], LockOf(w)) /\ Checks(p[2], w)
    BY <1>2, <1>20, <2>1 DEF Takes, Checks
  <2>3. /\ Straight(p, 1, 4) /\ Straight(p, 2, 4)
    BY <1>20, <1>23 DEF Straight, Finds
  <2>4. Cover(p, 1, 2, 4)
    BY <1>20, <1>23, <2>1, <2>2, <2>3 DEF Cover
  <2> QED
    BY <1>2, <1>20, <1>23, <2>4 DEF Covered, Spared, Collides
<1>32. WellFormed(p)
  <2>1. IsPair(p[1]) /\ IsPair(p[2]) /\ IsPair(p[3]) /\ IsPair(p[4])
        /\ IsPair(p[5])
    BY <1>4, <1>5, <1>6, <1>7, <1>9, <1>12, <1>15, <1>18 DEF Opens, Then
  <2>2. \A k \in 1..5 : IsPair(p[k]) /\ p[k].do \in Steps
    BY <1>20, <1>23, <1>19, <2>1 DEF Steps
  <2>3. CommitsApart(p)
    <3>1. w # EndOf /\ l # EndOf
      <4>1. EndOf.family = "transaction"
        BY DEF EndOf, Thing
      <4> QED
        BY <1>2, <4>1
    <3>2. \A k \in DOMAIN p : p[k].of = EndOf <=> p[k].do = "commit"
      BY <1>20, <1>23, <3>1
    <3> QED
      BY <3>2, EndsApart
  <2>4. PinsUnderLock(p)
    <3>1. w.live = "unread"
      BY <1>1 DEF ImportLock, Snapshot, Ordered, Under, Thing
    <3> QED
      BY <1>27, <3>1, NoneUnderLock
  <2>5. List(p, 5) /\ 5 \in Nat \ {0} /\ p[5].do = "commit"
    BY <1>19, <1>20
  <2> QED
    BY <2>2, <2>3, <2>4, <2>5, MadeWell
<1> QED
  BY <1>21, <1>24, <1>25, <1>26, <1>27, <1>28, <1>29, <1>30, <1>31, <1>32 DEF Fit, Shape

LEMMA CapturePolicyFits == ASSUME NEW n \in Nat PROVE Fit(CapturePolicy(n))
<1>1. PICK s, d, v : s = Source /\ d = Document /\ v = Version(n)
  OBVIOUS
<1>2. /\ s.family = "policy source" /\ s.under = "none" /\ s.unique = "digest"
      /\ d.family = "policy document" /\ d.under = "none" /\ d.unique = "digest"
      /\ v.family = "policy version" /\ v.under = "source" /\ v.unique = "position"
      /\ s.pinned = FALSE /\ d.pinned = FALSE /\ EndOf.family = "transaction"
  BY <1>1 DEF Source, Document, Version, Ordered, Under, Thing, EndOf
<1>3. s # d /\ s # v /\ d # v /\ s # EndOf /\ d # EndOf /\ v # EndOf
  BY <1>2
<1>4. PICK s1, s2, s3, s4, s5, s6 :
        /\ s1 = <<"key">>
        /\ s2 = <<"key">>
        /\ s3 = <<"look", "insert">>
        /\ s4 = <<"look", "insert">>
        /\ s5 = <<"look", "spend", "insert">>
        /\ s6 = <<"commit">>
  OBVIOUS
<1>5. List(s1, 1) /\ s1[1] = "key"
  BY <1>4, One
<1>6. List(s2, 1) /\ s2[1] = "key"
  BY <1>4, One
<1>7. List(s3, 2) /\ s3[1] = "look" /\ s3[2] = "insert"
  BY <1>4, Two
<1>8. List(s4, 2) /\ s4[1] = "look" /\ s4[2] = "insert"
  BY <1>4, Two
<1>9. List(s5, 3) /\ s5[1] = "look" /\ s5[2] = "spend" /\ s5[3] = "insert"
  BY <1>4, Three
<1>10. List(s6, 1) /\ s6[1] = "commit"
  BY <1>4, One
<1>11. PICK u1 : u1 = On(s, s1)
  OBVIOUS
<1>12. Opens(u1, s, s1, 1)
  BY <1>5, <1>11, FirstOn
<1>13. List(u1, 1)
  BY <1>12 DEF Opens
<1>14. PICK u2 : u2 = u1 \o On(d, s2)
  OBVIOUS
<1>15. Then(u2, u1, 1, d, s2, 1)
  BY <1>13, <1>6, <1>14, JoinOn
<1>16. List(u2, 2)
  BY <1>15 DEF Then
<1>17. PICK u3 : u3 = u2 \o On(s, s3)
  OBVIOUS
<1>18. Then(u3, u2, 2, s, s3, 2)
  BY <1>16, <1>7, <1>17, JoinOn
<1>19. List(u3, 4)
  BY <1>18 DEF Then
<1>20. PICK u4 : u4 = u3 \o On(d, s4)
  OBVIOUS
<1>21. Then(u4, u3, 4, d, s4, 2)
  BY <1>19, <1>8, <1>20, JoinOn
<1>22. List(u4, 6)
  BY <1>21 DEF Then
<1>23. PICK u5 : u5 = u4 \o On(v, s5)
  OBVIOUS
<1>24. Then(u5, u4, 6, v, s5, 3)
  BY <1>22, <1>9, <1>23, JoinOn
<1>25. List(u5, 9)
  BY <1>24 DEF Then
<1>26. PICK p : p = u5 \o On(EndOf, s6)
  OBVIOUS
<1>27. Then(p, u5, 9, EndOf, s6, 1)
  BY <1>25, <1>10, <1>26, JoinOn
<1>28. List(p, 10)
  BY <1>27 DEF Then
<1>29. /\ p[1].do = "key" /\ p[1].of = s
      /\ p[2].do = "key" /\ p[2].of = d
      /\ p[3].do = "look" /\ p[3].of = s
      /\ p[4].do = "insert" /\ p[4].of = s
      /\ p[5].do = "look" /\ p[5].of = d
      /\ p[6].do = "insert" /\ p[6].of = d
      /\ p[7].do = "look" /\ p[7].of = v
      /\ p[8].do = "spend" /\ p[8].of = v
      /\ p[9].do = "insert" /\ p[9].of = v
      /\ p[10].do = "commit" /\ p[10].of = EndOf
  BY <1>5, <1>6, <1>7, <1>8, <1>9, <1>10, <1>12, <1>15, <1>18, <1>21, <1>24,
    <1>27 DEF Opens, Then
<1>30. p = CapturePolicy(n)
  BY <1>1, <1>4, <1>11, <1>14, <1>17, <1>20, <1>23, <1>26 DEF CapturePolicy, Commit, EndOf
<1>31. DOMAIN p = 1..10
  BY <1>28, ListFacts
<1>32. DOMAIN p = {1, 2, 3, 4, 5, 6, 7, 8, 9, 10} /\ Len(p) = 10
  BY <1>31
<1>33. Whole(p)
  BY <1>29, <1>32 DEF Whole
<1>34. ReadsOn(p) /\ InOneSnapshot(p)
  BY <1>29, <1>32 DEF ReadsOn, InOneSnapshot, Verifies
<1>35. \A x, k \in DOMAIN p : ~Jumped(p, x, k)
  BY <1>29, <1>32, <1>3 DEF Jumped, Finds
<1>36. Inserts(p) = {s, d, v}
  BY <1>29, <1>32 DEF Inserts
<1>37. Regular(s) /\ Regular(d) /\ Regular(v)
  BY <1>2 DEF Regular, Numbering, Keyless
<1>38. ~InSession(p)
  BY <1>2, <1>36 DEF InSession
<1>39. LocksInOrder(p)
  <2>1. \A k \in DOMAIN p : Grabs(p[k]) => k \in {1, 2}
    BY <1>2, <1>29, <1>32 DEF Grabs, Collides
  <2>2. Level(p[1]) = 1 /\ Level(p[2]) = 2
        /\ Turn(p[1]) = 0 /\ Turn(p[2]) = 0
    <3>1. p[1].do = "key" /\ p[2].do = "key"
      BY <1>29
    <3>2. /\ p[1].of.family = "policy source"
          /\ p[2].of.family = "policy document"
      BY <1>2, <1>29
    <3> QED
      BY <3>1, <3>2, KeyLevel, HoldLevel, InsertLevel DEF First, Final
  <2> QED
    BY <1>32, <1>38, <2>1, <2>2 DEF LocksInOrder, Before
<1>40. Covered(p)
  <2>1. /\ LockOf(s).do = "key" /\ LockOf(s).of = s
        /\ LockOf(d).do = "key" /\ LockOf(d).of = d
        /\ LockOf(v).do = "key" /\ LockOf(v).of = d
    BY <1>1, <1>2 DEF LockOf, KeyOf
  <2>2. /\ Takes(p[1], LockOf(s)) /\ Checks(p[3], s)
        /\ Takes(p[2], LockOf(d)) /\ Checks(p[5], d)
        /\ Takes(p[2], LockOf(v)) /\ Checks(p[8], v)
    BY <1>2, <1>29, <2>1 DEF Takes, Checks
  <2>3. /\ Straight(p, 1, 4) /\ Straight(p, 3, 4)
        /\ Straight(p, 2, 6) /\ Straight(p, 5, 6)
        /\ Straight(p, 2, 9) /\ Straight(p, 8, 9)
    BY <1>29, <1>32, <1>3 DEF Straight, Finds
  <2>4. Cover(p, 1, 3, 4)
    BY <1>29, <1>32, <2>1, <2>2, <2>3 DEF Cover
  <2>5. Cover(p, 2, 5, 6)
    BY <1>29, <1>32, <2>1, <2>2, <2>3 DEF Cover
  <2>6. Cover(p, 2, 8, 9)
    BY <1>29, <1>32, <2>1, <2>2, <2>3 DEF Cover
  <2> QED
    BY <1>2, <1>29, <1>32, <2>4, <2>5, <2>6 DEF Covered, Spared, Collides
<1>41. WellFormed(p)
  <2>1. /\ IsPair(p[1]) /\ IsPair(p[2]) /\ IsPair(p[3]) /\ IsPair(p[4])
        /\ IsPair(p[5]) /\ IsPair(p[6]) /\ IsPair(p[7]) /\ IsPair(p[8])
        /\ IsPair(p[9]) /\ IsPair(p[10])
    BY <1>5, <1>6, <1>7, <1>8, <1>9, <1>10, <1>12, <1>15, <1>18, <1>21, <1>24,
      <1>27 DEF Opens, Then
  <2>2. \A k \in 1..10 : IsPair(p[k]) /\ p[k].do \in Steps
    BY <1>29, <1>32, <1>28, <2>1 DEF Steps
  <2>3. CommitsApart(p)
    <3>1. s # EndOf /\ d # EndOf /\ v # EndOf
      BY <1>2
    <3>2. \A k \in DOMAIN p : p[k].of = EndOf <=> p[k].do = "commit"
      BY <1>29, <1>32, <3>1
    <3> QED
      BY <3>2, EndsApart
  <2>4. PinsUnderLock(p)
    <3>1. s.live = "unread" /\ d.live = "unread" /\ v.live = "unread"
      BY <1>1 DEF Source, Document, Version, Ordered, Under, Thing, EndOf
    <3> QED
      BY <1>36, <3>1, NoneUnderLock
  <2>5. List(p, 10) /\ 10 \in Nat \ {0} /\ p[10].do = "commit"
    BY <1>28, <1>29
  <2> QED
    BY <2>2, <2>3, <2>4, <2>5, MadeWell
<1> QED
  BY <1>30, <1>33, <1>34, <1>35, <1>36, <1>37, <1>38, <1>39, <1>40, <1>41 DEF Fit, Shape

LEMMA AppendVersionFits == ASSUME NEW n \in Nat PROVE Fit(AppendVersion(n))
<1>1. PICK d, v : d = Document /\ v = Version(n)
  OBVIOUS
<1>2. /\ d.family = "policy document" /\ d.pinned = FALSE
      /\ v.family = "policy version" /\ v.under = "source" /\ v.unique = "position"
      /\ EndOf.family = "transaction"
  BY <1>1 DEF Document, Version, Ordered, Under, Thing, EndOf
<1>3. d # v /\ d # EndOf /\ v # EndOf
  BY <1>2
<1>4. PICK s1, s2, s3 :
        /\ s1 = <<"key">>
        /\ s2 = <<"count", "look", "spend", "insert">>
        /\ s3 = <<"commit">>
  OBVIOUS
<1>5. List(s1, 1) /\ s1[1] = "key"
  BY <1>4, One
<1>6. /\ List(s2, 4) /\ s2[1] = "count" /\ s2[2] = "look" /\ s2[3] = "spend"
      /\ s2[4] = "insert"
  BY <1>4, Four
<1>7. List(s3, 1) /\ s3[1] = "commit"
  BY <1>4, One
<1>8. PICK u1 : u1 = On(d, s1)
  OBVIOUS
<1>9. Opens(u1, d, s1, 1)
  BY <1>5, <1>8, FirstOn
<1>10. List(u1, 1)
  BY <1>9 DEF Opens
<1>11. PICK u2 : u2 = u1 \o On(v, s2)
  OBVIOUS
<1>12. Then(u2, u1, 1, v, s2, 4)
  BY <1>10, <1>6, <1>11, JoinOn
<1>13. List(u2, 5)
  BY <1>12 DEF Then
<1>14. PICK p : p = u2 \o On(EndOf, s3)
  OBVIOUS
<1>15. Then(p, u2, 5, EndOf, s3, 1)
  BY <1>13, <1>7, <1>14, JoinOn
<1>16. List(p, 6)
  BY <1>15 DEF Then
<1>17. /\ p[1].do = "key" /\ p[1].of = d
      /\ p[2].do = "count" /\ p[2].of = v
      /\ p[3].do = "look" /\ p[3].of = v
      /\ p[4].do = "spend" /\ p[4].of = v
      /\ p[5].do = "insert" /\ p[5].of = v
      /\ p[6].do = "commit" /\ p[6].of = EndOf
  BY <1>5, <1>6, <1>7, <1>9, <1>12, <1>15 DEF Opens, Then
<1>18. p = AppendVersion(n)
  BY <1>1, <1>4, <1>8, <1>11, <1>14 DEF AppendVersion, Commit, EndOf
<1>19. DOMAIN p = 1..6
  BY <1>16, ListFacts
<1>20. DOMAIN p = {1, 2, 3, 4, 5, 6} /\ Len(p) = 6
  BY <1>19
<1>21. Whole(p)
  BY <1>17, <1>20 DEF Whole
<1>22. ReadsOn(p) /\ InOneSnapshot(p)
  BY <1>17, <1>20 DEF ReadsOn, InOneSnapshot, Verifies
<1>23. \A x, k \in DOMAIN p : ~Jumped(p, x, k)
  BY <1>17, <1>20, <1>3 DEF Jumped, Finds
<1>24. Inserts(p) = {v}
  BY <1>17, <1>20 DEF Inserts
<1>25. Regular(v)
  BY <1>2 DEF Regular, Numbering, Keyless
<1>26. ~InSession(p)
  BY <1>2, <1>24 DEF InSession
<1>27. LocksInOrder(p)
  <2>1. \A k \in DOMAIN p : Grabs(p[k]) => k \in {1}
    BY <1>2, <1>17, <1>20 DEF Grabs, Collides
  <2>2. Level(p[1]) = 2
        /\ Turn(p[1]) = 0
    <3>1. p[1].do = "key"
      BY <1>17
    <3>2. p[1].of.family = "policy document"
      BY <1>2, <1>17
    <3> QED
      BY <3>1, <3>2, KeyLevel, HoldLevel, InsertLevel DEF First, Final
  <2> QED
    BY <1>20, <1>26, <2>1, <2>2 DEF LocksInOrder, Before
<1>28. Covered(p)
  <2>1. /\ LockOf(v).do = "key" /\ LockOf(v).of = d
    BY <1>1, <1>2 DEF LockOf, KeyOf
  <2>2. /\ Takes(p[1], LockOf(v)) /\ Checks(p[4], v)
    BY <1>2, <1>17, <2>1 DEF Takes, Checks
  <2>3. /\ Straight(p, 1, 5) /\ Straight(p, 4, 5)
    BY <1>17, <1>20, <1>3 DEF Straight, Finds
  <2>4. Cover(p, 1, 4, 5)
    BY <1>17, <1>20, <2>1, <2>2, <2>3 DEF Cover
  <2> QED
    BY <1>2, <1>17, <1>20, <2>4 DEF Covered, Spared, Collides
<1>29. WellFormed(p)
  <2>1. /\ IsPair(p[1]) /\ IsPair(p[2]) /\ IsPair(p[3]) /\ IsPair(p[4])
        /\ IsPair(p[5]) /\ IsPair(p[6])
    BY <1>5, <1>6, <1>7, <1>9, <1>12, <1>15 DEF Opens, Then
  <2>2. \A k \in 1..6 : IsPair(p[k]) /\ p[k].do \in Steps
    BY <1>17, <1>20, <1>16, <2>1 DEF Steps
  <2>3. CommitsApart(p)
    <3>1. v # EndOf /\ d # EndOf
      BY <1>2
    <3>2. \A k \in DOMAIN p : p[k].of = EndOf <=> p[k].do = "commit"
      BY <1>17, <1>20, <3>1
    <3> QED
      BY <3>2, EndsApart
  <2>4. PinsUnderLock(p)
    <3>1. v.live = "unread"
      BY <1>1 DEF Document, Version, Ordered, Under, Thing, EndOf
    <3> QED
      BY <1>24, <3>1, NoneUnderLock
  <2>5. List(p, 6) /\ 6 \in Nat \ {0} /\ p[6].do = "commit"
    BY <1>16, <1>17
  <2> QED
    BY <2>2, <2>3, <2>4, <2>5, MadeWell
<1> QED
  BY <1>18, <1>21, <1>22, <1>23, <1>24, <1>25, <1>26, <1>27, <1>28, <1>29 DEF Fit, Shape

LEMMA PostGraphFits ==  Fit(PostGraph)
<1>1. PICK g : g = Locked(Job("posted graph"))
  OBVIOUS
<1>2. /\ g.family = "posted graph"
      /\ g.family \in Raising /\ EndOf.family = "transaction"
  BY <1>1 DEF Job, Locked, Under, Thing, Raising, EndOf
<1>3. PICK s1, s2, s3, s4 :
        /\ s1 = <<"live", "key", "status">>
        /\ s2 = <<"commit">>
        /\ s3 = <<"artifacts">>
        /\ s4 = <<"commit">>
  OBVIOUS
<1>4. List(s1, 3) /\ s1[1] = "live" /\ s1[2] = "key" /\ s1[3] = "status"
  BY <1>3, Three
<1>5. List(s2, 1) /\ s2[1] = "commit"
  BY <1>3, One
<1>6. List(s3, 1) /\ s3[1] = "artifacts"
  BY <1>3, One
<1>7. List(s4, 1) /\ s4[1] = "commit"
  BY <1>3, One
<1>8. PICK u1 : u1 = On(g, s1)
  OBVIOUS
<1>9. Opens(u1, g, s1, 3)
  BY <1>4, <1>8, FirstOn
<1>10. List(u1, 3)
  BY <1>9 DEF Opens
<1>11. PICK u2 : u2 = u1 \o On(EndOf, s2)
  OBVIOUS
<1>12. Then(u2, u1, 3, EndOf, s2, 1)
  BY <1>10, <1>5, <1>11, JoinOn
<1>13. List(u2, 4)
  BY <1>12 DEF Then
<1>14. PICK u3 : u3 = u2 \o On(g, s3)
  OBVIOUS
<1>15. Then(u3, u2, 4, g, s3, 1)
  BY <1>13, <1>6, <1>14, JoinOn
<1>16. List(u3, 5)
  BY <1>15 DEF Then
<1>17. PICK p : p = u3 \o On(EndOf, s4)
  OBVIOUS
<1>18. Then(p, u3, 5, EndOf, s4, 1)
  BY <1>16, <1>7, <1>17, JoinOn
<1>19. List(p, 6)
  BY <1>18 DEF Then
<1>20. /\ p[1].do = "live" /\ p[1].of = g
      /\ p[2].do = "key" /\ p[2].of = g
      /\ p[3].do = "status" /\ p[3].of = g
      /\ p[4].do = "commit" /\ p[4].of = EndOf
      /\ p[5].do = "artifacts" /\ p[5].of = g
      /\ p[6].do = "commit" /\ p[6].of = EndOf
  BY <1>4, <1>5, <1>6, <1>7, <1>9, <1>12, <1>15, <1>18 DEF Opens, Then
<1>21. p = PostGraph
  BY <1>1, <1>3, <1>8, <1>11, <1>14, <1>17 DEF PostGraph, Commit, EndOf
<1>22. DOMAIN p = 1..6
  BY <1>19, ListFacts
<1>23. DOMAIN p = {1, 2, 3, 4, 5, 6} /\ Len(p) = 6
  BY <1>22
<1>24. Whole(p)
  BY <1>20, <1>23 DEF Whole
<1>25. ReadsOn(p)
  <2>1. Due(p, 4)
    BY <1>20, <1>23 DEF Due, Finds
  <2> QED
    BY <1>20, <1>23, <2>1 DEF ReadsOn
<1>26. InOneSnapshot(p)
  BY <1>2, <1>20, <1>23 DEF InOneSnapshot, Verifies
<1>27. \A x, k \in DOMAIN p : ~Jumped(p, x, k)
  BY <1>20, <1>23 DEF Jumped, Finds
<1>28. Inserts(p) = {}
  BY <1>20, <1>23 DEF Inserts
<1>29. ~InSession(p)
  BY <1>2, <1>28 DEF InSession
<1>30. LocksInOrder(p)
  <2>1. \A k \in DOMAIN p : Grabs(p[k]) => k \in {2}
    BY <1>2, <1>20, <1>23 DEF Grabs, Collides
  <2>2. Level(p[2]) = 2
        /\ Turn(p[2]) = 0
    <3>1. p[2].do = "key"
      BY <1>20
    <3>2. p[2].of.family = "posted graph"
      BY <1>2, <1>20
    <3> QED
      BY <3>1, <3>2, KeyLevel, HoldLevel, InsertLevel DEF First, Final
  <2> QED
    BY <1>23, <1>29, <2>1, <2>2 DEF LocksInOrder, Before
<1>31. Covered(p)
  BY <1>2, <1>20, <1>23 DEF Covered, Spared
<1>32. WellFormed(p)
  <2>1. /\ IsPair(p[1]) /\ IsPair(p[2]) /\ IsPair(p[3]) /\ IsPair(p[4])
        /\ IsPair(p[5]) /\ IsPair(p[6])
    BY <1>4, <1>5, <1>6, <1>7, <1>9, <1>12, <1>15, <1>18 DEF Opens, Then
  <2>2. \A k \in 1..6 : IsPair(p[k]) /\ p[k].do \in Steps
    BY <1>20, <1>23, <1>19, <2>1 DEF Steps
  <2>3. CommitsApart(p)
    <3>1. g # EndOf
      BY <1>2
    <3>2. \A k \in DOMAIN p : p[k].of = EndOf <=> p[k].do = "commit"
      BY <1>20, <1>23, <3>1
    <3> QED
      BY <3>2, EndsApart
  <2>4. PinsUnderLock(p)
    BY <1>28, NoneUnderLock
  <2>5. List(p, 6) /\ 6 \in Nat \ {0} /\ p[6].do = "commit"
    BY <1>19, <1>20
  <2> QED
    BY <2>2, <2>3, <2>4, <2>5, MadeWell
<1> QED
  BY <1>21, <1>24, <1>25, <1>26, <1>27, <1>28, <1>29, <1>30, <1>31, <1>32 DEF Fit, Shape

Acts(p, i, st, n) ==
  /\ DOMAIN p = 1..(n + 1) /\ p[n + 1].do = "commit"
  /\ \A k \in 1..n : p[k].do = st[k] /\ p[k].of = i

LEMMA DoesFacts ==
  ASSUME NEW p, NEW i, NEW st, NEW n, Does(p, i, st, n)
  PROVE  Acts(p, i, st, n)
<1>1. List(p, n + 1)
  BY DEF Does
<1>2. DOMAIN p = 1..(n + 1)
  BY <1>1, ListFacts
<1>3. ASSUME NEW k \in 1..n PROVE p[k].do = st[k] /\ p[k].of = i
  <2>1. p[k] = [do |-> st[k], of |-> i]
    BY DEF Does
  <2> QED
    BY <2>1, Fields
<1>4. p[n + 1].do = "commit"
  <2>1. p[n + 1] = [do |-> "commit", of |-> EndOf]
    BY DEF Does
  <2> QED
    BY <2>1, Fields
<1> QED
  BY <1>2, <1>3, <1>4 DEF Acts

(* Readers lock one thing at most and insert nothing.                      *)
Peeks == {"live", "key", "snapshot", "status", "artifacts", "joined"}

LEMMA ReadersTouchNothing ==
  ASSUME NEW j, j # EndOf, j.name \in Nat, NEW st, NEW n, List(st, n),
         \A k \in 1..n : st[k] \in Peeks, LocksOnce(st, n),
         NEW p, Does(p, j, st, n), ReadsOn(p), InOneSnapshot(p)
  PROVE  Fit(p)
<1>1. /\ n \in Nat /\ DOMAIN p = 1..(n + 1) /\ p[n + 1].do = "commit"
      /\ \A k \in 1..n : p[k].do = st[k]
  BY DoesFacts, ListFacts DEF Acts
<1>2. ASSUME NEW k \in DOMAIN p
      PROVE  p[k].do \in Peeks \cup {"commit"}
  <2>1. k \in 1..n \/ k = n + 1
    BY <1>1
  <2> QED
    BY <1>1, <2>1
<1>3. Inserts(p) = {}
  BY <1>2 DEF Inserts, Peeks
<1>4. Whole(p) /\ Covered(p) /\ LocksInOrder(p)
  <2>1. Whole(p) /\ Covered(p)
    BY <1>2 DEF Whole, Covered, Peeks
  <2>2. ASSUME NEW k \in DOMAIN p, Grabs(p[k])
        PROVE  k \in 1..n /\ st[k] = "key" /\ Turn(p[k]) \in Nat
    <3>1. p[k].do = "key"
      BY <1>2, <2>2 DEF Grabs, Peeks
    <3>2. k \in 1..n /\ p[k].of = j
      BY <1>1, <3>1, DoesFacts DEF Acts
    <3>3. Turn(p[k]) \in Nat
      BY <3>1, <3>2 DEF Turn
    <3> QED
      BY <1>1, <3>1, <3>2, <3>3
  <2>3. \A k, m \in DOMAIN p : Grabs(p[k]) /\ Grabs(p[m]) => k = m
    BY <2>2 DEF LocksOnce
  <2>4. DOMAIN p \subseteq Nat
    BY <1>1
  <2>5. \A k, m \in DOMAIN p : ~(k < m /\ Grabs(p[k]) /\ Grabs(p[m]))
    BY <2>3, <2>4
  <2> QED
    BY <2>1, <2>2, <2>5 DEF LocksInOrder
<1>5. \A x, k \in DOMAIN p : ~Jumped(p, x, k)
  BY <1>2 DEF Jumped, Finds, Peeks
<1>6. WellFormed(p)
  <2>1. List(p, n + 1) /\ n + 1 \in Nat \ {0}
    BY <1>1 DEF Does
  <2>2. ASSUME NEW k \in 1..(n + 1) PROVE IsPair(p[k])
    <3>1. p[k] = [do |-> p[k].do, of |-> p[k].of]
      <4>1. k \in 1..n \/ k = n + 1
        BY <1>1
      <4>2. \/ p[k] = [do |-> st[k], of |-> j]
            \/ p[k] = [do |-> "commit", of |-> EndOf]
        BY <4>1 DEF Does
      <4> QED
        BY <4>2, Fields
    <3> QED
      BY <3>1 DEF IsPair
  <2>3. \A k \in 1..(n + 1) : p[k].do \in Steps
    BY <1>1, <1>2 DEF Steps, Peeks
  <2>4. CommitsApart(p)
    <3>1. \A k \in 1..n : p[k].of = j
      BY DoesFacts DEF Acts
    <3>2. p[n + 1].of = EndOf
      <4>1. p[n + 1] = [do |-> "commit", of |-> EndOf]
        BY DEF Does
      <4> QED
        BY <4>1, Fields
    <3>3. \A k \in 1..n : p[k].do # "commit"
      BY <1>1 DEF Peeks
    <3> QED
      BY <1>1, <3>1, <3>2, <3>3 DEF CommitsApart
  <2>5. PinsUnderLock(p)
    BY <1>2 DEF PinsUnderLock, Peeks
  <2> QED
    BY <1>1, <2>1, <2>2, <2>3, <2>4, <2>5, MadeWell
<1> QED
  BY <1>3, <1>4, <1>5, <1>6 DEF Fit, Shape, InSession

LEMMA JobsAreNoEnds ==
  \A f : /\ Job(f) # EndOf /\ Job(f).name = 0
         /\ Locked(Job(f)) # EndOf /\ Locked(Job(f)).name = 0 /\ Locked(Job(f)).family = f
<1>1. \A f : /\ Job(f).under = "source" /\ Job(f).name = 0
             /\ Locked(Job(f)).under = "source" /\ Locked(Job(f)).name = 0
             /\ Locked(Job(f)).family = f
  BY DEF Job, Locked, Under, Thing
<1>2. EndOf.under = "none"
  BY DEF EndOf, Thing
<1> QED
  BY <1>1, <1>2

LEMMA ReadingFits ==
  ASSUME NEW f, f \in Raising \/ Early(f) = {}
  PROVE  Fit(Reading(f))
<1>1. PICK st, j, p : st = <<"status", "artifacts">> /\ j = Job(f) /\ p = Reading(f)
  OBVIOUS
<1>2. List(st, 2) /\ st[1] = "status" /\ st[2] = "artifacts"
  BY <1>1, Two
<1>3. Does(p, j, st, 2)
  BY <1>1, <1>2, OnFacts DEF Reading
<1>4. /\ DOMAIN p = 1..3 /\ p[1].do = "status" /\ p[2].do = "artifacts"
      /\ p[3].do = "commit"
      /\ p[2].of = j
  <2>1. Acts(p, j, st, 2)
    BY <1>3, DoesFacts
  <2> QED
    BY <1>2, <2>1 DEF Acts
<1>5. DOMAIN p = {1, 2, 3}
  BY <1>4
<1>6. j.family = f
  BY <1>1 DEF Job, Under, Thing
<1>7. Due(p, 2)
  BY <1>4, <1>5 DEF Due, Finds
<1>8. ReadsOn(p)
  BY <1>4, <1>5, <1>7 DEF ReadsOn
<1>9. InOneSnapshot(p)
  BY <1>4, <1>5, <1>6 DEF InOneSnapshot, Verifies
<1>10. (\A k \in 1..2 : st[k] \in Peeks) /\ LocksOnce(st, 2)
  BY <1>2 DEF Peeks, LocksOnce
<1> QED
  BY <1>1, <1>2, <1>3, <1>8, <1>9, <1>10, ReadersTouchNothing, JobsAreNoEnds

LEMMA ReviewingFits == ASSUME NEW f PROVE Fit(Reviewing(f))
<1>1. PICK st, j, p : /\ st = <<"snapshot", "status", "artifacts">>
                      /\ j = Job(f) /\ p = Reviewing(f)
  OBVIOUS
<1>2. List(st, 3) /\ st[1] = "snapshot" /\ st[2] = "status" /\ st[3] = "artifacts"
  BY <1>1, Three
<1>3. Does(p, j, st, 3)
  BY <1>1, <1>2, OnFacts DEF Reviewing
<1>4. p[1] = [do |-> "snapshot", of |-> j] /\ p[2] = [do |-> "status", of |-> j]
  BY <1>2, <1>3 DEF Does
<1>5. /\ DOMAIN p = 1..4 /\ p[1].do = "snapshot" /\ p[2].do = "status"
      /\ p[3].do = "artifacts" /\ p[4].do = "commit" /\ p[3].of = j
  <2>1. Acts(p, j, st, 3)
    BY <1>3, DoesFacts
  <2> QED
    BY <1>2, <2>1 DEF Acts
<1>6. DOMAIN p = {1, 2, 3, 4}
  BY <1>5
<1>7. Due(p, 3)
  BY <1>6, <1>5 DEF Due, Finds
<1>8. ReadsOn(p)
  BY <1>6, <1>5, <1>7 DEF ReadsOn
<1>9. InOneSnapshot(p)
  <2>1. \A k \in DOMAIN p : Verifies(p[k]) => k = 3
    BY <1>6, <1>5 DEF Verifies
  <2> QED
    BY <1>4, <1>5, <2>1 DEF InOneSnapshot
<1>10. (\A k \in 1..3 : st[k] \in Peeks) /\ LocksOnce(st, 3)
  BY <1>2 DEF Peeks, LocksOnce
<1> QED
  BY <1>1, <1>2, <1>3, <1>8, <1>9, <1>10, ReadersTouchNothing, JobsAreNoEnds

LEMMA ReadLinuxFits == Fit(ReadLinux)
<1>1. PICK st, j, p : st = <<"joined">> /\ j = Job("linux evaluation") /\ p = ReadLinux
  OBVIOUS
<1>2. List(st, 1) /\ st[1] = "joined"
  BY <1>1, One
<1>3. Does(p, j, st, 1)
  BY <1>1, <1>2, OnFacts DEF ReadLinux
<1>4. DOMAIN p = 1..2 /\ p[1].do = "joined" /\ p[2].do = "commit"
  <2>1. Acts(p, j, st, 1)
    BY <1>3, DoesFacts
  <2> QED
    BY <1>2, <2>1 DEF Acts
<1>5. ReadsOn(p) /\ InOneSnapshot(p)
  BY <1>4 DEF ReadsOn, InOneSnapshot, Verifies
<1>6. (\A k \in 1..1 : st[k] \in Peeks) /\ LocksOnce(st, 1)
  BY <1>2 DEF Peeks, LocksOnce
<1>7. j # EndOf /\ j.name \in Nat
  <2>1. PICK f : f = "linux evaluation"
    OBVIOUS
  <2>2. j = Job(f)
    BY <1>1, <2>1
  <2> QED
    BY <2>2, JobsAreNoEnds
<1>8. Fit(p)
  BY <1>2, <1>3, <1>5, <1>6, <1>7, ReadersTouchNothing
<1> QED
  BY <1>1, <1>8

LEMMA RepostingFits == ASSUME NEW f \in Raising PROVE Fit(Reposting(f))
<1>1. PICK st, j, p : /\ st = <<"live", "key", "status", "artifacts">>
                      /\ j = Locked(Job(f)) /\ p = Reposting(f)
  OBVIOUS
<1>2. /\ List(st, 4)
      /\ st[1] = "live" /\ st[2] = "key" /\ st[3] = "status" /\ st[4] = "artifacts"
  BY <1>1, Four
<1>3. Does(p, j, st, 4)
  BY <1>1, <1>2, OnFacts DEF Reposting
<1>4. /\ DOMAIN p = 1..5 /\ p[1].do = "live" /\ p[2].do = "key" /\ p[3].do = "status"
      /\ p[4].do = "artifacts" /\ p[5].do = "commit" /\ p[4].of = j
  <2>1. Acts(p, j, st, 4)
    BY <1>3, DoesFacts
  <2> QED
    BY <1>2, <2>1 DEF Acts
<1>5. DOMAIN p = {1, 2, 3, 4, 5}
  BY <1>4
<1>6. j.family = f /\ j # EndOf /\ j.name \in Nat
  BY <1>1, JobsAreNoEnds
<1>7. Due(p, 4)
  BY <1>4, <1>5 DEF Due, Finds
<1>8. ReadsOn(p)
  BY <1>4, <1>5, <1>7 DEF ReadsOn
<1>9. InOneSnapshot(p)
  BY <1>4, <1>5, <1>6 DEF InOneSnapshot, Verifies
<1>10. (\A k \in 1..4 : st[k] \in Peeks) /\ LocksOnce(st, 4)
  BY <1>2 DEF Peeks, LocksOnce
<1> QED
  BY <1>1, <1>2, <1>3, <1>6, <1>8, <1>9, <1>10, ReadersTouchNothing

-------------------------------------------------------------------------------
(* The handlers that make several things, and the readers.                 *)
Composers(n) ==
  {CreateLinux(n), RetryLinux, CreateResearchSurvey(n), CreateOrigin(n), CreateProject(n),
   CreateWorld(n), AppendSnapshot(n), CapturePolicy(n), AppendVersion(n)}
Readers ==
  {ReadChat, ReadWeb, ReadLinux, ReadSurvey, ReadExperiment, ReadRunReport, ReadRunSurvey,
   PostChat, PostSurvey, PostWeb, PostGraph, ReadGraph, VerifyTrial}
Handlers == (UNION {Makers(n) \cup Composers(n) : n \in Nat}) \cup Readers

LEMMA HandlersFit ==
  ASSUME NEW p \in Handlers
  PROVE  Shape(p) /\ (Fit(p) \/ p = RetryLinux)
<1>1. ASSUME p \in Readers PROVE Fit(p)
  <2>1. /\ {"chat evaluation", "web evaluation", "survey experiment", "research run"}
             \subseteq Raising
        /\ Early("semantic experiment") = {} /\ Early("research survey") = {}
    BY DEF Raising, Early
  <2>2. Fit(ReadChat) /\ Fit(ReadWeb) /\ Fit(ReadSurvey) /\ Fit(ReadRunReport)
    BY <2>1, ReadingFits DEF ReadChat, ReadWeb, ReadSurvey, ReadRunReport
  <2>3. Fit(ReadExperiment) /\ Fit(ReadRunSurvey)
    BY <2>1, ReadingFits DEF ReadExperiment, ReadRunSurvey
  <2>4. Fit(ReadGraph) /\ Fit(VerifyTrial)
    BY ReviewingFits DEF ReadGraph, VerifyTrial
  <2>5. Fit(PostChat) /\ Fit(PostSurvey) /\ Fit(PostWeb)
    BY <2>1, RepostingFits DEF PostChat, PostSurvey, PostWeb
  <2> QED
    BY <1>1, <2>2, <2>3, <2>4, <2>5, ReadLinuxFits, PostGraphFits DEF Readers
<1>2. ASSUME NEW n \in Nat, p \in Composers(n) PROVE Fit(p) \/ p = RetryLinux
  BY <1>2, CreateLinuxFits, CreateResearchSurveyFits, CreateOriginFits, CreateProjectFits,
     CreateWorldFits, AppendSnapshotFits, CapturePolicyFits, AppendVersionFits DEF Composers
<1>3. ASSUME p \in UNION {Makers(n) \cup Composers(n) : n \in Nat}
      PROVE  Fit(p) \/ p = RetryLinux
  BY <1>2, <1>3, MakersFit
<1>4. p \in UNION {Makers(n) \cup Composers(n) : n \in Nat} \/ p \in Readers
  BY DEF Handlers
<1>5. Fit(p) => Shape(p)
  BY DEF Fit
<1> QED
  BY <1>1, <1>3, <1>4, <1>5, RetryLinuxFits

(* What is regular agrees.                                                 *)
LEMMA RegularAgree ==
  ASSUME NEW i, NEW j, Regular(i), Regular(j), Alike(i, j)
  PROVE  /\ i.unique = j.unique /\ (Collides(i) <=> Collides(j))
         /\ Spared(i) /\ i.unique # "digest" => LockOf(i) = LockOf(j)
<1>1. i.family = j.family /\ i.under = j.under
  BY DEF Alike
<1>2. i.unique = j.unique
  BY <1>1 DEF Regular, Keyless, Numbering
<1>3. Collides(i) <=> Collides(j)
  BY <1>1, <1>2 DEF Collides
<1>4. ASSUME i.unique # "digest" PROVE LockOf(i) = LockOf(j)
  <2>1. CASE i.family = "survey experiment" /\ i.unique = "parent"
    <3>1. i.under # "none"
      BY <2>1 DEF Regular
    <3>2. i = RetryOf(Survey(0)) /\ j = RetryOf(Survey(0))
      BY <1>1, <2>1, <3>1 DEF Regular
    <3> QED
      BY <3>2
  <2>2. CASE ~(i.family = "survey experiment" /\ i.unique = "parent")
    BY <1>1, <1>2, <1>4, <2>2 DEF LockOf
  <2> QED
    BY <2>1, <2>2
<1> QED
  BY <1>2, <1>3, <1>4

LEMMA RegularPins ==
  ASSUME NEW i, Regular(i), Spared(i), i.unique # "digest", LockOf(i).of.pinned
  PROVE  i.live = "locked"
<1>1. CASE i.family = "survey experiment" /\ i.unique = "parent"
  <2>1. i = RetryOf(Survey(0))
    BY <1>1 DEF Regular
  <2> QED
    BY <2>1 DEF RetryOf, Alone, Under, Survey, Locked, Thing
<1>2. CASE ~(i.family = "survey experiment" /\ i.unique = "parent")
  <2>1. ~Bundle.pinned /\ ~Document.pinned /\ ~Thing("source", 0).pinned
    BY DEF Bundle, Document, Alone, Under, Thing
  <2>2. LockOf(i) \in {KeyOf(Bundle), KeyOf(Document), SourceLock}
    BY <1>2 DEF LockOf
  <2> QED
    BY <2>1, <2>2, Fields DEF KeyOf, SourceLock
<1> QED
  BY <1>1, <1>2

(* The retry of a Linux trial makes its evaluation, which nobody else      *)
(* makes.                                                                  *)
LEMMA OthersMakeNoLinuxChild ==
  ASSUME NEW i, Regular(i)
  PROVE  ~Alike(i, LinuxChild) /\ ~Alike(LinuxChild, i)
<1>1. LinuxChild.family = "linux evaluation" /\ LinuxChild.under = "source"
  BY DEF LinuxChild, LinuxEvaluation, Under, Trial, Locked, Thing
<1> QED
  BY <1>1 DEF Regular, Alike

LEMMA HandlersAreShaped ==
  ASSUME NEW s \in [Clients -> Handlers]
  PROVE  Shaped(s)
<1>1. \A c \in Clients : Shape(s[c]) /\ (Fit(s[c]) \/ s[c] = RetryLinux)
  BY HandlersFit
<1>2. ASSUME NEW c \in Clients, NEW i \in Inserts(s[c])
      PROVE  \/ Regular(i) /\ i # LinuxChild
             \/ i = LinuxChild /\ s[c] = RetryLinux
  <2>1. ASSUME Regular(i) PROVE i # LinuxChild
    BY <2>1, OthersMakeNoLinuxChild DEF Alike
  <2>2. CASE Fit(s[c])
    BY <2>1, <2>2 DEF Fit
  <2>3. CASE s[c] = RetryLinux
    BY <2>1, <2>3, RetryLinuxFits
  <2> QED
    BY <1>1, <2>2, <2>3
<1>3. \A i \in UNION {Inserts(s[c]) : c \in DOMAIN s} : Regular(i) \/ i = LinuxChild
  BY <1>2
<1>4. LinuxChild.unique = "digest"
  BY DEF LinuxChild, LinuxEvaluation, Under, Trial, Locked, Thing
<1>5. Agree(s)
  BY <1>3, <1>4, OthersMakeNoLinuxChild, RegularAgree, RegularPins DEF Agree
<1>6. SkipsWhole(s)
  <2>1. ASSUME NEW c \in DOMAIN s, NEW x \in DOMAIN s[c], NEW k \in DOMAIN s[c],
               Jumped(s[c], x, k)
        PROVE  s[c] = RetryLinux
    BY <1>1, <2>1 DEF Fit
  <2>2. ASSUME NEW c \in DOMAIN s, s[c] = RetryLinux,
               NEW x \in DOMAIN s[c], NEW k \in DOMAIN s[c], Jumped(s[c], x, k)
        PROVE  /\ \A j \in DOMAIN s[c] : s[c][j].do = "insert" => j > x
               /\ \A d \in DOMAIN s : s[c][x].of \in Inserts(s[d]) =>
                                        s[c][k].of \in Inserts(s[d])
    <3>1. /\ s[c][x].of = LinuxChild /\ s[c][k].of = RetryOf(Trial(0))
          /\ \A j \in DOMAIN s[c] : s[c][j].do = "insert" => j > x
      BY <2>2, RetryLinuxFits
    <3>2. ASSUME NEW d \in DOMAIN s, LinuxChild \in Inserts(s[d])
          PROVE  RetryOf(Trial(0)) \in Inserts(s[d])
      BY <1>2, <3>2, RetryLinuxFits
    <3> QED
      BY <3>1, <3>2
  <2> QED
    BY <2>1, <2>2 DEF SkipsWhole
<1> QED
  BY <1>1, <1>5, <1>6 DEF Shaped, Shape

LEMMA HandlersHaveNoSessions == ASSUME NEW p \in Handlers PROVE ~InSession(p)
BY HandlersFit DEF Shape

-------------------------------------------------------------------------------
(* What the machine assumes of the plans it executes, these plans have:    *)
(* nothing is assumed of them.                                             *)
THEOREM HandlersMeetTheAssumption ==
  ASSUME Scripts \subseteq [Clients -> Handlers]
  PROVE  /\ Scripts \subseteq [Clients -> Plans]
         /\ \A s \in Scripts : \A c \in Clients : CommitsApart(s[c]) /\ PinsUnderLock(s[c])
<1>1. ASSUME NEW s \in Scripts, NEW c \in Clients
      PROVE  s[c] \in Plans /\ CommitsApart(s[c]) /\ PinsUnderLock(s[c])
  <2>1. PICK p : p = s[c]
    OBVIOUS
  <2>2. WellFormed(p)
    BY <2>1, HandlersFit DEF Shape
  <2>3. PICK n \in Nat \ {0} :
          DOMAIN p = 1..n /\ p = [k \in 1..n |-> p[k]] /\ p[n].do = "commit"
    BY <2>2 DEF WellFormed
  <2>4. ASSUME NEW k \in 1..n PROVE p[k] \in [do : Steps, of : Items]
    <3>1. IsPair(p[k]) /\ p[k].do \in Steps
      BY <2>2, <2>3 DEF WellFormed
    <3>2. p[k].of \in {s[c][j].of : j \in DOMAIN s[c]}
      BY <2>1, <2>3
    <3>3. p[k].of \in Items
      BY <3>2 DEF Items
    <3> QED
      BY <3>1, <3>3 DEF IsPair
  <2>5. p \in Seq([do : Steps, of : Items]) /\ Len(p) = n /\ p # <<>>
    <3>1. PICK S : S = [do : Steps, of : Items]
      OBVIOUS
    <3>2. p \in [1..n -> S]
      BY <2>3, <2>4, <3>1
    <3>3. p \in Seq(S) /\ Len(p) = n
      BY <3>2
    <3> QED
      BY <3>1, <3>3, EmptySeq
  <2>6. p \in Plans
    BY <2>3, <2>5 DEF Plans
  <2> QED
    BY <2>1, <2>2, <2>6 DEF WellFormed
<1>2. ASSUME NEW s \in Scripts PROVE s \in [Clients -> Plans]
  <2>1. s \in [Clients -> Handlers]
    OBVIOUS
  <2> QED
    BY <1>1, <2>1
<1> QED
  BY <1>1, <1>2

(* Every set of requests to these handlers, of any size and whatever they  *)
(* ask for, has the shapes.                                                *)
THEOREM HandlersHaveTheShapes ==
  ASSUME Scripts \subseteq [Clients -> Handlers]
  PROVE  Shapes
BY HandlersAreShaped DEF Shapes

(* However many requests run at a time: what is in the tables was asked    *)
(* for by requests answered ok, which find all they asked for; a violation *)
(* of a unique key hits only a project, its agenda context or its run, a    *)
(* retry or a target; a reader raises only if it verifies in two           *)
(* statements, and never presents a finished job without its artifacts.    *)
THEOREM HandlersKeepTheirPromises ==
  ASSUME Scripts \subseteq [Clients -> Handlers]
  PROVE  Spec => [](/\ NothingHalfDone /\ EverythingThere /\ OnlyTheseCollide
                    /\ ReadsAreWhole /\ OnlyTheseRaise)
<1>1. \A s \in Scripts :
        /\ SkipsWhole(s) /\ Agree(s)
        /\ \A c \in Clients : /\ Whole(s[c]) /\ Covered(s[c])
                              /\ ReadsOn(s[c]) /\ InOneSnapshot(s[c])
  BY HandlersHaveTheShapes DEF Shapes, Shaped
<1>2. Spec => []NothingHalfDone
  BY <1>1, NothingIsHalfDone
<1>3. Spec => []EverythingThere
  BY <1>1, EverythingIsThere
<1>4. Spec => []OnlyTheseCollide
  BY <1>1, LocksSpareTheOthers
<1>5. Spec => []ReadsAreWhole
  BY <1>1, ReadersSeeWholeJobs
<1>6. Spec => []OnlyTheseRaise
  BY <1>1, OneSnapshotNeverRaises
<1> QED
  BY <1>2, <1>3, <1>4, <1>5, <1>6, PTL

(* And none of them is ever the victim of a deadlock: all handlers take    *)
(* their locks in one order.                                               *)
Undisturbed == \A c \in Clients : answer[c] # "deadlock"

THEOREM HandlersNeverDeadlock ==
  ASSUME Scripts \subseteq [Clients -> Handlers]
  PROVE  Spec => []Undisturbed
<1>1. \A s \in Scripts : /\ Agree(s)
                         /\ \A c \in Clients : Covered(s[c]) /\ LocksInOrder(s[c])
  BY HandlersHaveTheShapes DEF Shapes, Shaped
<1>2. Spec => []OnlySessionsDeadlock
  BY <1>1, OnlySessionsMakeCircles
<1>3. ASSUME Discipline, OnlySessionsDeadlock PROVE Undisturbed
  <2>1. \A c \in Clients : ~InSession(plan[c])
    BY <1>3, PlanIsOfAScript, HandlersHaveNoSessions
  <2> QED
    BY <1>3, <2>1 DEF OnlySessionsDeadlock, Undisturbed, InSession, Asked
<1> QED
  BY <1>2, <1>3, LocksAreKept, PTL

===============================================================================
