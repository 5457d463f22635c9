-------------------------- MODULE RequestLocksProofs --------------------------
(***************************************************************************)
(* What the locks of the requests achieve, for any number of requests with *)
(* any plans of the handlers' shapes: an insert covered by its lock runs   *)
(* into nothing, committed or not, and locks taken in one order make no    *)
(* deadlock.                                                               *)
(***************************************************************************)
EXTENDS RequestsProofs

(* What requests ever write, and that the tables hold nothing else.        *)
Written == UNION {Asked(c) : c \in Clients}
Known   == \A r \in rows : r.item \in Written

LEMMA DoneIsAsked ==
  ASSUME NEW c \in Clients
  PROVE  Done(c, "insert") \subseteq Asked(c) /\ Asked(c) \subseteq Written
BY DEF Done, Asked, Inserts, Written

LEMMA VisibleIsKnown ==
  ASSUME Known, EveryOwned, NEW c \in Clients, NEW r \in Visible(c)
  PROVE  r.item \in Written
<1>1. CASE r \in rows
  BY <1>1 DEF Known
<1>2. CASE r \in tx[c].pending
  BY <1>2, DoneIsAsked DEF EveryOwned, Owned
<1> QED
  BY <1>1, <1>2 DEF Visible

LEMMA KnownKept ==
  ASSUME Discipline, EveryOwned, Known, [Next]_vars
  PROVE  Known'
<1>1. Written' = Written
  BY EveryStep DEF Written, Asked
<1>2. \/ rows' = rows
      \/ \E c \in Clients : rows' = Visible(c)
  BY OnlyCommitsWrite DEF Visible
<1> QED
  BY <1>1, <1>2, VisibleIsKnown DEF Known

-------------------------------------------------------------------------------
(* The lock an item is looked for under.                                   *)
LEMMA LockFacts ==
  ASSUME NEW i
  PROVE  /\ i.unique = "digest" => LockOf(i) = KeyOf(i)
         /\ LockOf(i).of.pinned => LockOf(i) = KeyOf(i)
         /\ LockOf(i).do \in {"key", "hold"}
         /\ KeyOf(i).of = i /\ KeyOf(i).do = "key"
<1>1. LockOf(i) \in {KeyOf(i), KeyOf(Bundle), KeyOf(Document), SourceLock}
  BY DEF LockOf
<1>2. ~KeyOf(Bundle).of.pinned /\ ~KeyOf(Document).of.pinned /\ ~SourceLock.of.pinned
  BY DEF KeyOf, Bundle, Document, SourceLock, Alone, Under, Thing
<1>3. \A j : KeyOf(j).of = j /\ KeyOf(j).do = "key"
  BY DEF KeyOf
<1>4. SourceLock.do = "hold"
  BY DEF SourceLock
<1>5. i.unique = "digest" => LockOf(i) = KeyOf(i)
  BY DEF LockOf
<1> QED
  BY <1>1, <1>2, <1>3, <1>4, <1>5

LEMMA Agreeing ==
  ASSUME Discipline, Agree(plan), NEW i \in Written, NEW j \in Written, Alike(i, j)
  PROVE  /\ i.unique = j.unique /\ (Collides(i) <=> Collides(j)) /\ (Spared(i) <=> Spared(j))
         /\ Spared(i) /\ i.unique # "digest" => LockOf(i) = LockOf(j)
<1>1. Written = UNION {Inserts(plan[c]) : c \in DOMAIN plan}
  BY PlanIsOfAScript DEF Written, Asked
<1>2. /\ i.unique = j.unique /\ (Collides(i) <=> Collides(j))
      /\ Spared(i) /\ i.unique # "digest" => LockOf(i) = LockOf(j)
  BY <1>1 DEF Agree
<1> QED
  BY <1>2 DEF Spared

(* Two transactions do not secure rival records.                           *)
LEMMA SecuredOnce ==
  ASSUME Discipline, Agree(plan), NEW c \in Clients, NEW d \in Clients, c # d,
         NEW r, NEW q, r.item \in Written, q.item \in Written, Spared(r.item), Rival(q, r),
         Secured(tx[c], r), Secured(tx[d], q),
         r.item.unique # "digest" /\ LockOf(r.item).of.pinned => q.config = r.config
  PROVE  FALSE
<1>1. Exclusive
  BY DEF Discipline
<1>2. LockOf(q.item) = LockOf(r.item)
  <2>1. CASE r.item.unique = "digest"
    BY <2>1 DEF Rival
  <2>2. CASE r.item.unique # "digest"
    <3>1. Alike(r.item, q.item)
      BY DEF Rival, Alike
    <3> QED
      BY <2>2, <3>1, Agreeing
  <2> QED
    BY <2>1, <2>2
<1>3. CASE LockOf(r.item).do = "hold"
  BY <1>1, <1>2, <1>3 DEF Secured, Exclusive
<1>4. CASE LockOf(r.item).do # "hold"
  <2>1. Token(q) = Token(r)
    <3>1. LockOf(r.item).of.pinned => q.config = r.config
      BY DEF Rival
    <3> QED
      BY <1>2, <3>1 DEF Token
  <2>2. Token(r) \in tx[c].keys /\ Token(r) \in tx[d].keys
    BY <1>2, <1>4, <2>1 DEF Secured
  <2> QED
    BY <1>1, <2>2 DEF Exclusive
<1> QED
  BY <1>3, <1>4

(* Between the reading of a configuration under LOCK TABLE and the insert  *)
(* that pins it, the transaction holds that lock.                          *)
LEMMA PinnedAhead ==
  ASSUME Discipline, NEW c \in Clients, Busy(c), NEW j \in DOMAIN plan[c], NEW k \in DOMAIN plan[c],
         j < pc[c], pc[c] <= k, plan[c][k].do = "insert", plan[c][k].of.live = "locked",
         \A n \in DOMAIN plan[c] : j <= n /\ n <= k => plan[c][n].do # "live"
  PROVE  plan[c][k].of.pinned /\ tx[c].shares
<1> DEFINE p == plan[c]
           i == plan[c][k].of
<1>1. /\ DOMAIN p = 1..Len(p) /\ Len(p) \in Nat /\ pc[c] \in Nat /\ plan \in Scripts
  BY AtStep DEF Discipline, TypeOK
<1>2. i.pinned /\ UnderLock(p, k)
  BY <1>1, PlanAssumption DEF PinsUnderLock
<1>3. PICK h \in 1..(k - 1) : /\ p[h].do = "live"
                              /\ \A n \in h..k : p[n].of = i /\ p[n].do # "commit"
  BY <1>2 DEF UnderLock
<1>4. h < j
  BY <1>1, <1>3
<1>5. pc[c] \in h..k /\ h \in 1..(pc[c] - 1) /\ h..pc[c] \subseteq h..k
  BY <1>1, <1>3, <1>4
<1>6. UnderLock(p, pc[c])
  BY <1>3, <1>5 DEF UnderLock
<1> QED
  BY <1>2, <1>6 DEF Discipline, Steady

LEMMA AboutRecord ==
  ASSUME NEW c \in Clients, NEW i
  PROVE  /\ Record(c, i).item = i /\ Record(c, i).at = tx[c].at
         /\ Record(c, i).config = (IF i.pinned THEN tx[c].config ELSE "none")
         /\ New(c) = Record(c, Item(c))
BY DEF Record, New, Pin

(* What a transaction is about to insert under its lock, no other open     *)
(* transaction has inserted.                                               *)
LEMMA Excludes ==
  ASSUME Discipline, Agree(plan), EveryOwned, \A d \in Clients : Sealed(d),
         NEW c \in Clients, NEW k \in DOMAIN plan[c], Awaited(c, k),
         NEW j \in DOMAIN plan[c], NEW m \in DOMAIN plan[c], Cover(plan[c], j, m, k), j < pc[c],
         Secured(tx[c], Record(c, plan[c][k].of)),
         NEW d \in Clients, d # c, NEW q \in tx[d].pending, Rival(q, Record(c, plan[c][k].of))
  PROVE  FALSE
<1> DEFINE i == plan[c][k].of
           r == Record(c, i)
<1>1. /\ Busy(c) /\ k >= pc[c] /\ plan[c][k].do = "insert" /\ Spared(i)
      /\ r.item = i /\ r.config = (IF i.pinned THEN tx[c].config ELSE "none")
  BY AboutRecord DEF Awaited
<1>2. i \in Written /\ q.item \in Written /\ Alike(i, q.item) /\ Alike(q.item, i)
  <2>1. i \in Asked(c)
    BY <1>1 DEF Asked, Inserts
  <2>2. q.item \in Asked(d)
    BY DoneIsAsked DEF EveryOwned, Owned
  <2> QED
    BY <1>1, <2>1, <2>2, DoneIsAsked DEF Rival, Alike
<1>3. Spared(q.item) /\ Secured(tx[d], q)
  BY <1>1, <1>2, Agreeing DEF Sealed
<1>4. ASSUME i.unique # "digest", LockOf(i).of.pinned PROVE q.config = r.config
  <2>1. LockOf(i) = KeyOf(i) /\ LockOf(q.item) = KeyOf(q.item) /\ q.item = i
    <3>1. LockOf(i) = LockOf(q.item)
      BY <1>1, <1>2, <1>4, Agreeing
    <3>2. LockOf(i) = KeyOf(i) /\ LockOf(q.item) = KeyOf(q.item)
      BY <1>4, <3>1, LockFacts
    <3>3. KeyOf(i).of = i /\ KeyOf(q.item).of = q.item
      BY DEF KeyOf
    <3> QED
      BY <3>1, <3>2, <3>3
  <2>2. i.live = "locked"
    BY <1>1, <1>2, <1>4, PlanIsOfAScript DEF Agree, Written, Asked
  <2>3. tx[d].shares /\ q.config = tx[d].config
    BY <2>1, <2>2 DEF Discipline, Steady
  <2>4. \A n \in DOMAIN plan[c] : j <= n /\ n <= k => plan[c][n].do # "live"
    BY <1>4 DEF Cover
  <2>5. pc[c] <= k
    BY <1>1, AtStep DEF Discipline
  <2>6. i.pinned /\ tx[c].shares
    BY <1>1, <2>2, <2>4, <2>5, PinnedAhead
  <2>7. tx[c].config = tx[d].config
    BY <2>3, <2>6 DEF Discipline, Steady
  <2> QED
    BY <1>1, <2>3, <2>6, <2>7
<1> HIDE DEF r, i
<1>5. Rival(q, r) /\ Secured(tx[c], r)
  BY DEF r, i
<1> QED
  BY <1>1, <1>2, <1>3, <1>4, <1>5, SecuredOnce

-------------------------------------------------------------------------------
(* What a request has inserted stays secured until it commits or ends.     *)
EverySealed == \A c \in Clients : Sealed(c)
EverySafe   == \A c \in Clients : Safe(c)

LEMMA Secures ==
  ASSUME NEW t, NEW u, NEW r, NEW q, Secured(t, r), t.keys \subseteq u.keys,
         t.holds => u.holds, LockOf(q.item) = LockOf(r.item), Token(q) = Token(r)
  PROVE  Secured(u, q)
BY DEF Secured

LEMMA LocksGrow ==
  ASSUME Discipline, NEW c \in Clients, Goes(c)
  PROVE  tx[c].keys \subseteq tx'[c].keys /\ (tx[c].holds => tx'[c].holds)
BY Changes

LEMMA SealedKept ==
  ASSUME Discipline, EverySealed, EverySafe, [Next]_vars
  PROVE  EverySealed'
<1> SUFFICES ASSUME NEW c \in Clients, NEW r \in tx'[c].pending, Spared(r.item)
             PROVE  Secured(tx'[c], r)
  BY DEF EverySealed, Sealed
<1>1. CASE tx'[c] = tx[c]
  BY <1>1 DEF EverySealed, Sealed
<1>2. CASE CommitTx(c) \/ Fault(c)
  BY <1>2, Committing, Ending, Released
<1>3. CASE Goes(c) /\ r \in tx[c].pending
  <2>1. Secured(tx[c], r)
    BY <1>3 DEF EverySealed, Sealed
  <2> QED
    BY <1>3, <2>1, LocksGrow, Secures
<1>4. CASE Goes(c) /\ r \notin tx[c].pending
  <2>1. plan[c][pc[c]].do = "insert" /\ r = New(c) /\ Busy(c)
    BY <1>4, Changes, Going
  <2>2. pc[c] \in DOMAIN plan[c] /\ pc[c] \in Nat /\ DOMAIN plan[c] \subseteq Nat
    BY AtStep DEF Discipline, TypeOK
  <2>3. Awaited(c, pc[c])
    BY <2>1, <2>2 DEF Awaited, New, Item
  <2>4. PICK j \in DOMAIN plan[c], m \in DOMAIN plan[c] :
          /\ Cover(plan[c], j, m, pc[c])
          /\ j < pc[c] => Secured(tx[c], Record(c, plan[c][pc[c]].of))
    BY <2>2, <2>3 DEF EverySafe, Safe
  <2>5. j < pc[c]
    BY <2>2, <2>4 DEF Cover
  <2>6. Secured(tx[c], r)
    BY <2>1, <2>4, <2>5, AboutRecord DEF Item
  <2> QED
    BY <1>4, <2>6, LocksGrow, Secures
<1>5. ASSUME NEW d \in Clients, Goes(d) \/ CommitTx(d) \/ Fault(d), d # c
      PROVE  tx'[c] = tx[c]
  BY <1>5, Going, Committing, Ending
<1> QED
  BY <1>1, <1>2, <1>3, <1>4, <1>5, EveryStep

-------------------------------------------------------------------------------
(* Numbers within a family stay below its size.                            *)
EveryNumbered == Numbered(rows) /\ \A c \in Clients : Numbered(Visible(c))

LEMMA VisibleIsFinite ==
  ASSUME Discipline, NEW c \in Clients
  PROVE  /\ IsFiniteSet(rows) /\ IsFiniteSet(Visible(c))
         /\ \A i : /\ IsFiniteSet(Family(Visible(c), i))
                  /\ Cardinality(Family(Visible(c), i)) \in Nat
<1>1. IsFiniteSet(rows) /\ IsFiniteSet(tx[c].pending)
  BY DEF Discipline, TypeOK
<1>2. IsFiniteSet(Visible(c))
  BY <1>1, FS_Union DEF Visible
<1>3. ASSUME NEW i PROVE IsFiniteSet(Family(Visible(c), i))
  BY <1>2, FS_Subset DEF Family
<1> QED
  BY <1>1, <1>2, <1>3, FS_CardinalityType

LEMMA NumberedUnion ==
  ASSUME NEW V, NEW W, IsFiniteSet(V), IsFiniteSet(W), Numbered(V), Numbered(W),
         \A r \in V \cup W : r.at \in Nat
  PROVE  Numbered(V \cup W)
<1> SUFFICES ASSUME NEW r \in V \cup W, r.item.unique = "position"
             PROVE  r.at < Cardinality(Family(V \cup W, r.item))
  BY DEF Numbered
<1> DEFINE i == r.item
<1>1. IsFiniteSet(Family(V \cup W, i))
  <2>1. IsFiniteSet(V \cup W)
    BY FS_Union
  <2> QED
    BY <2>1, FS_Subset DEF Family
<1>2. ASSUME NEW S, S = V \/ S = W, r \in S PROVE r.at < Cardinality(Family(V \cup W, i))
  <2>1. Family(S, i) \subseteq Family(V \cup W, i)
    BY <1>2 DEF Family
  <2>2. /\ IsFiniteSet(Family(S, i))
        /\ Cardinality(Family(S, i)) <= Cardinality(Family(V \cup W, i))
    BY <1>1, <2>1, FS_Subset
  <2>3. Cardinality(Family(S, i)) \in Nat /\ Cardinality(Family(V \cup W, i)) \in Nat
    BY <1>1, <2>2, FS_CardinalityType
  <2>4. r.at < Cardinality(Family(S, i))
    BY <1>2 DEF Numbered
  <2> QED
    BY <2>2, <2>3, <2>4
<1> QED
  BY <1>2

LEMMA NumberedNext ==
  ASSUME NEW V, NEW r, IsFiniteSet(V), Numbered(V), r.at \in Nat, \A q \in V : q.at \in Nat,
         r.item.unique = "position" => r.at = Cardinality(Family(V, r.item))
  PROVE  Numbered(V \cup {r})
<1> DEFINE W == V \cup {r}
<1>1. IsFiniteSet(W)
  BY FS_AddElement
<1> SUFFICES ASSUME NEW q \in W, q.item.unique = "position"
             PROVE  q.at < Cardinality(Family(W, q.item))
  BY DEF Numbered
<1>2. /\ IsFiniteSet(Family(V, q.item)) /\ IsFiniteSet(Family(W, q.item))
      /\ Cardinality(Family(V, q.item)) <= Cardinality(Family(W, q.item))
      /\ Cardinality(Family(V, q.item)) \in Nat /\ Cardinality(Family(W, q.item)) \in Nat
  <2>1. IsFiniteSet(Family(W, q.item))
    BY <1>1, FS_Subset DEF Family
  <2>2. Family(V, q.item) \subseteq Family(W, q.item)
    BY DEF Family
  <2> QED
    BY <2>1, <2>2, FS_Subset, FS_CardinalityType
<1>3. CASE q \in V
  BY <1>2, <1>3 DEF Numbered
<1>4. CASE q \notin V
  <2>1. q = r /\ q.at = Cardinality(Family(V, q.item))
    BY <1>4
  <2>2. Family(W, q.item) = Family(V, q.item) \cup {q} /\ q \notin Family(V, q.item)
    BY <1>4, <2>1 DEF Family, Alike
  <2>3. Cardinality(Family(W, q.item)) = Cardinality(Family(V, q.item)) + 1
    BY <1>2, <2>2, FS_AddElement
  <2> QED
    BY <1>2, <2>1, <2>3
<1> QED
  BY <1>3, <1>4

(* Who is about to insert has the lock, and nothing in its way.            *)
LEMMA ReadyToInsert ==
  ASSUME Discipline, EverySafe, NEW c \in Clients, Busy(c), plan[c][pc[c]].do = "insert",
         Spared(Item(c))
  PROVE  /\ Clear(Visible(c), New(c)) /\ pc[c] \in DOMAIN plan[c] /\ Awaited(c, pc[c])
         /\ \E j, m \in DOMAIN plan[c] :
              /\ Cover(plan[c], j, m, pc[c]) /\ j < pc[c]
              /\ Secured(tx[c], Record(c, plan[c][pc[c]].of))
<1>1. pc[c] \in DOMAIN plan[c] /\ pc[c] \in Nat /\ DOMAIN plan[c] \subseteq Nat
  BY AtStep DEF Discipline, TypeOK
<1>2. Awaited(c, pc[c])
  BY <1>1 DEF Awaited, Item
<1>3. PICK j \in DOMAIN plan[c], m \in DOMAIN plan[c] :
        /\ Cover(plan[c], j, m, pc[c])
        /\ j < pc[c] => Secured(tx[c], Record(c, plan[c][pc[c]].of))
        /\ m < pc[c] => Clear(Visible(c), Record(c, plan[c][pc[c]].of))
  BY <1>1, <1>2 DEF EverySafe, Safe
<1>4. j < pc[c] /\ m < pc[c]
  BY <1>1, <1>3 DEF Cover
<1> QED
  BY <1>1, <1>2, <1>3, <1>4, AboutRecord DEF Item

LEMMA VisibleTyped ==
  ASSUME Discipline, NEW c \in Clients
  PROVE  \A r \in Visible(c) : r.at \in Nat
<1>1. rows \subseteq Records /\ tx[c].pending \subseteq Records
  BY DEF Discipline, TypeOK, Txs
<1> QED
  BY <1>1 DEF Visible, Records

LEMMA NumberedKept ==
  ASSUME Discipline, EveryNumbered, EverySafe, [Next]_vars
  PROVE  EveryNumbered'
<1>1. Numbered(rows)'
  <2>1. rows' = rows \/ \E c \in Clients : rows' = Visible(c)
    BY OnlyCommitsWrite DEF Visible
  <2> QED
    BY <2>1 DEF EveryNumbered, Numbered
<1>2. ASSUME NEW c \in Clients PROVE Numbered(Visible(c)')
  <2>1. CASE Visible(c)' = Visible(c) \/ Visible(c)' = rows
    BY <2>1 DEF EveryNumbered
  <2>2. CASE Goes(c)
    <3>1. rows' = rows /\ Busy(c)
      BY <2>2, Going
    <3>2. CASE plan[c][pc[c]].do # "insert"
      BY <2>1, <2>2, <3>1, <3>2, Changes DEF Visible
    <3>3. CASE plan[c][pc[c]].do = "insert"
      <4>1. Visible(c)' = Visible(c) \cup {New(c)}
        BY <2>2, <3>1, <3>3, Changes DEF Visible
      <4>2. New(c).item.unique = "position" =>
              New(c).at = Cardinality(Family(Visible(c), New(c).item))
        <5>1. SUFFICES ASSUME New(c).item.unique = "position"
                       PROVE  New(c).at = Cardinality(Family(Visible(c), New(c).item))
          OBVIOUS
        <5>2. Spared(Item(c))
          BY <5>1 DEF New, Spared, Collides
        <5>3. Clear(Visible(c), New(c))
          BY <3>1, <3>3, <5>2, ReadyToInsert
        <5> QED
          BY <5>1, <5>3 DEF Clear
      <4>3. New(c).at \in Nat
        BY Values DEF Discipline, Records
      <4>4. Numbered(Visible(c)) /\ IsFiniteSet(Visible(c)) /\ \A q \in Visible(c) : q.at \in Nat
        BY VisibleIsFinite, VisibleTyped DEF EveryNumbered
      <4>5. Numbered(Visible(c) \cup {New(c)})
        BY <4>2, <4>3, <4>4, NumberedNext
      <4> QED
        BY <4>1, <4>5
    <3> QED
      BY <3>2, <3>3
  <2>3. CASE CommitTx(c)
    <3>1. Visible(c)' = rows'
      BY <2>3, Committing, Released DEF Visible
    <3> QED
      BY <1>1, <3>1
  <2>4. CASE Fault(c)
    BY <2>1, <2>4, Ending, Released DEF Visible
  <2>5. ASSUME NEW d \in Clients, d # c, CommitTx(d) PROVE Numbered(Visible(c)')
    <3>1. Visible(c)' = Visible(c) \cup Visible(d)
      BY <2>5, Committing DEF Visible
    <3>2. /\ IsFiniteSet(Visible(c)) /\ IsFiniteSet(Visible(d))
          /\ Numbered(Visible(c)) /\ Numbered(Visible(d))
          /\ \A r \in Visible(c) \cup Visible(d) : r.at \in Nat
      BY <2>5, VisibleIsFinite, VisibleTyped DEF EveryNumbered
    <3> QED
      BY <3>1, <3>2, NumberedUnion
  <2>6. ASSUME NEW d \in Clients, d # c, Goes(d) \/ Fault(d) PROVE Visible(c)' = Visible(c)
    BY <2>6, Going, Ending DEF Visible
  <2>7. CASE UNCHANGED <<rows, tx>>
    BY <2>1, <2>7 DEF Visible
  <2> QED
    BY <2>1, <2>2, <2>3, <2>4, <2>5, <2>6, <2>7, EveryStep
<1> QED
  BY <1>1, <1>2 DEF EveryNumbered, Numbered

-------------------------------------------------------------------------------
(* What the locks and checks of a request have established lasts.          *)

(* Whoever passes step j on the way to k does it.                          *)
LEMMA NotPassedOver ==
  ASSUME Discipline, NEW c \in Clients, Goes(c), NEW j \in DOMAIN plan[c], NEW k \in DOMAIN plan[c],
         pc[c] <= j, j < pc'[c], pc'[c] <= k, Straight(plan[c], j, k)
  PROVE  pc[c] = j
<1> DEFINE p == plan[c]
<1>1. /\ DOMAIN p = 1..Len(p) /\ Len(p) \in Nat /\ pc[c] \in Nat /\ pc[c] \in DOMAIN p
  BY AtStep DEF Discipline, TypeOK
<1>2. SUFFICES ASSUME pc[c] < j PROVE FALSE
  BY <1>1
<1>3. pc'[c] # pc[c] + 1
  BY <1>1, <1>2
<1>4. PICK n \in DOMAIN p : /\ pc'[c] = n + 1 /\ p[n].of = Item(c) /\ Finds(p[pc[c]])
                            /\ \A x \in DOMAIN p : x > n => p[x].of # Item(c)
  BY <1>3, Going
<1>5. j <= n /\ n < k
  BY <1>1, <1>4
<1>6. PICK z \in DOMAIN p : z >= k /\ p[z].of = Item(c)
  BY <1>1, <1>2, <1>4, <1>5 DEF Straight, Item
<1>7. z > n
  BY <1>1, <1>5, <1>6
<1> QED
  BY <1>4, <1>6, <1>7

LEMMA StaysSecured ==
  ASSUME Discipline, NEW c \in Clients, Goes(c), NEW k \in DOMAIN plan[c], pc'[c] <= k,
         NEW j \in DOMAIN plan[c], NEW m \in DOMAIN plan[c], Cover(plan[c], j, m, k), j < pc'[c],
         j < pc[c] => Secured(tx[c], Record(c, plan[c][k].of))
  PROVE  Secured(tx'[c], Record(c, plan[c][k].of)')
<1> DEFINE i == plan[c][k].of
           x == plan[c][pc[c]]
           r == Record(c, i)
           s == Record(c, i)'
<1>1. /\ pc[c] \in DOMAIN plan[c] /\ pc[c] \in Nat /\ pc'[c] \in Nat /\ DOMAIN plan[c] \subseteq Nat
      /\ pc'[c] > pc[c] /\ plan' = plan
  BY AtStep, Going DEF Discipline, TypeOK
<1>2. /\ r.item = i /\ r.config = (IF i.pinned THEN tx[c].config ELSE "none")
      /\ s.item = i /\ s.config = (IF i.pinned THEN tx'[c].config ELSE "none")
  BY <1>1 DEF Record
<1>3. LockOf(i).of.pinned => LockOf(i) = KeyOf(i) /\ LockOf(i).of = i
  BY LockFacts
<1>4. /\ Takes(plan[c][j], LockOf(i)) /\ Straight(plan[c], j, k)
      /\ \A n \in DOMAIN plan[c] : j <= n /\ n <= k =>
           plan[c][n].do # "commit" /\ (LockOf(i).of.pinned => plan[c][n].do # "live")
  BY DEF Cover
<1>5. CASE j < pc[c]
  <2>1. LockOf(i).of.pinned => x.do # "live"
    BY <1>1, <1>4, <1>5
  <2>2. LockOf(i).of.pinned => s.config = r.config
    BY <1>2, <2>1, Changes
  <2> HIDE DEF i, r, s
  <2>3. Secured(tx[c], r) /\ s.item = r.item /\ r.item = i
    BY <1>2, <1>5 DEF i, r
  <2>4. Token(s) = Token(r)
    BY <2>2, <2>3 DEF Token
  <2>5. Secured(tx'[c], s)
    BY <2>3, <2>4, LocksGrow, Secures
  <2> QED
    BY <1>1, <2>5 DEF i, s
<1>6. CASE ~(j < pc[c])
  <2>1. j = pc[c]
    BY <1>1, <1>4, <1>6, NotPassedOver
  <2>2. x.do = LockOf(i).do /\ (x.do = "hold" \/ x.of = LockOf(i).of) /\ x.do \in {"key", "hold"}
    BY <1>4, <2>1, LockFacts DEF Takes
  <2>3. CASE x.do = "hold"
    <3>1. tx'[c].holds
      BY <2>3, Changes
    <3> QED
      BY <1>1, <1>2, <2>2, <2>3, <3>1 DEF Secured
  <2>4. CASE x.do = "key"
    <3>1. Digest(c) \in tx'[c].keys /\ tx'[c].config = tx[c].config
      BY <2>4, Changes
    <3>2. Digest(c) = [item |-> LockOf(i).of,
                       config |-> IF LockOf(i).of.pinned THEN tx[c].config ELSE "none"]
      BY <2>2, <2>4 DEF Digest, Pin, Item
    <3>3. LockOf(i).of.pinned => s.config = tx[c].config
      BY <1>2, <1>3, <3>1
    <3> HIDE DEF i, r, s
    <3>4. Token(s) = Digest(c)
      BY <1>2, <3>2, <3>3 DEF Token
    <3>5. Secured(tx'[c], s)
      BY <1>2, <2>2, <2>4, <3>1, <3>4 DEF Secured
    <3> QED
      BY <1>1, <3>5 DEF i, s
  <2> QED
    BY <2>2, <2>3, <2>4
<1> QED
  BY <1>5, <1>6

(* What is clear stays so beside records that are no rivals.               *)
LEMMA ClearBeside ==
  ASSUME NEW V, NEW W, NEW r, NEW s, Clear(V, r), s.item = r.item, s.at = r.at,
         r.item.unique = "digest" => s.config = r.config,
         V \subseteq W, \A q \in W : q \notin V => ~Rival(q, r)
  PROVE  Clear(W, s)
<1>1. \A q : Rival(q, s) <=> Rival(q, r)
  BY DEF Rival
<1>2. CASE r.item.unique = "position"
  <2>1. \A q : Rival(q, r) <=> Alike(q.item, r.item)
    BY <1>2 DEF Rival
  <2>2. Family(W, r.item) = Family(V, r.item)
    BY <2>1 DEF Family
  <2> QED
    BY <1>2, <2>2 DEF Clear
<1>3. CASE r.item.unique # "position"
  BY <1>1, <1>3 DEF Clear
<1> QED
  BY <1>2, <1>3

LEMMA StaysClear ==
  ASSUME Discipline, NEW c \in Clients, Goes(c), NEW k \in DOMAIN plan[c], pc'[c] <= k,
         NEW j \in DOMAIN plan[c], NEW m \in DOMAIN plan[c], Cover(plan[c], j, m, k), m < pc'[c],
         m < pc[c] => Clear(Visible(c), Record(c, plan[c][k].of))
  PROVE  Clear(Visible(c)', Record(c, plan[c][k].of)')
<1> DEFINE i == plan[c][k].of
           x == plan[c][pc[c]]
           r == Record(c, i)
           s == Record(c, i)'
<1>1. /\ pc[c] \in DOMAIN plan[c] /\ pc[c] \in Nat /\ pc'[c] \in Nat /\ DOMAIN plan[c] \subseteq Nat
      /\ pc'[c] > pc[c] /\ plan' = plan /\ rows' = rows
  BY AtStep, Going DEF Discipline, TypeOK
<1>2. /\ r.item = i /\ r.config = (IF i.pinned THEN tx[c].config ELSE "none") /\ r.at = tx[c].at
      /\ s.item = i /\ s.config = (IF i.pinned THEN tx'[c].config ELSE "none") /\ s.at = tx'[c].at
  BY <1>1 DEF Record
<1>3. i.unique = "digest" => LockOf(i) = KeyOf(i) /\ LockOf(i).of = i
  BY LockFacts
<1>4. /\ j < m /\ m < k /\ Checks(plan[c][m], i) /\ Straight(plan[c], m, k)
      /\ \A n \in DOMAIN plan[c] : j <= n /\ n <= k =>
           plan[c][n].do # "commit" /\ (LockOf(i).of.pinned => plan[c][n].do # "live")
      /\ \A n \in DOMAIN plan[c] : m < n /\ n < k =>
           /\ plan[c][n].do \notin {"count", "spend"}
           /\ plan[c][n].do = "insert" => ~Alike(plan[c][n].of, i)
  BY DEF Cover
<1>5. CASE m < pc[c]
  <2>1. /\ x.do \notin {"count", "spend"} /\ (x.do = "insert" => ~Alike(x.of, i))
        /\ LockOf(i).of.pinned => x.do # "live"
    <3>1. m < pc[c] /\ pc[c] < k /\ j <= pc[c] /\ pc[c] <= k
      BY <1>1, <1>4, <1>5
    <3> QED
      BY <1>1, <1>4, <3>1
  <2>2. s.at = r.at
    BY <1>2, <2>1, Changes
  <2>3. i.unique = "digest" => s.config = r.config
    BY <1>2, <1>3, <2>1, Changes
  <2>4. /\ Visible(c) \subseteq Visible(c)'
        /\ \A q \in Visible(c)' : q \notin Visible(c) => ~Rival(q, r)
    <3>1. CASE x.do # "insert"
      BY <1>1, <3>1, Changes DEF Visible
    <3>2. CASE x.do = "insert"
      <4>1. Visible(c)' = Visible(c) \cup {New(c)}
        BY <1>1, <3>2, Changes DEF Visible
      <4>2. ~Rival(New(c), r)
        BY <1>2, <2>1, <3>2 DEF Rival, New, Item
      <4> QED
        BY <4>1, <4>2
    <3> QED
      BY <3>1, <3>2
  <2> HIDE DEF i, r, s
  <2>5. Clear(Visible(c), r)
    BY <1>5 DEF i, r
  <2>6. Clear(Visible(c)', s)
    BY <1>2, <2>2, <2>3, <2>4, <2>5, ClearBeside
  <2> QED
    BY <1>1, <2>6 DEF i, s
<1>6. CASE ~(m < pc[c])
  <2>1. m = pc[c]
    BY <1>1, <1>4, <1>6, NotPassedOver
  <2>2. Item(c) = i /\ x.do \in {"look", "count", "spend", "child"}
    BY <1>4, <2>1 DEF Checks, Item
  <2>3. Visible(c)' = Visible(c)
    BY <1>1, <2>2, Changes DEF Visible
  <2>4. Siblings(c) = Family(Visible(c), i)
    BY <2>2 DEF Siblings, Family, Alike
  <2>5. /\ x.do = "look" =>
             \A q \in Visible(c) : [item |-> q.item, config |-> q.config] # Digest(c)
        /\ x.do = "child" => Siblings(c) = {}
    <3>1. ~ \E n \in DOMAIN plan[c] : /\ pc'[c] = n + 1
                                      /\ \A y \in DOMAIN plan[c] : y > n => plan[c][y].of # Item(c)
      BY <1>1, <2>2
    <3> QED
      BY <3>1, Going
  <2>6. CASE i.unique = "digest"
    <3>1. x.do = "look"
      BY <1>4, <2>1, <2>6 DEF Checks
    <3>2. s.config = Pin(c)
      BY <1>2, <2>2, <3>1, Changes DEF Pin
    <3>3. \A q \in Visible(c) : ~(q.item = i /\ q.config = s.config)
      BY <2>2, <2>5, <3>1, <3>2 DEF Digest
    <3> HIDE DEF i, s
    <3>4. Clear(Visible(c), s)
      BY <1>2, <2>6, <3>3 DEF Clear, Rival
    <3> QED
      BY <1>1, <2>3, <3>4 DEF i, s
  <2>7. CASE i.unique = "position"
    <3>1. x.do \in {"count", "spend"}
      BY <1>4, <2>1, <2>7 DEF Checks
    <3>2. s.at = Cardinality(Family(Visible(c), i))
      BY <1>2, <2>4, <3>1, Changes
    <3> HIDE DEF i, s
    <3>3. Clear(Visible(c), s)
      BY <1>2, <2>7, <3>2 DEF Clear
    <3> QED
      BY <1>1, <2>3, <3>3 DEF i, s
  <2>8. CASE i.unique \notin {"digest", "position"}
    <3>1. x.do = "child"
      BY <1>4, <2>1, <2>8 DEF Checks
    <3>2. Family(Visible(c), i) = {}
      BY <2>4, <2>5, <3>1
    <3> HIDE DEF i, s
    <3>3. Clear(Visible(c), s)
      BY <1>2, <2>8, <3>2 DEF Clear, Rival, Family
    <3> QED
      BY <1>1, <2>3, <3>3 DEF i, s
  <2> QED
    BY <2>6, <2>7, <2>8
<1> QED
  BY <1>5, <1>6

(* Another transaction commits no rival of what a lock covers.             *)
LEMMA ClearOfOthers ==
  ASSUME Discipline, Agree(plan), EveryOwned, EverySealed, NEW c \in Clients, NEW d \in Clients,
         d # c, CommitTx(d), NEW k \in DOMAIN plan[c], Awaited(c, k),
         NEW j \in DOMAIN plan[c], NEW m \in DOMAIN plan[c], Cover(plan[c], j, m, k), m < pc[c],
         j < pc[c] => Secured(tx[c], Record(c, plan[c][k].of)),
         Clear(Visible(c), Record(c, plan[c][k].of))
  PROVE  Clear(Visible(c)', Record(c, plan[c][k].of)')
<1> DEFINE r == Record(c, plan[c][k].of)
<1>1. /\ tx'[c] = tx[c] /\ plan' = plan /\ Visible(c)' = Visible(c) \cup tx[d].pending
  BY Committing DEF Visible
<1>2. Record(c, plan[c][k].of)' = r
  BY <1>1 DEF Record
<1>3. j < pc[c]
  <2>1. j < m /\ m \in Nat /\ j \in Nat /\ pc[c] \in Nat
    BY AtStep DEF Cover, Discipline
  <2> QED
    BY <2>1
<1>4. \A q \in tx[d].pending : ~Rival(q, r)
  BY <1>3, Excludes DEF EverySealed
<1>5. Clear(Visible(c), r)
  OBVIOUS
<1> HIDE DEF r
<1>6. Clear(Visible(c)', r)
  BY <1>1, <1>4, <1>5, ClearBeside
<1> QED
  BY <1>2, <1>6 DEF r

LEMMA SafeKept ==
  ASSUME Discipline, Agree(plan), EveryOwned, EverySealed, EverySafe, [Next]_vars
  PROVE  EverySafe'
<1>1. plan' = plan
  BY EveryStep
<1> SUFFICES ASSUME NEW c \in Clients, NEW k \in DOMAIN plan[c], Awaited(c, k)'
             PROVE  \E j, m \in DOMAIN plan[c] :
                      /\ Cover(plan[c], j, m, k)
                      /\ j < pc'[c] => Secured(tx'[c], Record(c, plan[c][k].of)')
                      /\ m < pc'[c] => Clear(Visible(c)', Record(c, plan[c][k].of)')
  BY <1>1 DEF EverySafe, Safe
<1>2. /\ Busy(c)' /\ k >= pc'[c] /\ plan[c][k].do = "insert" /\ Spared(plan[c][k].of)
      /\ k \in Nat /\ pc[c] \in Nat /\ pc'[c] \in Nat
  <2>1. Discipline'
    BY Keeps
  <2> QED
    BY <1>1, <2>1, AtStep DEF Awaited, Discipline, TypeOK
<1>3. Busy(c) /\ k >= pc[c]
  <2>1. \/ answer'[c] = answer[c] /\ pc'[c] >= pc[c]
        \/ Busy(c) /\ pc'[c] >= pc[c]
        \/ ~Busy(c)'
    BY <1>2, EveryStep, Going, Committing, Ending DEF Busy
  <2> QED
    BY <1>2, <2>1 DEF Busy
<1>4. Awaited(c, k)
  BY <1>2, <1>3 DEF Awaited
<1>5. PICK j \in DOMAIN plan[c], m \in DOMAIN plan[c] :
        /\ Cover(plan[c], j, m, k)
        /\ j < pc[c] => Secured(tx[c], Record(c, plan[c][k].of))
        /\ m < pc[c] => Clear(Visible(c), Record(c, plan[c][k].of))
  BY <1>4 DEF EverySafe, Safe
<1>6. j \in Nat /\ m \in Nat /\ j < m /\ m < k
  BY AtStep, <1>5 DEF Discipline, Cover
<1> SUFFICES /\ j < pc'[c] => Secured(tx'[c], Record(c, plan[c][k].of)')
             /\ m < pc'[c] => Clear(Visible(c)', Record(c, plan[c][k].of)')
  BY <1>5
<1>7. CASE Goes(c)
  BY <1>2, <1>5, <1>7, StaysSecured, StaysClear
<1>8. CASE CommitTx(c)
  <2>1. plan[c][pc[c]].do = "commit" /\ pc'[c] = pc[c] + 1 /\ pc[c] \in DOMAIN plan[c]
    BY <1>2, <1>8, Committing, AtStep DEF Busy, Discipline, TypeOK
  <2>2. ~(j <= pc[c] /\ pc[c] <= k)
    BY <1>5, <2>1 DEF Cover
  <2> QED
    BY <1>2, <1>6, <2>1, <2>2
<1>9. CASE Fault(c)
  BY <1>2, <1>9, Ending DEF Busy
<1>10. ASSUME NEW d \in Clients, d # c, CommitTx(d)
       PROVE  /\ j < pc'[c] => Secured(tx'[c], Record(c, plan[c][k].of)')
              /\ m < pc'[c] => Clear(Visible(c)', Record(c, plan[c][k].of)')
  <2>1. tx'[c] = tx[c] /\ pc'[c] = pc[c]
    BY <1>10, Committing
  <2>2. Record(c, plan[c][k].of)' = Record(c, plan[c][k].of)
    BY <1>1, <2>1 DEF Record
  <2> QED
    BY <1>4, <1>5, <1>10, <2>1, <2>2, ClearOfOthers
<1>11. ASSUME tx'[c] = tx[c], pc'[c] = pc[c], rows' = rows
       PROVE  /\ j < pc'[c] => Secured(tx'[c], Record(c, plan[c][k].of)')
              /\ m < pc'[c] => Clear(Visible(c)', Record(c, plan[c][k].of)')
  <2>1. Record(c, plan[c][k].of)' = Record(c, plan[c][k].of) /\ Visible(c)' = Visible(c)
    BY <1>1, <1>11 DEF Record, Visible
  <2> QED
    BY <1>5, <1>11, <2>1
<1>12. ASSUME NEW d \in Clients, d # c, Goes(d) \/ Fault(d)
       PROVE  tx'[c] = tx[c] /\ pc'[c] = pc[c] /\ rows' = rows
  BY <1>12, Going, Ending
<1> QED
  BY <1>7, <1>8, <1>9, <1>10, <1>11, <1>12, EveryStep

-------------------------------------------------------------------------------
(* Nothing is in the way of an insert under its lock.                      *)
EveryGuard == EveryNumbered /\ EverySealed /\ EverySafe

LEMMA GuardedFirst ==
  ASSUME Init, Discipline, \A c \in Clients : Covered(plan[c])
  PROVE  EveryOwned /\ Known /\ EveryGuard
<1>1. EveryOwned /\ Known /\ EverySealed
  BY OwnedFirst, Released DEF Init, Known, EverySealed, Sealed, NewTx
<1>2. EveryNumbered
  BY DEF Init, EveryNumbered, Numbered, Visible, NewTx
<1>3. EverySafe
  <2> SUFFICES ASSUME NEW c \in Clients, NEW k \in DOMAIN plan[c], Awaited(c, k)
               PROVE  \E j, m \in DOMAIN plan[c] :
                        /\ Cover(plan[c], j, m, k)
                        /\ j < pc[c] => Secured(tx[c], Record(c, plan[c][k].of))
                        /\ m < pc[c] => Clear(Visible(c), Record(c, plan[c][k].of))
    BY DEF EverySafe, Safe
  <2>1. PICK j \in DOMAIN plan[c], m \in DOMAIN plan[c] : Cover(plan[c], j, m, k)
    BY DEF Covered, Awaited
  <2>2. ~(j < pc[c]) /\ ~(m < pc[c])
    BY AtStep DEF Init, Discipline
  <2> QED
    BY <2>1, <2>2
<1> QED
  BY <1>1, <1>2, <1>3 DEF EveryGuard

LEMMA GuardsKept ==
  ASSUME Discipline, Agree(plan), EveryOwned, Known, EveryGuard, [Next]_vars
  PROVE  EveryOwned' /\ Known' /\ EveryGuard'
BY OwnedKept, KnownKept, NumberedKept, SealedKept, SafeKept DEF EveryGuard, EveryOwned

LEMMA ClashesAreRivals ==
  ASSUME NEW q, NEW r, Clash(q, r)
  PROVE  Rival(q, r) /\ r.item.unique # "none"
BY DEF Clash, Rival, Alike

LEMMA NothingInTheWay ==
  ASSUME Discipline, Agree(plan), EveryOwned, Known, EveryGuard,
         NEW c \in Clients, Busy(c), plan[c][pc[c]].do = "insert", Spared(Item(c)),
         NEW q \in Visible(c), Clash(q, New(c))
  PROVE  FALSE
<1> DEFINE r == New(c)
<1>1. Clear(Visible(c), r) /\ Rival(q, r) /\ r.item = Item(c)
  BY ReadyToInsert, ClashesAreRivals DEF EveryGuard, New
<1>2. CASE r.item.unique = "position"
  <2>1. r.at = Cardinality(Family(Visible(c), r.item)) /\ q.at = r.at
    BY <1>1, <1>2 DEF Clear, Clash
  <2>2. r.item \in Written /\ q.item \in Written
    <3>1. Item(c) \in Asked(c)
      BY AtStep DEF Asked, Inserts, Item, Discipline, TypeOK
    <3> QED
      BY <1>1, <3>1, DoneIsAsked, VisibleIsKnown
  <2>3. Alike(q.item, r.item) /\ q.item.unique = "position"
    BY <1>1, <1>2, <2>2, Agreeing DEF Rival
  <2>4. Family(Visible(c), q.item) = Family(Visible(c), r.item)
    BY <2>3 DEF Family, Alike
  <2>5. q.at < Cardinality(Family(Visible(c), q.item))
    BY <2>3 DEF EveryGuard, EveryNumbered, Numbered
  <2>6. q.at \in Nat
    BY VisibleTyped
  <2> QED
    BY <2>1, <2>4, <2>5, <2>6
<1>3. CASE r.item.unique # "position"
  BY <1>1, <1>3 DEF Clear
<1> QED
  BY <1>2, <1>3

LEMMA OnlyTheseKept ==
  ASSUME Discipline, Agree(plan), EveryOwned, Known, EveryGuard, OnlyTheseCollide, [Next]_vars
  PROVE  OnlyTheseCollide'
<1> SUFFICES ASSUME NEW c \in Clients, answer'[c] = "integrity_error"
             PROVE  \E i \in Asked(c) : Collides(i)
  BY EveryStep DEF OnlyTheseCollide, Asked
<1>1. CASE answer'[c] = answer[c]
  BY <1>1 DEF OnlyTheseCollide
<1>2. CASE answer'[c] # answer[c]
  <2>1. Collide(c)
    BY <1>2, Causes
  <2>2. PICK q \in Visible(c) : Clash(q, New(c))
    BY <2>1 DEF Collide
  <2>3. Busy(c) /\ plan[c][pc[c]].do = "insert"
    BY <2>1 DEF Collide, Doing
  <2>4. ~Spared(Item(c)) /\ Item(c).unique # "none"
    BY <2>2, <2>3, NothingInTheWay, ClashesAreRivals DEF New
  <2>5. Item(c) \in Asked(c)
    BY <2>3, AtStep DEF Asked, Inserts, Item, Discipline, TypeOK
  <2> QED
    BY <2>4, <2>5 DEF Spared
<1> QED
  BY <1>1, <1>2

(* However many requests run together: a violation of a unique key hits    *)
(* only those that insert a run of a project, a retry whose digest covers  *)
(* the configuration, or a target.  The locks the handlers take, at the    *)
(* places they take them, spare all others, the rows of other tables in    *)
(* the same transaction included.                                          *)
THEOREM LocksSpareTheOthers ==
  ASSUME \A s \in Scripts : Agree(s) /\ \A c \in Clients : Covered(s[c])
  PROVE  Spec => []OnlyTheseCollide
<1>1. Init /\ Discipline => EveryOwned /\ Known /\ EveryGuard /\ OnlyTheseCollide
  <2>1. Init => OnlyTheseCollide
    BY DEF Init, OnlyTheseCollide
  <2> QED
    BY <2>1, GuardedFirst, PlanIsOfAScript
<1>2. /\ Discipline /\ EveryOwned /\ Known /\ EveryGuard /\ OnlyTheseCollide /\ [Next]_vars
      => EveryOwned' /\ Known' /\ EveryGuard' /\ OnlyTheseCollide'
  BY GuardsKept, OnlyTheseKept, PlanIsOfAScript
<1> QED
  BY <1>1, <1>2, LocksAreKept, PTL DEF Spec

-------------------------------------------------------------------------------
(* The locks a request waits for, and the insert of another that it waits  *)
(* for, come in the order of the steps.                                    *)
Wait(c)    == plan[c][pc[c]]
Equal(x, y) == Level(x) = Level(y) /\ Turn(x) = Turn(y)

LEMMA InTheOrder ==
  ASSUME NEW x, NEW y, NEW z, Turn(x) \in Nat, Turn(y) \in Nat, Turn(z) \in Nat
  PROVE  /\ Level(x) \in 0..4
         /\ ~(Before(x, y) /\ Before(y, x)) /\ ~Before(x, x)
         /\ Before(x, y) => Before(x, z) \/ Before(z, y)
<1>1. \A u : Level(u) \in 0..4
  BY DEF Level
<1>2. Level(x) \in 0..4 /\ Level(y) \in 0..4 /\ Level(z) \in 0..4
  BY <1>1
<1> QED
  BY <1>2 DEF Before

LEMMA BlockedAt ==
  ASSUME Discipline, Agree(plan), EveryOwned, Known, EveryGuard,
         NEW c \in Clients, NEW d \in Blockers(c)
  PROVE  /\ d \in Clients /\ d # c /\ Grabs(Wait(c))
         /\ \E j \in DOMAIN plan[d] : /\ j < pc[d] /\ Grabs(plan[d][j])
                                      /\ Equal(plan[d][j], Wait(c))
<1>1. d \in Clients /\ d # c
  BY DEF Blockers
<1>2. CASE Doing(c, "key") /\ Digest(c) \in tx[d].keys
  <2>1. Item(c) \in Done(d, "key")
    <3>1. Digest(c).item \in Done(d, "key")
      BY <1>1, <1>2 DEF EveryOwned, Owned
    <3> QED
      BY <3>1 DEF Digest
  <2>2. PICK j \in DOMAIN plan[d] : j < pc[d] /\ plan[d][j].do = "key" /\ plan[d][j].of = Item(c)
    BY <2>1 DEF Done
  <2>3. Wait(c).do = "key" /\ Wait(c).of = Item(c)
    BY <1>2 DEF Wait, Doing, Item
  <2>4. Level(plan[d][j]) = Level(Wait(c)) /\ Turn(plan[d][j]) = Turn(Wait(c))
    BY <2>2, <2>3 DEF Level, Turn
  <2> QED
    BY <1>1, <2>2, <2>3, <2>4 DEF Grabs, Equal
<1>3. CASE Doing(c, "hold") /\ tx[d].holds
  <2>1. PICK j \in DOMAIN plan[d] : j < pc[d] /\ plan[d][j].do = "hold"
    BY <1>1, <1>3 DEF EveryOwned, Owned, Done
  <2>2. Wait(c).do = "hold"
    BY <1>3 DEF Wait, Doing
  <2>3. Level(plan[d][j]) = Level(Wait(c)) /\ Turn(plan[d][j]) = Turn(Wait(c))
    BY <2>1, <2>2 DEF Level, Turn
  <2> QED
    BY <1>1, <2>1, <2>2, <2>3 DEF Grabs, Equal
<1>4. CASE Doing(c, "insert") /\ \E q \in tx[d].pending : Clash(q, New(c))
  <2>1. PICK q \in tx[d].pending : Clash(q, New(c))
    BY <1>4
  <2>2. /\ Busy(c) /\ plan[c][pc[c]].do = "insert" /\ Wait(c).do = "insert" /\ Wait(c).of = Item(c)
        /\ Rival(q, New(c)) /\ New(c).item = Item(c) /\ Item(c).unique # "none"
    BY <1>4, <2>1, ClashesAreRivals DEF Doing, Wait, Item, New
  <2>3. ~Spared(Item(c))
    <3>1. SUFFICES ASSUME Spared(Item(c)) PROVE FALSE
      OBVIOUS
    <3>2. PICK j \in DOMAIN plan[c], m \in DOMAIN plan[c] :
            /\ Cover(plan[c], j, m, pc[c]) /\ j < pc[c]
            /\ Secured(tx[c], Record(c, plan[c][pc[c]].of))
      BY <2>2, <3>1, ReadyToInsert DEF EveryGuard
    <3>3. pc[c] \in DOMAIN plan[c] /\ Awaited(c, pc[c])
      BY <2>2, <3>1, ReadyToInsert DEF EveryGuard
    <3>4. Rival(q, Record(c, plan[c][pc[c]].of))
      BY <2>2, AboutRecord DEF Item
    <3> QED
      BY <1>1, <3>2, <3>3, <3>4, Excludes DEF EveryGuard, EverySealed
  <2>4. Collides(Item(c))
    BY <2>2, <2>3 DEF Spared
  <2>5. PICK j \in DOMAIN plan[d] :
          j < pc[d] /\ plan[d][j].do = "insert" /\ plan[d][j].of = q.item
    BY <1>1 DEF EveryOwned, Owned, Done
  <2>6. Collides(q.item)
    <3>1. Item(c) \in Asked(c) /\ q.item \in Asked(d)
      BY <2>2, <2>5, AtStep DEF Asked, Inserts, Item, Discipline, TypeOK
    <3> QED
      BY <1>1, <2>2, <2>4, <3>1, DoneIsAsked, Agreeing DEF Rival
  <2>7. Level(plan[d][j]) = Level(Wait(c)) /\ Turn(plan[d][j]) = Turn(Wait(c))
    BY <2>2, <2>5 DEF Level, Turn, Rival, Alike
  <2> QED
    BY <1>1, <2>2, <2>4, <2>5, <2>6, <2>7 DEF Grabs, Equal
<1> QED
  BY <1>1, <1>2, <1>3, <1>4 DEF Blockers

(* Who waits does so for a lock that does not come before one it has; who  *)
(* is in no interview session, for one that comes after.                   *)
LEMMA WaitsInOrder ==
  ASSUME Discipline, Agree(plan), EveryOwned, Known, EveryGuard,
         \A c \in Clients : LocksInOrder(plan[c]),
         NEW c \in Clients, NEW d \in Blockers(c), Blockers(d) # {}
  PROVE  /\ d \in Clients /\ d # c /\ Turn(Wait(c)) \in Nat /\ Turn(Wait(d)) \in Nat
         /\ ~Before(Wait(d), Wait(c))
         /\ ~InSession(plan[d]) => Before(Wait(c), Wait(d))
<1>1. PICK j \in DOMAIN plan[d] : j < pc[d] /\ Grabs(plan[d][j]) /\ Equal(plan[d][j], Wait(c))
  BY BlockedAt
<1>2. d \in Clients /\ d # c /\ Grabs(Wait(c)) /\ Grabs(Wait(d))
  <2>1. d \in Clients /\ d # c /\ Grabs(Wait(c))
    BY BlockedAt
  <2> QED
    BY <2>1, BlockedAt
<1>3. pc[c] \in DOMAIN plan[c] /\ pc[d] \in DOMAIN plan[d]
  BY <1>2, AtStep DEF Discipline, TypeOK
<1>4. /\ Turn(Wait(c)) \in Nat /\ Turn(Wait(d)) \in Nat /\ Turn(plan[d][j]) \in Nat
  BY <1>1, <1>2, <1>3 DEF LocksInOrder, Wait
<1>5. IF InSession(plan[d]) THEN ~Before(Wait(d), plan[d][j]) ELSE Before(plan[d][j], Wait(d))
  BY <1>1, <1>2, <1>3 DEF LocksInOrder, Wait
<1>6. IF InSession(plan[d]) THEN ~Before(Wait(d), Wait(c)) ELSE Before(Wait(c), Wait(d))
  BY <1>1, <1>5 DEF Equal, Before
<1> QED
  BY <1>2, <1>4, <1>6, InTheOrder

LEMMA OutsideTheCircles ==
  ASSUME Discipline, Agree(plan), EveryOwned, Known, EveryGuard,
         \A c \in Clients : LocksInOrder(plan[c]), NEW c \in Clients, Deadlocked(c)
  PROVE  InSession(plan[c])
<1> SUFFICES ASSUME ~InSession(plan[c]) PROVE FALSE
  OBVIOUS
<1>1. CASE Blockers(c) = {}
  BY <1>1 DEF Deadlocked
<1>2. CASE Blockers(c) # {}
  <2> DEFINE S == {d \in Clients \ {c} : Blockers(d) # {} => /\ Turn(Wait(d)) \in Nat
                                                            /\ ~Before(Wait(d), Wait(c))}
  <2>1. Blockers(c) \subseteq S
    <3> SUFFICES ASSUME NEW d \in Blockers(c) PROVE d \in S
      OBVIOUS
    <3>1. d \in Clients /\ d # c
      BY BlockedAt
    <3> QED
      BY <3>1, WaitsInOrder
  <2>2. ASSUME NEW d \in S, NEW e \in Blockers(d) PROVE e \in S
    <3>1. d \in Clients /\ e \in Clients /\ Turn(Wait(d)) \in Nat /\ ~Before(Wait(d), Wait(c))
      BY <2>2, BlockedAt
    <3>2. e # c
      BY <1>2, <2>2, <3>1, WaitsInOrder
    <3>3. ASSUME Blockers(e) # {} PROVE Turn(Wait(e)) \in Nat /\ ~Before(Wait(e), Wait(c))
      <4>1. Turn(Wait(e)) \in Nat /\ ~Before(Wait(e), Wait(d))
        BY <2>2, <3>1, <3>3, WaitsInOrder
      <4>2. Turn(Wait(c)) \in Nat
        <5>1. PICK x \in Blockers(c) : TRUE
          BY <1>2
        <5>2. Grabs(Wait(c)) /\ pc[c] \in DOMAIN plan[c]
          BY <5>1, BlockedAt, AtStep DEF Discipline, TypeOK
        <5> QED
          BY <5>2 DEF LocksInOrder, Wait
      <4> QED
        BY <3>1, <4>1, <4>2, InTheOrder
    <3> QED
      BY <3>1, <3>2, <3>3
  <2>3. S \in SUBSET (Clients \ {c})
    OBVIOUS
  <2> HIDE DEF S
  <2> QED
    BY <2>1, <2>2, <2>3 DEF Deadlocked
<1> QED
  BY <1>1, <1>2

(* However many requests wait for each other's locks, and for the end of   *)
(* each other's inserts: only an interview session can wait for itself.    *)
THEOREM OnlySessionsMakeCircles ==
  ASSUME \A s \in Scripts : /\ Agree(s)
                            /\ \A c \in Clients : Covered(s[c]) /\ LocksInOrder(s[c])
  PROVE  Spec => []OnlySessionsDeadlock
<1>1. Init /\ Discipline => EveryOwned /\ Known /\ EveryGuard /\ OnlySessionsDeadlock
  <2>1. Init => OnlySessionsDeadlock
    BY DEF Init, OnlySessionsDeadlock
  <2> QED
    BY <2>1, GuardedFirst, PlanIsOfAScript
<1>2. ASSUME Discipline, EveryOwned, Known, EveryGuard, OnlySessionsDeadlock, [Next]_vars
      PROVE  EveryOwned' /\ Known' /\ EveryGuard' /\ OnlySessionsDeadlock'
  <2>1. ASSUME NEW c \in Clients, answer'[c] = "deadlock" PROVE InSession(plan[c])
    <3>1. CASE answer'[c] = answer[c]
      BY <1>2, <2>1, <3>1 DEF OnlySessionsDeadlock
    <3>2. CASE answer'[c] # answer[c]
      <4>1. Deadlocked(c)
        BY <1>2, <2>1, <3>2, Causes DEF Victim
      <4> QED
        BY <1>2, <4>1, PlanIsOfAScript, OutsideTheCircles
    <3> QED
      BY <3>1, <3>2
  <2>2. OnlySessionsDeadlock'
    BY <1>2, <2>1, EveryStep DEF OnlySessionsDeadlock
  <2> QED
    BY <1>2, <2>2, GuardsKept, PlanIsOfAScript
<1> QED
  BY <1>1, <1>2, LocksAreKept, PTL DEF Spec

-------------------------------------------------------------------------------
(* The whole of it: requests whose plans have the shapes of the handlers'  *)
(* keep types and locks, what they own and see, what their locks guard and *)
(* what they have read.                                                    *)
LEMMA Everything ==
  IInv <=> /\ Shapes /\ Discipline /\ EveryOwned /\ EverySeen /\ EveryGuard
           /\ Finished(source) /\ EveryViewed /\ EveryInformed /\ EverySnapped
BY DEF IInv, EveryOwned, EverySeen, EveryGuard, EveryNumbered, EverySealed, EverySafe, Guarded,
       Read, EveryViewed, EveryInformed, EverySnapped

(* What every script is made of holds of the requests that run.            *)
LEMMA ShapesOfPlans ==
  ASSUME Shapes, Discipline
  PROVE  /\ Agree(plan) /\ SkipsWhole(plan)
         /\ \A c \in Clients : /\ Whole(plan[c]) /\ Covered(plan[c]) /\ LocksInOrder(plan[c])
                               /\ ReadsOn(plan[c]) /\ InOneSnapshot(plan[c])
BY PlanIsOfAScript DEF Shapes, Shaped

THEOREM Invariant ==
  ASSUME Shapes
  PROVE  Spec => []IInv
<1> DEFINE Inv == /\ EveryOwned /\ NothingHalfDone /\ EverySeen /\ EverythingThere
                  /\ Known /\ EveryGuard
                  /\ Finished(source) /\ EveryViewed /\ EveryInformed /\ EverySnapped
<1>1. ASSUME Init, Discipline PROVE Inv
  <2>1. ASSUME NEW c \in Clients PROVE Seen(c) /\ answer[c] # "ok"
    <3>1. pc[c] = 1
      BY <1>1 DEF Init
    <3>2. Done(c, "insert") = {}
      BY <1>1, <3>1, AtStep DEF Done, Discipline
    <3> QED
      BY <1>1, <3>2 DEF Seen, Init
  <2>2. EverySeen /\ EverythingThere
    BY <2>1 DEF EverySeen, EverythingThere
  <2> QED
    BY <1>1, <2>2, OwnedFirst, GuardedFirst, ReadingFirst, SnappedFirst, ShapesOfPlans
<1>2. ASSUME Discipline, Inv, [Next]_vars PROVE Inv'
  <2>1. EveryOwned' /\ NothingHalfDone' /\ EverySeen' /\ EverythingThere'
    BY <1>2, OwnedKept, HalfDoneKept, SeenKept, ThereKept, ShapesOfPlans DEF EveryOwned
  <2>2. Known' /\ EveryGuard'
    BY <1>2, GuardsKept, ShapesOfPlans
  <2>3. Finished(source)' /\ EveryViewed' /\ EveryInformed' /\ EverySnapped'
    BY <1>2, ReadingKept, SnappedKept, ShapesOfPlans
  <2> QED
    BY <2>1, <2>2, <2>3
<1>3. Discipline /\ Inv => IInv
  BY Everything
<1> HIDE DEF Inv
<1> QED
  BY <1>1, <1>2, <1>3, LocksAreKept, PTL DEF Spec

===============================================================================
