---------------------------- MODULE RequestsProofs ----------------------------
(***************************************************************************)
(* What holds of any number of requests with any plans of the handlers'    *)
(* shapes: types and locks, the life of the configuration a record pins,   *)
(* that nothing is half done, that who is answered ok finds what it asked  *)
(* for, and what readers see of a job that ends between two statements.    *)
(***************************************************************************)
EXTENDS Requests, TLAPS, FiniteSetTheorems, SequenceTheorems

(* The step a request is at.                                               *)
LEMMA AtStep ==
  ASSUME TypeOK, NEW c \in Clients
  PROVE  /\ plan[c] \in Seq([do : Steps, of : Items]) /\ plan[c] \in Plans
         /\ DOMAIN plan[c] = 1..Len(plan[c]) /\ Len(plan[c]) \in Nat
         /\ pc[c] \in Nat /\ pc[c] >= 1 /\ pc[c] <= Len(plan[c])
         /\ plan[c][pc[c]].do \in Steps /\ Item(c) \in Items
         /\ plan[c][pc[c]].do # "commit" => pc[c] + 1 \in DOMAIN plan[c]
<1>1. plan[c] \in Plans
  BY PlanAssumption DEF TypeOK
<1>2. /\ plan[c] \in Seq([do : Steps, of : Items])
      /\ plan[c][Len(plan[c])].do = "commit"
  BY <1>1 DEF Plans
<1>3. DOMAIN plan[c] = 1..Len(plan[c]) /\ Len(plan[c]) \in Nat
  BY <1>2
<1>4. pc[c] \in DOMAIN plan[c]
  BY DEF TypeOK
<1>5. plan[c][pc[c]] \in [do : Steps, of : Items]
  BY <1>2, <1>3, <1>4, ElementOfSeq
<1> QED
  BY <1>1, <1>2, <1>3, <1>4, <1>5 DEF Item

(* Where a request goes on.                                                *)
LEMMA Moves ==
  ASSUME TypeOK, NEW c \in Clients, Busy(c), plan[c][pc[c]].do # "commit",
         Advance(c) \/ Skip(c)
  PROVE  /\ pc' \in [Clients -> Nat]
         /\ pc'[c] \in DOMAIN plan[c]
         /\ \A d \in Clients \ {c} : pc'[d] = pc[d]
<1>1. pc \in [Clients -> Nat]
  BY DEF TypeOK
<1>2. CASE Advance(c)
  BY <1>1, <1>2, AtStep DEF Advance
<1>3. CASE Skip(c)
  <2>1. PICK k \in DOMAIN plan[c] :
          /\ plan[c][k].of = Item(c)
          /\ pc' = [pc EXCEPT ![c] = k + 1]
    BY <1>3 DEF Skip
  <2>2. k \in Nat /\ k >= 1 /\ k <= Len(plan[c])
    BY <2>1, AtStep
  <2>3. k # Len(plan[c])
    <3>1. SUFFICES ASSUME k = Len(plan[c]) PROVE FALSE
      OBVIOUS
    <3>2. plan[c][k].do = "commit"
      BY <3>1, AtStep DEF Plans
    <3>3. plan[c][pc[c]].of = plan[c][k].of
      BY <2>1 DEF Item
    <3>4. plan \in Scripts /\ pc[c] \in DOMAIN plan[c]
      BY DEF TypeOK
    <3> QED
      BY <3>2, <3>3, <3>4, PlanAssumption DEF CommitsApart
  <2> QED
    BY <1>1, <2>1, <2>2, <2>3, AtStep
<1> QED
  BY <1>2, <1>3

-------------------------------------------------------------------------------
(* Types.                                                                  *)
LEMMA Values ==
  ASSUME TypeOK, NEW c \in Clients
  PROVE  /\ tx[c] \in Txs /\ Digest(c) \in [item : Items, config : Chosen]
         /\ New(c) \in Records
         /\ Cardinality(Siblings(c)) \in Nat
         /\ Sees(c) \in Jobs
         /\ Release(tx[c]) \in Txs /\ Release(tx[c]).config = tx[c].config
         /\ Closed(Release(tx[c]))
<1>1. tx[c] \in Txs
  BY DEF TypeOK
<1>2. Pin(c) \in Chosen
  BY <1>1 DEF Pin, Txs, Chosen
<1>3. IsFiniteSet(Visible(c))
  BY FS_Union DEF TypeOK, Visible
<1>4. IsFiniteSet(Siblings(c))
  BY <1>3, FS_Subset DEF Siblings
<1>5. Cardinality(Siblings(c)) \in Nat
  BY <1>4, FS_CardinalityType
<1>6. tx[c].at \in Nat /\ tx[c].view \in SUBSET Jobs
  BY <1>1 DEF Txs
<1>7. Sees(c) \in Jobs
  BY <1>6 DEF Sees, TypeOK
<1>8. Release(tx[c]) \in Txs /\ Release(tx[c]).config = tx[c].config
  BY <1>1 DEF Release, Txs
<1>9. Closed(Release(tx[c]))
  BY <1>1 DEF Release, Closed, Txs
<1> QED
  BY <1>1, <1>2, <1>5, <1>6, <1>7, <1>8, <1>9, AtStep DEF Digest, New, Records

LEMMA EndTyped ==
  ASSUME TypeOK, NEW c \in Clients, NEW a \in Answers, End(c, a)
  PROVE  /\ TypeOK'
         /\ tx'[c] = Release(tx[c]) /\ answer'[c] = a
         /\ \A d \in Clients \ {c} : answer'[d] = answer[d] /\ tx'[d] = tx[d]
<1>1. tx \in [Clients -> Txs] /\ answer \in [Clients -> Answers]
  BY DEF TypeOK
<1>2. Release(tx[c]) \in Txs /\ Closed(Release(tx[c]))
  BY Values
<1>3. tx' = [tx EXCEPT ![c] = Release(tx[c])] /\ answer' = [answer EXCEPT ![c] = a]
  BY DEF End
<1>4. tx' \in [Clients -> Txs] /\ answer' \in [Clients -> Answers]
  BY <1>1, <1>2, <1>3
<1>5. /\ tx'[c] = Release(tx[c]) /\ answer'[c] = a
      /\ \A d \in Clients \ {c} : answer'[d] = answer[d] /\ tx'[d] = tx[d]
  BY <1>1, <1>3
<1>6. \A d \in Clients : IsFiniteSet(tx'[d].pending)
  <2>1. IsFiniteSet(tx'[c].pending)
    BY <1>2, <1>5, FS_EmptySet DEF Closed
  <2> QED
    BY <1>5, <2>1 DEF TypeOK
<1>7. UNCHANGED <<plan, rows, live, source, pc>>
  BY DEF End
<1> QED
  BY <1>4, <1>5, <1>6, <1>7 DEF TypeOK

(* A request goes on, with the transaction t.                              *)
LEMMA ContinueTyped ==
  ASSUME TypeOK, NEW c \in Clients, Busy(c), plan[c][pc[c]].do # "commit",
         Advance(c) \/ Skip(c), UNCHANGED <<plan, rows, live, source, answer>>,
         NEW t \in Txs, IsFiniteSet(t.pending), tx' = [tx EXCEPT ![c] = t]
  PROVE  /\ TypeOK'
         /\ tx'[c] = t
         /\ \A d \in Clients \ {c} : tx'[d] = tx[d] /\ pc'[d] = pc[d]
<1>1. tx \in [Clients -> Txs]
  BY DEF TypeOK
<1>2. /\ tx' \in [Clients -> Txs] /\ tx'[c] = t
      /\ \A d \in Clients \ {c} : tx'[d] = tx[d]
  BY <1>1
<1>3. /\ pc' \in [Clients -> Nat] /\ pc'[c] \in DOMAIN plan[c]
      /\ \A d \in Clients \ {c} : pc'[d] = pc[d]
  BY Moves
<1> QED
  BY <1>2, <1>3 DEF TypeOK

(* The step a request gets to is under the lock of the heartbeat table only*)
(* if the step it comes from is, or reads the configuration under it.      *)
LEMMA LockMoves ==
  ASSUME TypeOK, NEW c \in Clients, Busy(c), plan[c][pc[c]].do # "commit",
         Advance(c) \/ Skip(c), UnderLock(plan[c], pc'[c])
  PROVE  \/ UnderLock(plan[c], pc[c])
         \/ plan[c][pc[c]].do = "live" /\ Item(c).live = "locked"
<1>1. /\ pc[c] \in Nat /\ pc[c] >= 1 /\ pc[c] <= Len(plan[c])
      /\ DOMAIN plan[c] = 1..Len(plan[c]) /\ Len(plan[c]) \in Nat
  BY AtStep
<1>2. PICK j \in 1..(pc'[c] - 1) :
        /\ plan[c][j].do = "live"
        /\ \A i \in j..pc'[c] : /\ plan[c][i].of = plan[c][pc'[c]].of
                                /\ plan[c][i].do # "commit"
  BY DEF UnderLock
<1>3. plan[c][pc'[c]].of.live = "locked"
  BY DEF UnderLock
<1>4. CASE Advance(c)
  <2>1. pc'[c] = pc[c] + 1
    BY <1>4 DEF Advance, TypeOK
  <2>2. pc[c] \in j..pc'[c] /\ j \in Nat /\ j >= 1 /\ j <= pc[c]
    BY <1>1, <1>2, <2>1
  <2>3. plan[c][pc[c]].of = plan[c][pc'[c]].of
    BY <1>2, <2>2
  <2>4. CASE j = pc[c]
    BY <1>2, <1>3, <2>3, <2>4 DEF Item
  <2>5. CASE j # pc[c]
    <3>1. j \in 1..(pc[c] - 1)
      BY <1>1, <2>2, <2>5
    <3>2. \A i \in j..pc[c] : /\ plan[c][i].of = plan[c][pc[c]].of
                              /\ plan[c][i].do # "commit"
      <4>1. \A i \in j..pc[c] : i \in j..pc'[c]
        BY <1>1, <2>1, <2>2
      <4> QED
        BY <1>2, <2>3, <4>1
    <3> QED
      BY <1>2, <1>3, <2>3, <3>1, <3>2 DEF UnderLock
  <2> QED
    BY <2>4, <2>5
<1>5. CASE Skip(c)
  <2>1. PICK k \in DOMAIN plan[c] :
          /\ plan[c][k].of = Item(c)
          /\ \A x \in DOMAIN plan[c] : x > k => plan[c][x].of # Item(c)
          /\ pc' = [pc EXCEPT ![c] = k + 1]
    BY <1>5 DEF Skip
  <2>2. pc'[c] = k + 1 /\ pc'[c] \in DOMAIN plan[c] /\ k \in Nat
    BY <1>1, <2>1, Moves DEF TypeOK
  <2>3. k \in j..pc'[c] /\ k + 1 > k
    BY <1>2, <2>2
  <2>4. plan[c][k].of = plan[c][pc'[c]].of
    BY <1>2, <2>3
  <2> QED
    BY <2>1, <2>2, <2>3, <2>4
<1> QED
  BY <1>4, <1>5

-------------------------------------------------------------------------------
(* The invariant.                                                          *)

(* The transaction t of c agrees with the others about the configuration.  *)
SteadyWith(c, t) ==
  /\ t.shares => live \subseteq {t.config}
  /\ \A d \in Clients \ {c} : t.shares /\ tx[d].shares => t.config = tx[d].config
  /\ \A r \in t.pending : r.item.live = "locked" => t.shares /\ r.config = t.config

(* A request that goes on with the transaction t keeps the discipline of   *)
(* the locks when t does.                                                  *)
LEMMA Continue ==
  ASSUME Discipline, NEW c \in Clients, Busy(c), plan[c][pc[c]].do # "commit",
         Advance(c) \/ Skip(c), UNCHANGED <<plan, rows, live, source, answer>>,
         NEW t \in Txs, IsFiniteSet(t.pending), tx' = [tx EXCEPT ![c] = t],
         \A d \in Clients \ {c} : t.keys \cap tx[d].keys = {} /\ ~(t.holds /\ tx[d].holds),
         SteadyWith(c, t), tx[c].shares => t.shares,
         plan[c][pc[c]].do = "live" /\ Item(c).live = "locked" => t.shares
  PROVE  Discipline'
<1> USE DEF Discipline
<1>1. /\ TypeOK' /\ tx'[c] = t
      /\ \A d \in Clients \ {c} : tx'[d] = tx[d] /\ pc'[d] = pc[d]
  BY ContinueTyped
<1>2. Settled'
  BY <1>1 DEF Settled, Busy
<1>3. Exclusive'
  BY <1>1 DEF Exclusive
<1>4. Steady'
  <2>1. UnderLock(plan[c], pc'[c]) => t.shares
    BY LockMoves DEF Steady
  <2>2. ASSUME NEW d \in Clients
        PROVE  /\ tx'[d].shares => live \subseteq {tx'[d].config}
               /\ \A e \in Clients : tx'[d].shares /\ tx'[e].shares =>
                                      tx'[d].config = tx'[e].config
               /\ Busy(d) /\ UnderLock(plan[d], pc'[d]) => tx'[d].shares
               /\ \A r \in tx'[d].pending :
                    r.item.live = "locked" => tx'[d].shares /\ r.config = tx'[d].config
    <3>1. CASE d = c
      BY <1>1, <2>1, <3>1 DEF SteadyWith
    <3>2. CASE d # c
      BY <1>1, <3>2 DEF Steady, SteadyWith
    <3> QED
      BY <3>1, <3>2
  <2> QED
    BY <2>2 DEF Steady, Busy
<1> QED
  BY <1>1, <1>2, <1>3, <1>4

(* The same when nothing of the transaction but what it has read changes.  *)
LEMMA Reads ==
  ASSUME Discipline, NEW c \in Clients, Busy(c),
         plan[c][pc[c]].do \notin {"commit", "live"},
         Advance(c) \/ Skip(c), UNCHANGED <<plan, rows, live, source, answer>>,
         NEW t \in Txs, tx' = [tx EXCEPT ![c] = t],
         t.config = tx[c].config, t.pending = tx[c].pending, t.keys = tx[c].keys,
         t.holds = tx[c].holds, t.shares = tx[c].shares
  PROVE  Discipline'
<1>1. IsFiniteSet(t.pending)
  BY DEF Discipline, TypeOK
<1>2. \A d \in Clients \ {c} : t.keys \cap tx[d].keys = {} /\ ~(t.holds /\ tx[d].holds)
  BY DEF Discipline, Exclusive
<1>3. SteadyWith(c, t)
  BY DEF Discipline, Steady, SteadyWith
<1> QED
  BY <1>1, <1>2, <1>3, Continue

(* A request that ends leaves its locks to the others.                     *)
LEMMA Ends ==
  ASSUME Discipline, NEW c \in Clients, NEW a \in Answers \ {"none"}, End(c, a)
  PROVE  Discipline'
<1> USE DEF Discipline
<1>1. /\ TypeOK' /\ tx'[c] = Release(tx[c]) /\ answer'[c] = a
      /\ \A d \in Clients \ {c} : answer'[d] = answer[d] /\ tx'[d] = tx[d]
  BY EndTyped
<1>2. Closed(tx'[c]) /\ ~Busy(c)'
  BY <1>1, Values DEF Busy
<1>3. UNCHANGED <<plan, rows, live, source, pc>>
  BY DEF End
<1>4. Settled'
  BY <1>1, <1>2 DEF Settled, Busy
<1>5. Exclusive'
  BY <1>1, <1>2 DEF Exclusive, Closed
<1>6. Steady'
  BY <1>1, <1>2, <1>3 DEF Steady, Closed, Busy
<1> QED
  BY <1>1, <1>4, <1>5, <1>6

LEMMA Locks ==
  ASSUME Discipline, NEW c \in Clients, ReadLive(c) \/ TakeKey(c) \/ Hold(c)
  PROVE  Discipline'
<1> USE DEF Discipline
<1>1. tx[c] \in Txs /\ IsFiniteSet(tx[c].pending) /\ TypeOK
  BY Values DEF TypeOK
<1>2. CASE ReadLive(c)
  <2>1. PICK k \in Usable(Item(c)) :
          tx' = [tx EXCEPT ![c].config = k, ![c].shares = @ \/ TakesShare(Item(c))]
    BY <1>2 DEF ReadLive
  <2> DEFINE t == [tx[c] EXCEPT !.config = k, !.shares = @ \/ TakesShare(Item(c))]
  <2>2. k \in live /\ k \in Configs
    BY <2>1 DEF Usable, TypeOK
  <2>3. t \in Txs /\ t.config = k /\ t.pending = tx[c].pending /\ t.keys = tx[c].keys
        /\ t.holds = tx[c].holds /\ t.shares = (tx[c].shares \/ TakesShare(Item(c)))
    BY <1>1, <2>2 DEF Txs, Chosen, TakesShare
  <2>4. tx' = [tx EXCEPT ![c] = t]
    BY <2>1, <1>1 DEF TypeOK, Txs
  <2>5. TakesShare(Item(c)) => live = {k}
    BY <2>1 DEF Usable, TakesShare
  <2>6. \A d \in Clients : tx[d].shares => live = {k} /\ k = tx[d].config
    BY <2>2 DEF Steady
  <2>7. \A d \in Clients \ {c} : t.keys \cap tx[d].keys = {} /\ ~(t.holds /\ tx[d].holds)
    BY <2>3 DEF Exclusive
  <2>8. \A r \in t.pending : r.item.live = "locked" => t.shares /\ r.config = t.config
    BY <2>3, <2>6 DEF Steady
  <2>9. Busy(c) /\ plan[c][pc[c]].do # "commit" /\ Advance(c)
        /\ UNCHANGED <<plan, rows, live, source, answer>>
    BY <1>2 DEF ReadLive, Doing
  <2>10. plan[c][pc[c]].do = "live" /\ Item(c).live = "locked" => t.shares
    BY <2>3 DEF TakesShare
  <2> HIDE DEF t
  <2>11. IsFiniteSet(t.pending) /\ SteadyWith(c, t) /\ (tx[c].shares => t.shares)
    BY <1>1, <2>3, <2>5, <2>6, <2>8 DEF SteadyWith
  <2> QED
    BY <2>3, <2>4, <2>7, <2>8, <2>9, <2>10, <2>11, Continue
<1>3. CASE TakeKey(c)
  <2> DEFINE t == [tx[c] EXCEPT !.keys = @ \cup {Digest(c)}]
  <2>1. t \in Txs /\ t.config = tx[c].config /\ t.pending = tx[c].pending
        /\ t.keys = tx[c].keys \cup {Digest(c)} /\ t.holds = tx[c].holds
        /\ t.shares = tx[c].shares
    BY <1>1, Values DEF Txs
  <2>2. tx' = [tx EXCEPT ![c] = t]
    BY <1>1, <1>3 DEF TakeKey, TypeOK, Txs
  <2>3. \A d \in Clients \ {c} : Digest(c) \notin tx[d].keys
    BY <1>3 DEF TakeKey, Blockers
  <2>4. \A d \in Clients \ {c} : t.keys \cap tx[d].keys = {} /\ ~(t.holds /\ tx[d].holds)
    BY <2>1, <2>3 DEF Exclusive
  <2>5. /\ Busy(c) /\ plan[c][pc[c]].do = "key" /\ Advance(c)
        /\ UNCHANGED <<plan, rows, live, source, answer>>
    BY <1>3 DEF TakeKey, Doing
  <2> HIDE DEF t
  <2>6. IsFiniteSet(t.pending) /\ SteadyWith(c, t)
    BY <1>1, <2>1 DEF Steady, SteadyWith
  <2> QED
    BY <2>1, <2>2, <2>4, <2>5, <2>6, Continue
<1>4. CASE Hold(c)
  <2> DEFINE t == [tx[c] EXCEPT !.holds = TRUE]
  <2>1. t \in Txs /\ t.config = tx[c].config /\ t.pending = tx[c].pending
        /\ t.keys = tx[c].keys /\ t.holds /\ t.shares = tx[c].shares
    BY <1>1 DEF Txs
  <2>2. tx' = [tx EXCEPT ![c] = t]
    BY <1>1, <1>4 DEF Hold, TypeOK, Txs
  <2>3. \A d \in Clients \ {c} : ~tx[d].holds
    BY <1>4 DEF Hold, Blockers
  <2>4. \A d \in Clients \ {c} : t.keys \cap tx[d].keys = {} /\ ~(t.holds /\ tx[d].holds)
    BY <2>1, <2>3 DEF Exclusive
  <2>5. /\ Busy(c) /\ plan[c][pc[c]].do = "hold" /\ Advance(c)
        /\ UNCHANGED <<plan, rows, live, source, answer>>
    BY <1>4 DEF Hold, Doing
  <2> HIDE DEF t
  <2>6. IsFiniteSet(t.pending) /\ SteadyWith(c, t)
    BY <1>1, <2>1 DEF Steady, SteadyWith
  <2> QED
    BY <2>1, <2>2, <2>4, <2>5, <2>6, Continue
<1> QED
  BY <1>2, <1>3, <1>4

LEMMA Writes ==
  ASSUME Discipline, NEW c \in Clients, Insert(c)
  PROVE  Discipline'
<1> USE DEF Discipline
<1> DEFINE t == [tx[c] EXCEPT !.pending = @ \cup {New(c)}]
<1>1. /\ tx[c] \in Txs /\ IsFiniteSet(tx[c].pending) /\ New(c) \in Records
  BY Values DEF TypeOK
<1>2. t \in Txs /\ t.config = tx[c].config /\ t.pending = tx[c].pending \cup {New(c)}
      /\ t.keys = tx[c].keys /\ t.holds = tx[c].holds /\ t.shares = tx[c].shares
  BY <1>1 DEF Txs
<1>3. tx' = [tx EXCEPT ![c] = t]
  BY <1>1 DEF Insert, TypeOK, Txs
<1>4. /\ Busy(c) /\ plan[c][pc[c]].do = "insert" /\ Advance(c)
      /\ UNCHANGED <<plan, rows, live, source, answer>>
  BY DEF Insert, Doing
<1>5. IsFiniteSet(t.pending)
  <2>1. IsFiniteSet(tx[c].pending \cup {New(c)})
    BY <1>1, FS_AddElement
  <2> QED
    BY <1>2, <2>1
<1>6. New(c).item.live = "locked" => tx[c].shares /\ New(c).config = tx[c].config
  <2>1. SUFFICES ASSUME Item(c).live = "locked"
                 PROVE  tx[c].shares /\ Pin(c) = tx[c].config
    BY DEF New
  <2>2. pc[c] \in DOMAIN plan[c] /\ plan \in Scripts
    BY DEF TypeOK
  <2>3. Item(c).pinned /\ UnderLock(plan[c], pc[c])
    BY <1>4, <2>1, <2>2, PlanAssumption DEF Item, PinsUnderLock
  <2> QED
    BY <1>4, <2>3 DEF Steady, Pin
<1>7. \A d \in Clients \ {c} : t.keys \cap tx[d].keys = {} /\ ~(t.holds /\ tx[d].holds)
  BY <1>2 DEF Exclusive
<1> HIDE DEF t
<1>8. SteadyWith(c, t)
  BY <1>2, <1>6 DEF Steady, SteadyWith
<1> QED
  BY <1>2, <1>3, <1>4, <1>5, <1>7, <1>8, Continue

(* A commit publishes what the transaction has written and lets go of its  *)
(* locks; the next step of the plan, if any, starts another transaction.   *)
LEMMA Commits ==
  ASSUME Discipline, NEW c \in Clients, CommitTx(c)
  PROVE  Discipline'
<1> USE DEF Discipline
<1> DEFINE t == Release(tx[c])
<1>1. t \in Txs /\ Closed(t) /\ tx[c] \in Txs
  BY Values
<1>2. /\ tx' = [tx EXCEPT ![c] = t] /\ rows' = rows \cup tx[c].pending
      /\ UNCHANGED <<plan, live, source>> /\ plan[c][pc[c]].do = "commit" /\ Busy(c)
  BY DEF CommitTx, Doing
<1> HIDE DEF t
<1>3. /\ tx' \in [Clients -> Txs] /\ tx'[c] = t
      /\ \A d \in Clients \ {c} : tx'[d] = tx[d]
  BY <1>1, <1>2 DEF TypeOK
<1>4. /\ pc' \in [Clients -> Nat] /\ answer' \in [Clients -> Answers]
      /\ pc'[c] \in DOMAIN plan[c]
      /\ \A d \in Clients \ {c} : pc'[d] = pc[d] /\ answer'[d] = answer[d]
      /\ pc'[c] = pc[c] \/ pc'[c] = pc[c] + 1
      /\ pc'[c] = pc[c] => answer'[c] = "ok"
  <2>1. /\ DOMAIN plan[c] = 1..Len(plan[c]) /\ Len(plan[c]) \in Nat
        /\ pc[c] \in Nat /\ pc[c] >= 1 /\ pc[c] <= Len(plan[c])
    BY AtStep
  <2>2. pc \in [Clients -> Nat] /\ answer \in [Clients -> Answers]
    BY DEF TypeOK
  <2>3. CASE pc[c] = Len(plan[c])
    BY <2>1, <2>2, <2>3 DEF CommitTx, Answers
  <2>4. CASE pc[c] # Len(plan[c])
    BY <2>1, <2>2, <2>4 DEF CommitTx, Advance
  <2> QED
    BY <2>3, <2>4
<1>5. TypeOK'
  <2>1. rows' \subseteq Records /\ IsFiniteSet(rows')
    <3>1. tx[c].pending \subseteq Records /\ IsFiniteSet(tx[c].pending)
      BY <1>1 DEF Txs, TypeOK
    <3> QED
      BY <1>2, <3>1, FS_Union DEF TypeOK
  <2>2. \A d \in Clients : IsFiniteSet(tx'[d].pending)
    <3>1. IsFiniteSet(t.pending)
      BY <1>1, FS_EmptySet DEF Closed
    <3> QED
      BY <1>3, <3>1 DEF TypeOK
  <2> QED
    BY <1>2, <1>3, <1>4, <2>1, <2>2 DEF TypeOK
<1>6. Settled'
  BY <1>1, <1>3, <1>4 DEF Settled, Busy, Closed
<1>7. Exclusive'
  BY <1>1, <1>3 DEF Exclusive, Closed
<1>8. Busy(c)' => ~UnderLock(plan[c], pc'[c])
  <2>1. SUFFICES ASSUME UnderLock(plan[c], pc'[c]), pc'[c] = pc[c] + 1
                 PROVE  FALSE
    BY <1>4 DEF Busy
  <2>2. PICK j \in 1..pc[c] :
          /\ plan[c][j].do = "live"
          /\ \A i \in j..(pc[c] + 1) : plan[c][i].do # "commit"
    BY <2>1, AtStep DEF UnderLock
  <2>3. pc[c] \in j..(pc[c] + 1)
    BY <2>2, AtStep
  <2> QED
    BY <1>2, <2>2, <2>3
<1>9. Steady'
  <2>1. ASSUME NEW d \in Clients
        PROVE  /\ tx'[d].shares => live \subseteq {tx'[d].config}
               /\ \A e \in Clients : tx'[d].shares /\ tx'[e].shares =>
                                      tx'[d].config = tx'[e].config
               /\ Busy(d)' /\ UnderLock(plan[d], pc'[d]) => tx'[d].shares
               /\ \A r \in tx'[d].pending :
                    r.item.live = "locked" => tx'[d].shares /\ r.config = tx'[d].config
    <3>1. CASE d = c
      BY <1>1, <1>3, <1>8, <3>1 DEF Closed
    <3>2. CASE d # c
      BY <1>1, <1>3, <1>4, <3>2 DEF Steady, Busy, Closed
    <3> QED
      BY <3>1, <3>2
  <2> QED
    BY <1>2, <2>1 DEF Steady
<1> QED
  BY <1>5, <1>6, <1>7, <1>9

LEMMA Looking ==
  ASSUME Discipline, NEW c \in Clients,
         Look(c) \/ LookForChild(c) \/ Require(c) \/ Count(c) \/ TakeSnapshot(c)
           \/ ReadStatus(c) \/ ReadArtifacts(c) \/ ReadJoined(c)
  PROVE  Discipline'
<1> USE DEF Discipline
<1>1. tx[c] \in Txs /\ tx \in [Clients -> Txs] /\ source \in Jobs
      /\ Cardinality(Siblings(c)) \in Nat /\ Sees(c) \in Jobs
  BY Values DEF TypeOK
<1>2. CASE Look(c) \/ LookForChild(c) \/ Require(c)
  <2>1. /\ Busy(c) /\ plan[c][pc[c]].do \notin {"commit", "live"}
        /\ Advance(c) \/ Skip(c)
        /\ UNCHANGED <<plan, rows, live, source, answer>>
    BY <1>2 DEF Look, LookForChild, Require, Wanted, Doing
  <2>2. tx' = [tx EXCEPT ![c] = tx[c]]
    BY <1>1, <1>2 DEF Look, LookForChild, Require
  <2> QED
    BY <1>1, <2>1, <2>2, Reads
<1>3. CASE Count(c)
  <2> DEFINE t == [tx[c] EXCEPT !.at = Cardinality(Siblings(c))]
  <2>1. t \in Txs /\ t.config = tx[c].config /\ t.pending = tx[c].pending
        /\ t.keys = tx[c].keys /\ t.holds = tx[c].holds /\ t.shares = tx[c].shares
    BY <1>1 DEF Txs
  <2>2. tx' = [tx EXCEPT ![c] = t]
    BY <1>1, <1>3 DEF Count
  <2>3. /\ Busy(c) /\ plan[c][pc[c]].do \notin {"commit", "live"} /\ Advance(c)
        /\ UNCHANGED <<plan, rows, live, source, answer>>
    BY <1>3 DEF Count, Doing
  <2> HIDE DEF t
  <2> QED
    BY <2>1, <2>2, <2>3, Reads
<1>4. CASE TakeSnapshot(c)
  <2> DEFINE t == [tx[c] EXCEPT !.view = {source}]
  <2>1. t \in Txs /\ t.config = tx[c].config /\ t.pending = tx[c].pending
        /\ t.keys = tx[c].keys /\ t.holds = tx[c].holds /\ t.shares = tx[c].shares
    BY <1>1 DEF Txs
  <2>2. tx' = [tx EXCEPT ![c] = t]
    BY <1>1, <1>4 DEF TakeSnapshot
  <2>3. /\ Busy(c) /\ plan[c][pc[c]].do \notin {"commit", "live"} /\ Advance(c)
        /\ UNCHANGED <<plan, rows, live, source, answer>>
    BY <1>4 DEF TakeSnapshot, Doing
  <2> HIDE DEF t
  <2> QED
    BY <2>1, <2>2, <2>3, Reads
<1>5. CASE ReadStatus(c)
  <2> DEFINE t == [tx[c] EXCEPT !.status = Sees(c).status]
  <2>1. t \in Txs /\ t.config = tx[c].config /\ t.pending = tx[c].pending
        /\ t.keys = tx[c].keys /\ t.holds = tx[c].holds /\ t.shares = tx[c].shares
    BY <1>1 DEF Txs, Jobs
  <2>2. tx' = [tx EXCEPT ![c] = t]
    BY <1>1, <1>5 DEF ReadStatus
  <2>3. /\ Busy(c) /\ plan[c][pc[c]].do \notin {"commit", "live"} /\ Advance(c)
        /\ UNCHANGED <<plan, rows, live, source, answer>>
    BY <1>5 DEF ReadStatus, Doing
  <2> HIDE DEF t
  <2> QED
    BY <2>1, <2>2, <2>3, Reads
<1>6. CASE ReadArtifacts(c)
  <2> DEFINE t == [tx[c] EXCEPT !.filled = Sees(c).filled]
  <2>1. t \in Txs /\ t.config = tx[c].config /\ t.pending = tx[c].pending
        /\ t.keys = tx[c].keys /\ t.holds = tx[c].holds /\ t.shares = tx[c].shares
    BY <1>1 DEF Txs, Jobs
  <2>2. tx' = [tx EXCEPT ![c] = t]
    BY <1>1, <1>6 DEF ReadArtifacts
  <2>3. /\ Busy(c) /\ plan[c][pc[c]].do \notin {"commit", "live"} /\ Advance(c)
        /\ UNCHANGED <<plan, rows, live, source, answer>>
    BY <1>6 DEF ReadArtifacts, Doing
  <2> HIDE DEF t
  <2> QED
    BY <2>1, <2>2, <2>3, Reads
<1>7. CASE ReadJoined(c)
  <2> DEFINE t == [tx[c] EXCEPT !.status = Sees(c).status, !.filled = Sees(c).filled]
  <2>1. t \in Txs /\ t.config = tx[c].config /\ t.pending = tx[c].pending
        /\ t.keys = tx[c].keys /\ t.holds = tx[c].holds /\ t.shares = tx[c].shares
    BY <1>1 DEF Txs, Jobs
  <2>2. tx' = [tx EXCEPT ![c] = t]
    BY <1>1, <1>7 DEF ReadJoined
  <2>3. /\ Busy(c) /\ plan[c][pc[c]].do \notin {"commit", "live"} /\ Advance(c)
        /\ UNCHANGED <<plan, rows, live, source, answer>>
    BY <1>7 DEF ReadJoined, Doing
  <2> HIDE DEF t
  <2> QED
    BY <2>1, <2>2, <2>3, Reads
<1> QED
  BY <1>2, <1>3, <1>4, <1>5, <1>6, <1>7

LEMMA Fails ==
  ASSUME Discipline, NEW c \in Clients,
         Unavailable(c) \/ OtherChild(c) \/ Reject(c) \/ Exhausted(c) \/ Collide(c)
           \/ Raise(c) \/ Victim(c) \/ Abandon(c)
  PROVE  /\ Discipline' /\ UNCHANGED <<plan, rows, live, source, pc>>
         /\ \E a \in Answers \ {"none", "ok"} : End(c, a)
<1>1. \E a \in Answers \ {"none", "ok"} : End(c, a)
  <2>1. CASE Unavailable(c) \/ OtherChild(c) \/ Reject(c) \/ Exhausted(c)
    BY <2>1 DEF Unavailable, OtherChild, Reject, Exhausted, Answers
  <2>2. CASE Collide(c) \/ Raise(c)
    BY <2>2 DEF Collide, Raise, Answers
  <2>3. CASE Victim(c) \/ Abandon(c)
    BY <2>3 DEF Victim, Abandon, Answers
  <2> QED
    BY <2>1, <2>2, <2>3
<1>2. UNCHANGED <<plan, rows, live, source, pc>>
  BY <1>1 DEF End
<1> QED
  BY <1>1, <1>2, Ends

(* What happens around the requests.                                       *)
LEMMA Around ==
  ASSUME Discipline, Heartbeat \/ GoStale \/ SourceRuns
  PROVE  Discipline'
<1> USE DEF Discipline
<1>1. CASE Heartbeat
  <2>1. /\ live' \subseteq Configs /\ UNCHANGED <<plan, rows, source, pc, answer, tx>>
        /\ \A c \in Clients : ~tx[c].shares
    BY <1>1 DEF Heartbeat
  <2>2. TypeOK'
    BY <2>1 DEF TypeOK
  <2>3. Settled' /\ Exclusive'
    BY <2>1 DEF Settled, Exclusive, Busy
  <2>4. Steady'
    BY <2>1 DEF Steady, Busy
  <2> QED
    BY <2>2, <2>3, <2>4
<1>2. CASE SourceRuns
  <2>1. UNCHANGED <<plan, rows, live, pc, answer, tx>>
    BY <1>2 DEF SourceRuns
  <2>2. source' \in Jobs
    <3>1. source \in Jobs
      BY DEF TypeOK
    <3>2. \/ source' = [source EXCEPT !.status = "running"]
          \/ source' = [status |-> "succeeded", filled |-> TRUE]
          \/ source' = [source EXCEPT !.status = "failed"]
      BY <1>2 DEF SourceRuns
    <3>3. "running" \in Statuses /\ "succeeded" \in Statuses /\ "failed" \in Statuses
      BY DEF Statuses
    <3>4. [source EXCEPT !.status = "running"] \in Jobs
      BY <3>1, <3>3 DEF Jobs
    <3>5. [source EXCEPT !.status = "failed"] \in Jobs
      BY <3>1, <3>3 DEF Jobs
    <3>6. [status |-> "succeeded", filled |-> TRUE] \in Jobs
      BY <3>3 DEF Jobs
    <3> QED
      BY <3>2, <3>4, <3>5, <3>6
  <2>3. TypeOK'
    BY <2>1, <2>2 DEF TypeOK
  <2>4. Settled' /\ Exclusive' /\ Steady'
    BY <2>1 DEF Settled, Exclusive, Steady, Busy
  <2> QED
    BY <2>3, <2>4
<1>3. CASE GoStale
  <2>1. /\ live' \subseteq live /\ UNCHANGED <<plan, rows, source, pc, answer, tx>>
    BY <1>3 DEF GoStale
  <2>2. TypeOK'
    BY <2>1 DEF TypeOK
  <2>3. Settled' /\ Exclusive'
    BY <2>1 DEF Settled, Exclusive, Busy
  <2>4. Steady'
    BY <2>1 DEF Steady, Busy
  <2> QED
    BY <2>2, <2>3, <2>4
<1> QED
  BY <1>1, <1>2, <1>3

LEMMA Start == Init => Discipline
<1>1. SUFFICES ASSUME Init PROVE Discipline
  OBVIOUS
<1>2. NewTx \in Txs /\ Closed(NewTx) /\ NewTx.pending = {}
  BY DEF NewTx, Txs, Closed, Chosen, Jobs
<1>3. \A c \in Clients : tx[c] = NewTx /\ Busy(c) /\ pc[c] = 1
  BY <1>1 DEF Init, Busy
<1>4. TypeOK
  <2>1. \A c \in Clients : 1 \in DOMAIN plan[c]
    <3>1. ASSUME NEW c \in Clients PROVE 1 \in DOMAIN plan[c]
      <4>1. plan[c] \in Seq([do : Steps, of : Items]) /\ plan[c] # <<>>
        BY <1>1, PlanAssumption DEF Init, Plans
      <4> QED
        BY <4>1, EmptySeq
    <3> QED
      BY <3>1
  <2>2. rows \subseteq Records /\ IsFiniteSet(rows) /\ IsFiniteSet(NewTx.pending)
    BY <1>1, <1>2, FS_EmptySet DEF Init
  <2>3. source \in Jobs
    <3>1. PICK s \in Statuses : source = [status |-> s, filled |-> s = "succeeded"]
      BY <1>1 DEF Init
    <3> QED
      BY <3>1 DEF Jobs
  <2>4. tx \in [Clients -> Txs] /\ answer \in [Clients -> Answers]
    BY <1>1, <1>2 DEF Init, Answers
  <2> QED
    BY <1>1, <1>3, <2>1, <2>2, <2>3, <2>4 DEF Init, TypeOK
<1>5. Settled /\ Exclusive
  BY <1>2, <1>3 DEF Settled, Exclusive, Closed
<1>6. Steady
  BY <1>2, <1>3 DEF Steady, Closed, UnderLock
<1> QED
  BY <1>4, <1>5, <1>6 DEF Discipline

LEMMA Keeps == Discipline /\ [Next]_vars => Discipline'
<1>1. SUFFICES ASSUME Discipline, [Next]_vars PROVE Discipline'
  OBVIOUS
<1>2. CASE UNCHANGED vars
  BY <1>1, <1>2 DEF vars, Discipline, TypeOK, Settled, Exclusive, Steady, Busy
<1>3. ASSUME NEW c \in Clients, Serve(c) PROVE Discipline'
  BY <1>1, <1>3, Locks, Writes, Commits, Looking, Fails DEF Serve
<1>4. ASSUME NEW c \in Clients, Abandon(c) PROVE Discipline'
  BY <1>1, <1>4, Fails
<1> QED
  BY <1>1, <1>2, <1>3, <1>4, Around DEF Next

(* Types and the discipline of the locks, in every reachable state: advisory
   locks and the lock of the source row are held by one request at a time,
   an answered request holds none, and under LOCK TABLE no live worker
   reports another configuration than the one the request has read.         *)
THEOREM LocksAreKept == Spec => []Discipline
BY Start, Keeps, PTL DEF Spec

-------------------------------------------------------------------------------
(* What a step does to the tables and to the answers.                      *)
LEMMA OnlyCommitsWrite ==
  ASSUME Discipline, [Next]_vars
  PROVE  /\ plan' = plan
         /\ \/ rows' = rows /\ \A c \in Clients : answer'[c] # answer[c] =>
                                 Busy(c) /\ answer'[c] # "ok"
            \/ \E c \in Clients :
                 /\ CommitTx(c) /\ rows' = rows \cup tx[c].pending
                 /\ \A d \in Clients : answer'[d] # answer[d] => d = c /\ Busy(c)
<1>1. answer \in [Clients -> Answers]
  BY DEF Discipline, TypeOK
<1>2. CASE UNCHANGED <<plan, rows, answer>>
  BY <1>2
<1>3. ASSUME NEW c \in Clients, UNCHANGED <<plan, rows>>, Busy(c),
             \E a \in Answers \ {"none", "ok"} : End(c, a)
      PROVE  /\ plan' = plan /\ rows' = rows
             /\ \A d \in Clients : answer'[d] # answer[d] => Busy(d) /\ answer'[d] # "ok"
  BY <1>1, <1>3 DEF End
<1>4. ASSUME NEW c \in Clients, CommitTx(c)
      PROVE  /\ plan' = plan /\ rows' = rows \cup tx[c].pending
             /\ \A d \in Clients : answer'[d] # answer[d] => d = c /\ Busy(c)
  BY <1>1, <1>4 DEF CommitTx, Doing
<1>5. ASSUME NEW c \in Clients,
             ReadLive(c) \/ TakeKey(c) \/ Hold(c) \/ Look(c) \/ LookForChild(c)
               \/ Require(c) \/ Count(c) \/ Insert(c) \/ TakeSnapshot(c)
               \/ ReadStatus(c) \/ ReadArtifacts(c) \/ ReadJoined(c)
      PROVE  UNCHANGED <<plan, rows, answer>>
  BY <1>5 DEF ReadLive, TakeKey, Hold, Look, LookForChild, Require, Count, Insert,
              TakeSnapshot, ReadStatus, ReadArtifacts, ReadJoined
<1>6. ASSUME NEW c \in Clients,
             Unavailable(c) \/ OtherChild(c) \/ Reject(c) \/ Exhausted(c) \/ Collide(c)
               \/ Raise(c) \/ Victim(c) \/ Abandon(c)
      PROVE  UNCHANGED <<plan, rows>> /\ Busy(c) /\ \E a \in Answers \ {"none", "ok"} : End(c, a)
  <2>1. Busy(c)
    BY <1>6 DEF Unavailable, OtherChild, Reject, Exhausted, Collide, Raise, Victim, Abandon,
                Wanted, Doing
  <2> QED
    BY <1>6, <2>1, Fails
<1>7. CASE Heartbeat \/ GoStale \/ SourceRuns \/ UNCHANGED vars
  BY <1>2, <1>7 DEF Heartbeat, GoStale, SourceRuns, vars
<1>8. ASSUME NEW c \in Clients, Serve(c) \/ Abandon(c)
      PROVE  \/ UNCHANGED <<plan, rows, answer>>
             \/ CommitTx(c)
             \/ UNCHANGED <<plan, rows>> /\ Busy(c) /\ \E a \in Answers \ {"none", "ok"} : End(c, a)
  BY <1>5, <1>6, <1>8 DEF Serve
<1>9. CASE \E c \in Clients : Serve(c) \/ Abandon(c)
  BY <1>2, <1>3, <1>4, <1>8, <1>9
<1> QED
  BY <1>7, <1>9 DEF Next

(* When a record that pins the configuration read under LOCK TABLE is
   committed, no live worker reports another one, whichever workers have
   gone stale since.                                                        *)
THEOREM NoRivalWhenPinned == Spec => NoRivalWhenCommitted
<1> DEFINE A == \A r \in rows' \ rows : r.item.live = "locked" => live \subseteq {r.config}
<1>1. Discipline /\ [Next]_vars => [A]_vars
  BY OnlyCommitsWrite DEF Discipline, Steady
<1> QED
  BY <1>1, LocksAreKept, PTL DEF Spec, NoRivalWhenCommitted

-------------------------------------------------------------------------------

(* A request that goes on, goes forward.                                   *)
LEMMA Forward ==
  ASSUME TypeOK, NEW c \in Clients, Busy(c), plan[c][pc[c]].do # "commit",
         Advance(c) \/ Skip(c)
  PROVE  /\ pc'[c] > pc[c]
         /\ \A d \in Clients \ {c} : pc'[d] = pc[d]
         /\ \/ Advance(c) /\ pc'[c] = pc[c] + 1
            \/ /\ Skip(c)
               /\ \E k \in DOMAIN plan[c] :
                    /\ pc'[c] = k + 1 /\ plan[c][k].of = Item(c)
                    /\ \A j \in DOMAIN plan[c] : j > k => plan[c][j].of # Item(c)
<1>1. pc \in [Clients -> Nat] /\ pc[c] \in DOMAIN plan[c] /\ DOMAIN plan[c] = 1..Len(plan[c])
      /\ Len(plan[c]) \in Nat
  BY AtStep DEF TypeOK
<1>2. \A d \in Clients \ {c} : pc'[d] = pc[d]
  BY Moves
<1>3. CASE Advance(c)
  BY <1>1, <1>2, <1>3 DEF Advance
<1>4. CASE Skip(c)
  <2>1. PICK k \in DOMAIN plan[c] :
          /\ plan[c][k].of = Item(c)
          /\ \A j \in DOMAIN plan[c] : j > k => plan[c][j].of # Item(c)
          /\ pc' = [pc EXCEPT ![c] = k + 1]
    BY <1>4 DEF Skip
  <2>2. pc[c] <= k
    BY <1>1, <2>1 DEF Item
  <2> QED
    BY <1>1, <1>2, <1>4, <2>1, <2>2
<1> QED
  BY <1>3, <1>4

(* Every step of a request: it goes on, commits, or ends.                  *)
Goes(c) ==
  \/ ReadLive(c) \/ TakeKey(c) \/ Hold(c) \/ Look(c) \/ LookForChild(c) \/ Require(c)
  \/ Count(c) \/ Insert(c) \/ TakeSnapshot(c) \/ ReadStatus(c) \/ ReadArtifacts(c)
  \/ ReadJoined(c)
Fault(c) == \E a \in Answers \ {"none", "ok"} : End(c, a)

LEMMA Ways ==
  ASSUME Discipline, NEW c \in Clients, Serve(c) \/ Abandon(c)
  PROVE  Busy(c) /\ (Goes(c) \/ CommitTx(c) \/ Fault(c))
<1>1. CASE Goes(c)
  BY <1>1 DEF Goes, ReadLive, TakeKey, Hold, Look, LookForChild, Require, Count, Insert,
              TakeSnapshot, ReadStatus, ReadArtifacts, ReadJoined, Wanted, Doing
<1>2. CASE Unavailable(c) \/ OtherChild(c) \/ Reject(c) \/ Exhausted(c) \/ Collide(c)
             \/ Raise(c) \/ Victim(c) \/ Abandon(c)
  <2>1. Busy(c)
    BY <1>2 DEF Unavailable, OtherChild, Reject, Exhausted, Collide, Raise, Victim, Abandon,
                Wanted, Doing
  <2> QED
    BY <1>2, <2>1, Fails DEF Fault
<1>3. CASE CommitTx(c)
  BY <1>3 DEF CommitTx, Doing
<1> QED
  BY <1>1, <1>2, <1>3 DEF Serve, Goes

LEMMA Ending ==
  ASSUME Discipline, NEW c \in Clients, Fault(c)
  PROVE  /\ UNCHANGED <<plan, rows, live, source, pc>>
         /\ tx'[c] = Release(tx[c]) /\ answer'[c] \notin {"none", "ok"}
         /\ \A d \in Clients \ {c} : tx'[d] = tx[d] /\ answer'[d] = answer[d]
<1>1. PICK a \in Answers \ {"none", "ok"} : End(c, a)
  BY DEF Fault
<1>2. tx \in [Clients -> Txs] /\ answer \in [Clients -> Answers]
  BY DEF Discipline, TypeOK
<1> QED
  BY <1>1, <1>2 DEF End

LEMMA Committing ==
  ASSUME Discipline, NEW c \in Clients, CommitTx(c)
  PROVE  /\ Busy(c) /\ plan[c][pc[c]].do = "commit"
         /\ UNCHANGED <<plan, live, source>> /\ rows' = rows \cup tx[c].pending
         /\ tx'[c] = Release(tx[c])
         /\ \A d \in Clients \ {c} : tx'[d] = tx[d] /\ pc'[d] = pc[d] /\ answer'[d] = answer[d]
         /\ \/ pc[c] = Len(plan[c]) /\ pc'[c] = pc[c] /\ answer'[c] = "ok"
            \/ pc[c] < Len(plan[c]) /\ pc'[c] = pc[c] + 1 /\ answer'[c] = "none"
<1>1. /\ tx \in [Clients -> Txs] /\ answer \in [Clients -> Answers] /\ pc \in [Clients -> Nat]
      /\ pc[c] <= Len(plan[c]) /\ Len(plan[c]) \in Nat
  BY AtStep DEF Discipline, TypeOK
<1>2. /\ Busy(c) /\ plan[c][pc[c]].do = "commit" /\ UNCHANGED <<plan, live, source>>
      /\ rows' = rows \cup tx[c].pending /\ tx' = [tx EXCEPT ![c] = Release(tx[c])]
  BY DEF CommitTx, Doing
<1>3. CASE pc[c] = Len(plan[c])
  BY <1>1, <1>2, <1>3 DEF CommitTx
<1>4. CASE pc[c] # Len(plan[c])
  BY <1>1, <1>2, <1>4 DEF CommitTx, Advance, Busy
<1> QED
  BY <1>3, <1>4

LEMMA Going ==
  ASSUME Discipline, NEW c \in Clients, Goes(c)
  PROVE  /\ Busy(c) /\ Busy(c)' /\ plan[c][pc[c]].do # "commit"
         /\ UNCHANGED <<plan, rows, live, source, answer>>
         /\ \A d \in Clients \ {c} : tx'[d] = tx[d] /\ pc'[d] = pc[d]
         /\ pc'[c] \in DOMAIN plan[c] /\ pc'[c] > pc[c]
         /\ \/ /\ pc'[c] = pc[c] + 1
               /\ plan[c][pc[c]].do = "look" =>
                    \A r \in Visible(c) : [item |-> r.item, config |-> r.config] # Digest(c)
               /\ plan[c][pc[c]].do = "child" => Siblings(c) = {}
            \/ /\ Finds(plan[c][pc[c]]) /\ \E r \in Visible(c) : r.item = Item(c)
               /\ \E n \in DOMAIN plan[c] :
                    /\ pc'[c] = n + 1 /\ plan[c][n].of = Item(c)
                    /\ \A x \in DOMAIN plan[c] : x > n => plan[c][x].of # Item(c)
<1>1. /\ tx \in [Clients -> Txs] /\ TypeOK
      /\ Busy(c) /\ plan[c][pc[c]].do # "commit" /\ (Advance(c) \/ Skip(c))
      /\ UNCHANGED <<plan, rows, live, source, answer>>
  BY DEF Discipline, TypeOK, Goes, ReadLive, TakeKey, Hold, Look, LookForChild, Require,
         Count, Insert, TakeSnapshot, ReadStatus, ReadArtifacts, ReadJoined, Wanted, Doing
<1>2. \A d \in Clients \ {c} : tx'[d] = tx[d]
  <2>1. CASE ReadLive(c) \/ TakeKey(c) \/ Hold(c) \/ Count(c) \/ Insert(c)
    BY <1>1, <2>1 DEF ReadLive, TakeKey, Hold, Count, Insert
  <2>2. CASE Look(c) \/ LookForChild(c) \/ Require(c)
    BY <1>1, <2>2 DEF Look, LookForChild, Require
  <2>3. CASE TakeSnapshot(c) \/ ReadStatus(c) \/ ReadArtifacts(c) \/ ReadJoined(c)
    BY <1>1, <2>3 DEF TakeSnapshot, ReadStatus, ReadArtifacts, ReadJoined
  <2> QED
    BY <2>1, <2>2, <2>3 DEF Goes
<1>3. /\ pc'[c] \in DOMAIN plan[c] /\ pc'[c] > pc[c]
      /\ \A d \in Clients \ {c} : pc'[d] = pc[d]
      /\ \/ Advance(c) /\ pc'[c] = pc[c] + 1
         \/ Skip(c) /\ \E n \in DOMAIN plan[c] :
                         /\ pc'[c] = n + 1 /\ plan[c][n].of = Item(c)
                         /\ \A x \in DOMAIN plan[c] : x > n => plan[c][x].of # Item(c)
  BY <1>1, Forward, Moves
<1>4. CASE Look(c)
  <2>1. CASE \E r \in Visible(c) : [item |-> r.item, config |-> r.config] = Digest(c)
    <3>1. Skip(c) /\ plan[c][pc[c]].do = "look"
      BY <1>4, <2>1 DEF Look, There, Doing
    <3>2. \E r \in Visible(c) : r.item = Item(c)
      BY <2>1 DEF Digest
    <3>3. \E n \in DOMAIN plan[c] :
            /\ pc'[c] = n + 1 /\ plan[c][n].of = Item(c)
            /\ \A x \in DOMAIN plan[c] : x > n => plan[c][x].of # Item(c)
      BY <1>1, <3>1 DEF Skip, TypeOK
    <3> QED
      BY <1>1, <1>2, <1>3, <3>1, <3>2, <3>3 DEF Finds, Busy
  <2>2. CASE ~\E r \in Visible(c) : [item |-> r.item, config |-> r.config] = Digest(c)
    <3>1. pc'[c] = pc[c] + 1 /\ plan[c][pc[c]].do = "look"
      BY <1>1, <1>4, <2>2 DEF Look, There, Doing, Advance, TypeOK
    <3> QED
      BY <1>1, <1>2, <1>3, <2>2, <3>1 DEF Busy
  <2> QED
    BY <2>1, <2>2
<1>5. CASE LookForChild(c)
  <2>1. CASE Siblings(c) = {} /\ Advance(c)
    <3>1. pc'[c] = pc[c] + 1 /\ plan[c][pc[c]].do = "child"
      BY <1>1, <1>5, <2>1 DEF LookForChild, Doing, Advance, TypeOK
    <3> QED
      BY <1>1, <1>2, <1>3, <2>1, <3>1 DEF Busy
  <2>2. CASE (\E r \in Siblings(c) : r.item = Item(c)) /\ Skip(c)
    <3>1. Skip(c) /\ plan[c][pc[c]].do = "child"
      BY <1>5, <2>2 DEF LookForChild, Doing
    <3>2. \E r \in Visible(c) : r.item = Item(c)
      BY <2>2 DEF Siblings
    <3>3. \E n \in DOMAIN plan[c] :
            /\ pc'[c] = n + 1 /\ plan[c][n].of = Item(c)
            /\ \A x \in DOMAIN plan[c] : x > n => plan[c][x].of # Item(c)
      BY <1>1, <3>1 DEF Skip, TypeOK
    <3> QED
      BY <1>1, <1>2, <1>3, <3>1, <3>2, <3>3 DEF Finds, Busy
  <2> QED
    BY <1>5, <2>1, <2>2 DEF LookForChild
<1>6. CASE ~Look(c) /\ ~LookForChild(c)
  <2>1. Advance(c) /\ plan[c][pc[c]].do \notin {"look", "child"}
    BY <1>6 DEF Goes, ReadLive, TakeKey, Hold, Require, Count, Insert, TakeSnapshot,
                ReadStatus, ReadArtifacts, ReadJoined, Wanted, Doing
  <2>2. pc'[c] = pc[c] + 1
    BY <1>1, <2>1 DEF Advance, TypeOK
  <2> QED
    BY <1>1, <1>2, <1>3, <2>1, <2>2 DEF Busy
<1> QED
  BY <1>4, <1>5, <1>6

(* What each step does to the transaction.                                 *)
LEMMA Changes ==
  ASSUME Discipline, NEW c \in Clients, Goes(c), NEW do, do = plan[c][pc[c]].do
  PROVE  /\ do # "live" => tx'[c].config = tx[c].config
         /\ do \notin {"count", "spend"} => tx'[c].at = tx[c].at
         /\ do \in {"count", "spend"} => tx'[c].at = Cardinality(Siblings(c))
         /\ do # "snapshot" => tx'[c].view = tx[c].view
         /\ do = "snapshot" => tx'[c].view = {source}
         /\ do \notin {"status", "joined"} => tx'[c].status = tx[c].status
         /\ do \in {"status", "joined"} => tx'[c].status = Sees(c).status
         /\ do \notin {"artifacts", "joined"} => tx'[c].filled = tx[c].filled
         /\ do \in {"artifacts", "joined"} => tx'[c].filled = Sees(c).filled
         /\ do # "insert" => tx'[c].pending = tx[c].pending
         /\ do = "insert" => tx'[c].pending = tx[c].pending \cup {New(c)}
         /\ do # "key" => tx'[c].keys = tx[c].keys
         /\ do = "key" => tx'[c].keys = tx[c].keys \cup {Digest(c)}
         /\ do # "hold" => tx'[c].holds = tx[c].holds
         /\ do = "hold" => tx'[c].holds
         /\ do = "insert" => \A q \in Visible(c) : ~Clash(q, New(c))
<1>1. tx \in [Clients -> Txs] /\ tx[c] \in Txs
  BY DEF Discipline, TypeOK
<1>2. CASE ReadLive(c)
  BY <1>1, <1>2 DEF ReadLive, Doing, Txs
<1>3. CASE TakeKey(c)
  BY <1>1, <1>3 DEF TakeKey, Doing, Txs
<1>4. CASE Hold(c)
  BY <1>1, <1>4 DEF Hold, Doing, Txs
<1>5. CASE Look(c) \/ LookForChild(c) \/ Require(c)
  BY <1>1, <1>5 DEF Look, LookForChild, Require, Wanted, Doing
<1>6. CASE Count(c)
  BY <1>1, <1>6 DEF Count, Doing, Txs
<1>7. CASE Insert(c)
  BY <1>1, <1>7 DEF Insert, Doing, Txs
<1>8. CASE TakeSnapshot(c)
  BY <1>1, <1>8 DEF TakeSnapshot, Doing, Txs
<1>9. CASE ReadStatus(c)
  BY <1>1, <1>9 DEF ReadStatus, Doing, Txs
<1>10. CASE ReadArtifacts(c)
  BY <1>1, <1>10 DEF ReadArtifacts, Doing, Txs
<1>11. CASE ReadJoined(c)
  BY <1>1, <1>11 DEF ReadJoined, Doing, Txs
<1> QED
  BY <1>2, <1>3, <1>4, <1>5, <1>6, <1>7, <1>8, <1>9, <1>10, <1>11 DEF Goes

LEMMA EveryStep ==
  ASSUME Discipline, [Next]_vars
  PROVE  /\ plan' = plan
         /\ \/ UNCHANGED <<rows, pc, answer, tx>> /\ (source' = source \/ SourceRuns)
            \/ source' = source /\ \E c \in Clients : Goes(c) \/ CommitTx(c) \/ Fault(c)
<1>1. CASE UNCHANGED vars \/ Heartbeat \/ GoStale \/ SourceRuns
  BY <1>1 DEF vars, Heartbeat, GoStale, SourceRuns
<1>2. ASSUME NEW c \in Clients, Serve(c) \/ Abandon(c)
      PROVE  plan' = plan /\ source' = source /\ (Goes(c) \/ CommitTx(c) \/ Fault(c))
  BY <1>2, Ways, Going, Committing, Ending
<1> QED
  BY <1>1, <1>2 DEF Next

-------------------------------------------------------------------------------
(* What transactions have written they were asked to write, earlier.       *)
LEMMA DoneGrows ==
  ASSUME Discipline, NEW c \in Clients, Goes(c) \/ CommitTx(c), NEW do
  PROVE  /\ Done(c, do) \subseteq Done(c, do)'
         /\ Goes(c) /\ plan[c][pc[c]].do = do => Item(c) \in Done(c, do)'
<1>1. TypeOK /\ pc[c] \in DOMAIN plan[c] /\ DOMAIN plan[c] = 1..Len(plan[c]) /\ Len(plan[c]) \in Nat
  BY AtStep DEF Discipline, TypeOK
<1>2. plan' = plan /\ pc'[c] >= pc[c] /\ pc'[c] \in Nat /\ (Goes(c) => pc'[c] > pc[c])
  BY <1>1, Going, Committing
<1> QED
  BY <1>1, <1>2 DEF Done, Item

LEMMA OwnedKept ==
  ASSUME Discipline, \A c \in Clients : Owned(c), [Next]_vars
  PROVE  \A c \in Clients : Owned(c)'
<1> SUFFICES ASSUME NEW c \in Clients PROVE Owned(c)'
  OBVIOUS
<1>1. plan' = plan
  BY EveryStep
<1>2. CASE tx'[c] = tx[c] /\ pc'[c] = pc[c]
  BY <1>1, <1>2 DEF Owned, Done
<1>3. CASE tx'[c] = Release(tx[c])
  BY <1>3, Values DEF Owned, Closed, Discipline
<1>4. CASE Goes(c)
  <2>1. \A do : Done(c, do) \subseteq Done(c, do)' /\
                (plan[c][pc[c]].do = do => Item(c) \in Done(c, do)')
    BY <1>4, DoneGrows
  <2>2. \A r \in tx'[c].pending : r.item \in Done(c, "insert")'
    <3>1. CASE plan[c][pc[c]].do = "insert"
      <4>1. tx'[c].pending = tx[c].pending \cup {New(c)} /\ New(c).item = Item(c)
        BY <1>4, <3>1, Changes DEF New
      <4> QED
        BY <2>1, <3>1, <4>1 DEF Owned
    <3>2. CASE plan[c][pc[c]].do # "insert"
      BY <1>4, <2>1, <3>2, Changes DEF Owned
    <3> QED
      BY <3>1, <3>2
  <2>3. \A l \in tx'[c].keys : l.item \in Done(c, "key")'
    <3>1. CASE plan[c][pc[c]].do = "key"
      BY <1>4, <2>1, <3>1, Changes DEF Owned, Digest
    <3>2. CASE plan[c][pc[c]].do # "key"
      BY <1>4, <2>1, <3>2, Changes DEF Owned
    <3> QED
      BY <3>1, <3>2
  <2>4. tx'[c].holds => Done(c, "hold")' # {}
    <3>1. CASE plan[c][pc[c]].do = "hold"
      BY <2>1, <3>1
    <3>2. CASE plan[c][pc[c]].do # "hold"
      BY <1>4, <2>1, <3>2, Changes DEF Owned
    <3> QED
      BY <3>1, <3>2
  <2> QED
    BY <2>2, <2>3, <2>4 DEF Owned
<1>5. ASSUME NEW d \in Clients, Goes(d) \/ CommitTx(d) \/ Fault(d), d # c
      PROVE  tx'[c] = tx[c] /\ pc'[c] = pc[c]
  BY <1>5, Going, Committing, Ending
<1> QED
  BY <1>2, <1>3, <1>4, <1>5, EveryStep, Committing, Ending

EveryOwned == \A c \in Clients : Owned(c)

LEMMA HalfDoneKept ==
  ASSUME Discipline, EveryOwned, NothingHalfDone, \A c \in Clients : Whole(plan[c]), [Next]_vars
  PROVE  NothingHalfDone'
<1>1. plan' = plan /\ \A c \in Clients : Asked(c)' = Asked(c)
  BY EveryStep DEF Asked
<1>2. ASSUME NEW r \in rows
      PROVE  \E c \in Clients : answer'[c] = "ok" /\ r.item \in Asked(c)
  <2>1. PICK c \in Clients : answer[c] = "ok" /\ r.item \in Asked(c)
    BY <1>2 DEF NothingHalfDone
  <2>2. answer'[c] = answer[c]
    BY <2>1, OnlyCommitsWrite DEF Busy
  <2> QED
    BY <2>1, <2>2
<1>3. ASSUME NEW r \in rows' \ rows
      PROVE  \E c \in Clients : answer'[c] = "ok" /\ r.item \in Asked(c)
  <2>1. PICK c \in Clients : CommitTx(c) /\ r \in tx[c].pending
    BY <1>3, OnlyCommitsWrite
  <2>2. PICK j \in DOMAIN plan[c] : j < pc[c] /\ plan[c][j].do = "insert"
                                              /\ plan[c][j].of = r.item
    BY <2>1 DEF EveryOwned, Owned, Done
  <2>3. pc[c] \in DOMAIN plan[c] /\ plan[c][pc[c]].do = "commit"
    BY <2>1, Committing DEF Discipline, TypeOK
  <2>4. pc[c] = Len(plan[c])
    BY <2>2, <2>3 DEF Whole
  <2>5. answer'[c] = "ok"
    BY <2>1, <2>4, Committing
  <2> QED
    BY <2>2, <2>5 DEF Asked, Inserts
<1> QED
  BY <1>1, <1>2, <1>3 DEF NothingHalfDone

LEMMA OwnedFirst == Init => EveryOwned /\ NothingHalfDone
BY DEF Init, EveryOwned, Owned, NothingHalfDone, NewTx

LEMMA PlanIsOfAScript ==
  ASSUME Discipline
  PROVE  plan \in Scripts /\ DOMAIN plan = Clients
BY PlanAssumption DEF Discipline, TypeOK

(* Nothing is in the tables that no request answered ok has asked for,
   whatever fails at whatever step, as long as no plan commits before its
   last insert.                                                             *)
THEOREM NothingIsHalfDone ==
  ASSUME \A s \in Scripts : \A c \in Clients : Whole(s[c])
  PROVE  Spec => []NothingHalfDone
<1>1. Discipline /\ EveryOwned /\ NothingHalfDone /\ [Next]_vars
        => EveryOwned' /\ NothingHalfDone'
  BY OwnedKept, HalfDoneKept, PlanIsOfAScript DEF EveryOwned
<1> QED
  BY <1>1, OwnedFirst, LocksAreKept, PTL DEF Spec

-------------------------------------------------------------------------------
(* A request sees whatever it had to insert by now.                        *)
EverySeen == \A c \in Clients : Seen(c)

(* What a step of another request commits is added to what is seen.        *)
LEMMA VisibleGrows ==
  ASSUME Discipline, [Next]_vars, NEW c \in Clients
  PROVE  /\ rows \subseteq rows'
         /\ Goes(c) \/ CommitTx(c) \/ tx'[c] = tx[c] => Visible(c) \subseteq Visible(c)'
<1>1. rows \subseteq rows'
  BY OnlyCommitsWrite
<1>2. CASE Goes(c)
  <2>1. tx[c].pending \subseteq tx'[c].pending
    BY <1>2, Changes
  <2> QED
    BY <1>1, <2>1 DEF Visible
<1>3. CASE CommitTx(c)
  BY <1>1, <1>3, Committing DEF Visible
<1> QED
  BY <1>1, <1>2, <1>3 DEF Visible

LEMMA SeenKept ==
  ASSUME Discipline, EveryOwned, EverySeen, NothingHalfDone, EverythingThere,
         SkipsWhole(plan), [Next]_vars
  PROVE  EverySeen'
<1> SUFFICES ASSUME NEW c \in Clients, Busy(c)', NEW i \in Done(c, "insert")'
             PROVE  \E r \in Visible(c)' : r.item = i
  BY DEF EverySeen, Seen
<1>1. plan' = plan /\ DOMAIN plan = Clients
  BY EveryStep, PlanIsOfAScript
<1>2. PICK k \in DOMAIN plan[c] : k < pc'[c] /\ plan[c][k].do = "insert" /\ plan[c][k].of = i
  BY <1>1 DEF Done
<1>3. /\ DOMAIN plan[c] = 1..Len(plan[c]) /\ Len(plan[c]) \in Nat
      /\ pc[c] \in DOMAIN plan[c] /\ pc[c] \in Nat /\ k \in Nat
  BY AtStep DEF Discipline, TypeOK
<1>4. ASSUME Busy(c), k < pc[c], Goes(c) \/ CommitTx(c) \/ tx'[c] = tx[c]
      PROVE  \E r \in Visible(c)' : r.item = i
  <2>1. \E r \in Visible(c) : r.item = i
    BY <1>2, <1>4 DEF EverySeen, Seen, Done
  <2> QED
    BY <1>4, <2>1, VisibleGrows
<1>5. CASE Goes(c)
  <2>1. CASE k < pc[c]
    BY <1>4, <1>5, <2>1, Going
  <2>2. CASE k >= pc[c] /\ pc'[c] = pc[c] + 1
    <3>1. k = pc[c] /\ plan[c][pc[c]].do = "insert" /\ New(c).item = i
      BY <1>2, <1>3, <2>2 DEF New, Item
    <3>2. New(c) \in Visible(c)'
      BY <1>5, <3>1, Changes DEF Visible
    <3> QED
      BY <3>1, <3>2
  <2>3. CASE k >= pc[c] /\ pc'[c] # pc[c] + 1
    <3>1. /\ Finds(plan[c][pc[c]]) /\ rows' = rows
          /\ \E n \in DOMAIN plan[c] : pc'[c] = n + 1 /\ plan[c][n].of = Item(c)
      BY <1>5, <2>3, Going
    <3>2. PICK r \in Visible(c) : r.item = Item(c)
      BY <1>5, <2>3, Going
    <3>3. Visible(c) \subseteq Visible(c)'
      BY <1>5, VisibleGrows
    <3>4. CASE i = Item(c)
      BY <3>2, <3>3, <3>4
    <3>5. CASE i # Item(c)
      <4>1. PICK n \in DOMAIN plan[c] : pc'[c] = n + 1 /\ plan[c][n].of = Item(c)
        BY <3>1
      <4>2. k # pc[c] /\ k # n /\ k < n /\ n \in Nat
        BY <1>2, <1>3, <3>5, <4>1 DEF Item
      <4>3. Jumped(plan[c], pc[c], k)
        <5>1. pc[c] < k /\ plan[c][pc[c]].of = Item(c)
          BY <1>3, <2>3, <4>2 DEF Item
        <5>2. n > k
          BY <1>3, <4>2
        <5> QED
          BY <1>2, <3>1, <3>5, <4>1, <5>1, <5>2 DEF Jumped
      <4>4. CASE r \in tx[c].pending
        <5>1. PICK j \in DOMAIN plan[c] : /\ j < pc[c] /\ plan[c][j].do = "insert"
                                          /\ plan[c][j].of = Item(c)
          BY <3>2, <4>4 DEF EveryOwned, Owned, Done
        <5>2. j > pc[c]
          BY <1>1, <1>2, <1>3, <4>3, <5>1 DEF SkipsWhole, Item
        <5> QED
          BY <1>3, <5>1, <5>2
      <4>5. CASE r \in rows
        <5>1. PICK d \in Clients : answer[d] = "ok" /\ Item(c) \in Inserts(plan[d])
          BY <3>2, <4>5 DEF NothingHalfDone, Asked
        <5>2. i \in Inserts(plan[d])
          BY <1>1, <1>2, <1>3, <4>3, <5>1 DEF SkipsWhole, Item
        <5>3. \E q \in rows : q.item = i
          BY <5>1, <5>2 DEF EverythingThere, Asked
        <5> QED
          BY <3>1, <5>3 DEF Visible
      <4> QED
        BY <3>2, <4>4, <4>5 DEF Visible
    <3> QED
      BY <3>4, <3>5
  <2> QED
    BY <1>3, <2>1, <2>2, <2>3
<1>6. CASE CommitTx(c)
  <2>1. Busy(c) /\ plan[c][pc[c]].do = "commit" /\ pc'[c] <= pc[c] + 1
    BY <1>3, <1>6, Committing
  <2>2. k < pc[c]
    BY <1>2, <1>3, <2>1, Committing, <1>6
  <2> QED
    BY <1>4, <1>6, <2>1, <2>2
<1>7. CASE tx'[c] = tx[c] /\ pc'[c] = pc[c] /\ answer'[c] = answer[c]
  BY <1>2, <1>4, <1>7 DEF Busy
<1>8. CASE Fault(c)
  BY <1>8, Ending DEF Busy
<1>9. ASSUME NEW d \in Clients, Goes(d) \/ CommitTx(d) \/ Fault(d), d # c
      PROVE  tx'[c] = tx[c] /\ pc'[c] = pc[c] /\ answer'[c] = answer[c]
  BY <1>9, Going, Committing, Ending
<1> QED
  BY <1>5, <1>6, <1>7, <1>8, <1>9, EveryStep

LEMMA ThereKept ==
  ASSUME Discipline, EverySeen, EverythingThere, [Next]_vars
  PROVE  EverythingThere'
<1> SUFFICES ASSUME NEW c \in Clients, answer'[c] = "ok", NEW i \in Asked(c)'
             PROVE  \E r \in rows' : r.item = i
  BY DEF EverythingThere
<1>1. plan' = plan /\ rows \subseteq rows'
  BY EveryStep, VisibleGrows
<1>2. i \in Asked(c)
  BY <1>1 DEF Asked
<1>3. CASE answer[c] = "ok"
  BY <1>1, <1>2, <1>3 DEF EverythingThere
<1>4. CASE CommitTx(c)
  <2>1. /\ DOMAIN plan[c] = 1..Len(plan[c]) /\ Len(plan[c]) \in Nat /\ Busy(c)
        /\ pc[c] = Len(plan[c]) /\ plan[c][Len(plan[c])].do = "commit"
    BY <1>4, AtStep, Committing DEF Discipline
  <2>2. i \in Done(c, "insert")
    BY <1>2, <2>1 DEF Asked, Inserts, Done
  <2>3. rows' = Visible(c)
    BY <1>4, Committing DEF Visible
  <2> QED
    BY <2>1, <2>2, <2>3 DEF EverySeen, Seen
<1>5. CASE answer'[c] = answer[c]
  BY <1>3, <1>5
<1>6. CASE Fault(c)
  BY <1>6, Ending
<1>7. CASE Goes(c)
  BY <1>3, <1>7, Going
<1>8. ASSUME NEW d \in Clients, Goes(d) \/ CommitTx(d) \/ Fault(d), d # c
      PROVE  answer'[c] = answer[c]
  BY <1>8, Going, Committing, Ending
<1> QED
  BY <1>4, <1>5, <1>6, <1>7, <1>8, EveryStep

(* A request that is answered ok finds everything it asked for, made by
   itself or by others, and whichever part was there before, if no plan
   commits before its last insert, and what a request passes over with the
   thing it finds was made together with that thing.                        *)
THEOREM EverythingIsThere ==
  ASSUME \A s \in Scripts : SkipsWhole(s) /\ \A c \in Clients : Whole(s[c])
  PROVE  Spec => []EverythingThere
<1>1. Init => EverySeen /\ EverythingThere
  <2>1. SUFFICES ASSUME Init, NEW c \in Clients PROVE Seen(c) /\ answer[c] # "ok"
    BY DEF EverySeen, EverythingThere
  <2>2. Discipline /\ pc[c] = 1
    BY <2>1, Start DEF Init
  <2>3. Done(c, "insert") = {}
    BY <2>2, AtStep DEF Done, Discipline
  <2> QED
    BY <2>1, <2>3 DEF Seen, Init
<1>2. /\ Discipline /\ EveryOwned /\ NothingHalfDone /\ EverySeen /\ EverythingThere
      /\ [Next]_vars
      => EveryOwned' /\ NothingHalfDone' /\ EverySeen' /\ EverythingThere'
  BY OwnedKept, HalfDoneKept, SeenKept, ThereKept, PlanIsOfAScript DEF EveryOwned
<1> QED
  BY <1>1, <1>2, OwnedFirst, LocksAreKept, PTL DEF Spec

-------------------------------------------------------------------------------
(* What becomes of a request, and by which action.                         *)
LEMMA Causes ==
  ASSUME Discipline, [Next]_vars, NEW c \in Clients, answer'[c] # answer[c]
  PROVE  /\ answer'[c] = "raised" => Raise(c)
         /\ answer'[c] = "integrity_error" => Collide(c)
         /\ answer'[c] = "deadlock" => Victim(c)
         /\ answer'[c] \notin {"none", "ok"} => pc'[c] = pc[c]
<1>1. answer \in [Clients -> Answers]
  BY DEF Discipline, TypeOK
<1>2. Serve(c) \/ Abandon(c)
  <2>1. answer' # answer
    OBVIOUS
  <2>2. ASSUME NEW d \in Clients, Serve(d) \/ Abandon(d), d # c PROVE answer'[c] = answer[c]
    BY <2>2, Ways, Going, Committing, Ending
  <2> QED
    BY <2>1, <2>2 DEF Next, vars, Heartbeat, GoStale, SourceRuns
<1>3. ~Goes(c)
  BY Going
<1>4. CASE CommitTx(c)
  BY <1>4, Committing
<1>5. CASE Unavailable(c) \/ OtherChild(c) \/ Reject(c) \/ Exhausted(c)
  BY <1>1, <1>5 DEF Unavailable, OtherChild, Reject, Exhausted, End
<1>6. CASE Collide(c) \/ Raise(c)
  BY <1>1, <1>6 DEF Collide, Raise, End
<1>7. CASE Victim(c) \/ Abandon(c)
  BY <1>1, <1>7 DEF Victim, Abandon, End
<1> QED
  BY <1>2, <1>3, <1>4, <1>5, <1>6, <1>7 DEF Serve, Goes

(* A step comes from the one before it if both are about one item.         *)
LEMMA FromBefore ==
  ASSUME Discipline, NEW c \in Clients, Goes(c), pc'[c] - 1 \in DOMAIN plan[c],
         plan[c][pc'[c] - 1].of = plan[c][pc'[c]].of
  PROVE  pc[c] = pc'[c] - 1
<1>1. /\ DOMAIN plan[c] = 1..Len(plan[c]) /\ Len(plan[c]) \in Nat /\ pc[c] \in Nat
      /\ pc'[c] \in DOMAIN plan[c]
  BY AtStep, Going DEF Discipline
<1>2. ASSUME NEW n \in DOMAIN plan[c], pc'[c] = n + 1, plan[c][n].of = Item(c),
             \A x \in DOMAIN plan[c] : x > n => plan[c][x].of # Item(c)
      PROVE  FALSE
  <2>1. n = pc'[c] - 1 /\ pc'[c] > n
    BY <1>1, <1>2
  <2> QED
    BY <1>1, <1>2, <2>1
<1> QED
  BY <1>1, <1>2, Going

-------------------------------------------------------------------------------
(* Readers.                                                                *)
EveryViewed   == \A c \in Clients : Viewed(c)
EveryInformed == \A c \in Clients : Informed(c)
EverySnapped  == \A c \in Clients : Snapped(c)

LEMMA SourceKept ==
  ASSUME Discipline, Finished(source), [Next]_vars
  PROVE  Finished(source)' /\ (source.filled => source' = source)
<1>1. source \in Jobs
  BY DEF Discipline, TypeOK
<1>2. CASE SourceRuns
  <2>1. source.status \in {"queued", "running"} /\ ~source.filled
    BY <1>2 DEF SourceRuns, Finished
  <2>2. \/ source' = [source EXCEPT !.status = "running"]
        \/ source' = [status |-> "succeeded", filled |-> TRUE]
        \/ source' = [source EXCEPT !.status = "failed"]
    BY <1>2 DEF SourceRuns
  <2>3. CASE source' = [source EXCEPT !.status = "running"]
    BY <1>1, <2>1, <2>3 DEF Finished, Jobs
  <2>4. CASE source' = [status |-> "succeeded", filled |-> TRUE]
    BY <2>1, <2>4 DEF Finished
  <2>5. CASE source' = [source EXCEPT !.status = "failed"]
    BY <1>1, <2>1, <2>5 DEF Finished, Jobs
  <2> QED
    BY <2>2, <2>3, <2>4, <2>5
<1>3. CASE source' = source
  BY <1>3 DEF Finished
<1> QED
  BY <1>2, <1>3, EveryStep

LEMMA WhatItSees ==
  ASSUME Finished(source), NEW c \in Clients, Viewed(c)
  PROVE  Finished(Sees(c)) /\ (Sees(c).filled => source.filled)
<1>1. CASE tx[c].view = {}
  BY <1>1 DEF Sees
<1>2. CASE tx[c].view # {}
  <2>1. PICK v : tx[c].view = {v} /\ Finished(v) /\ (v.filled => source.filled)
    BY <1>2 DEF Viewed
  <2>2. Sees(c) = v
    BY <2>1 DEF Sees
  <2> QED
    BY <2>1, <2>2
<1> QED
  BY <1>1, <1>2

(* What a transaction keeps of its snapshot.                               *)
LEMMA Released ==
  ASSUME Discipline, NEW c \in Clients
  PROVE  /\ Release(tx[c]).view = {} /\ Release(tx[c]).pending = {} /\ Release(tx[c]).keys = {}
         /\ Release(tx[c]).status = tx[c].status /\ Release(tx[c]).filled = tx[c].filled
         /\ ~Release(tx[c]).holds
BY DEF Discipline, TypeOK, Txs, Release

LEMMA ViewedKept ==
  ASSUME Discipline, Finished(source), EveryViewed, [Next]_vars
  PROVE  EveryViewed'
<1> SUFFICES ASSUME NEW c \in Clients PROVE Viewed(c)'
  BY DEF EveryViewed
<1>1. source.filled => source'.filled
  BY SourceKept
<1>2. CASE tx'[c].view = tx[c].view
  BY <1>1, <1>2 DEF EveryViewed, Viewed, Finished
<1>3. CASE tx'[c].view = {}
  BY <1>3 DEF Viewed
<1>4. CASE tx'[c].view = {source} /\ source' = source
  BY <1>4 DEF Viewed, Finished
<1>5. CASE Goes(c)
  BY <1>2, <1>4, <1>5, Changes, Going
<1>6. CASE CommitTx(c) \/ Fault(c)
  BY <1>3, <1>6, Committing, Ending, Released
<1>7. ASSUME NEW d \in Clients, Goes(d) \/ CommitTx(d) \/ Fault(d), d # c
      PROVE  tx'[c] = tx[c]
  BY <1>7, Going, Committing, Ending
<1> QED
  BY <1>2, <1>5, <1>6, <1>7, EveryStep

LEMMA InformedKept ==
  ASSUME Discipline, Finished(source), EveryViewed, EveryInformed,
         \A c \in Clients : ReadsOn(plan[c]), [Next]_vars
  PROVE  EveryInformed'
<1> SUFFICES ASSUME NEW c \in Clients, tx'[c].status = "succeeded"
             PROVE  /\ source'.filled /\ Sees(c)'.filled
                    /\ answer'[c] \in {"none", "ok"} =>
                         \/ tx'[c].filled
                         \/ Busy(c)' /\ Due(plan[c], pc'[c])
  BY EveryStep DEF EveryInformed, Informed
<1>1. source.filled => source' = source
  BY SourceKept
<1>2. /\ DOMAIN plan[c] = 1..Len(plan[c]) /\ Len(plan[c]) \in Nat /\ pc[c] \in Nat
      /\ pc[c] \in DOMAIN plan[c]
  BY AtStep DEF Discipline, TypeOK
<1>3. Finished(Sees(c)) /\ (Sees(c).filled => source.filled)
  BY WhatItSees DEF EveryViewed
<1>4. ASSUME tx[c].status = "succeeded"
      PROVE  /\ source.filled /\ source' = source /\ source'.filled /\ Sees(c).filled
             /\ answer[c] \in {"none", "ok"} => tx[c].filled \/ (Busy(c) /\ Due(plan[c], pc[c]))
  BY <1>1, <1>4 DEF EveryInformed, Informed
<1>5. ASSUME source.filled, source' = source, Sees(c).filled,
             tx'[c].view = tx[c].view \/ tx'[c].view = {} \/ tx'[c].view = {source}
      PROVE  Sees(c)'.filled
  BY <1>5 DEF Sees
<1>6. ASSUME Due(plan[c], pc[c]), ~Finds(plan[c][pc[c]]), plan[c][pc[c]].do # "artifacts"
      PROVE  Due(plan[c], pc[c] + 1) /\ pc[c] < Len(plan[c])
  <2>1. PICK n \in DOMAIN plan[c] : /\ pc[c] <= n /\ plan[c][n].do = "artifacts"
                                    /\ \A x \in DOMAIN plan[c] :
                                         pc[c] <= x /\ x <= n => ~Finds(plan[c][x])
    BY <1>6 DEF Due
  <2>2. pc[c] + 1 <= n
    BY <1>2, <1>6, <2>1
  <2>3. \A x \in DOMAIN plan[c] : pc[c] + 1 <= x => pc[c] <= x
    BY <1>2
  <2> QED
    BY <1>2, <2>1, <2>2, <2>3 DEF Due
<1>7. CASE Goes(c)
  <2> DEFINE do == plan[c][pc[c]].do
  <2>1. /\ source' = source /\ Busy(c) /\ Busy(c)'
        /\ ~Finds(plan[c][pc[c]]) => pc'[c] = pc[c] + 1
        /\ tx'[c].view = tx[c].view \/ tx'[c].view = {source}
    BY <1>7, Going, Changes
  <2>2. CASE do \in {"status", "joined"}
    <3>1. Sees(c).status = "succeeded" /\ tx'[c].view = tx[c].view
      BY <1>7, <2>2, Changes
    <3>2. Sees(c).filled /\ source.filled
      BY <1>3, <3>1 DEF Finished
    <3>3. source'.filled /\ Sees(c)'.filled
      BY <1>1, <1>5, <3>1, <3>2
    <3>4. CASE do = "joined"
      BY <1>7, <3>2, <3>3, <3>4, Changes
    <3>5. CASE do = "status"
      <4>1. Due(plan[c], pc[c] + 1)
        BY <1>2, <3>5 DEF ReadsOn
      <4>2. pc'[c] = pc[c] + 1
        BY <2>1, <3>5 DEF Finds
      <4> QED
        BY <2>1, <3>3, <4>1, <4>2
    <3> QED
      BY <2>2, <3>4, <3>5
  <2>3. CASE do \notin {"status", "joined"}
    <3>1. tx[c].status = "succeeded"
      BY <1>7, <2>3, Changes
    <3>2. source'.filled /\ Sees(c)'.filled
      BY <1>4, <1>5, <2>1, <3>1
    <3>3. CASE do = "artifacts"
      BY <1>4, <1>7, <3>1, <3>2, <3>3, Changes
    <3>4. CASE do # "artifacts" /\ tx[c].filled
      BY <1>7, <2>3, <3>2, <3>4, Changes
    <3>5. CASE do # "artifacts" /\ Due(plan[c], pc[c])
      <4>1. ~Finds(plan[c][pc[c]])
        BY <1>2, <3>5 DEF Due
      <4> QED
        BY <1>6, <2>1, <3>2, <3>5, <4>1
    <3> QED
      BY <1>4, <2>1, <3>1, <3>3, <3>4, <3>5 DEF Busy
  <2> QED
    BY <2>2, <2>3
<1>8. CASE CommitTx(c)
  <2>1. /\ tx[c].status = "succeeded" /\ tx'[c].filled = tx[c].filled /\ tx'[c].view = {}
        /\ plan[c][pc[c]].do = "commit" /\ Busy(c)
        /\ pc[c] < Len(plan[c]) => pc'[c] = pc[c] + 1 /\ answer'[c] = "none"
    BY <1>8, Committing, Released
  <2>2. source'.filled /\ Sees(c)'.filled
    BY <1>4, <1>5, <2>1
  <2>3. CASE tx[c].filled
    BY <2>1, <2>2, <2>3
  <2>4. CASE Due(plan[c], pc[c])
    BY <1>6, <2>1, <2>2, <2>4 DEF Finds, Busy
  <2> QED
    BY <1>4, <2>1, <2>3, <2>4 DEF Busy
<1>9. CASE Fault(c)
  <2>1. tx[c].status = "succeeded" /\ tx'[c].view = {} /\ answer'[c] \notin {"none", "ok"}
    BY <1>9, Ending, Released
  <2> QED
    BY <1>4, <1>5, <2>1
<1>10. CASE tx'[c] = tx[c] /\ pc'[c] = pc[c] /\ answer'[c] = answer[c]
  BY <1>4, <1>5, <1>10 DEF Busy
<1>11. ASSUME NEW d \in Clients, Goes(d) \/ CommitTx(d) \/ Fault(d), d # c
       PROVE  tx'[c] = tx[c] /\ pc'[c] = pc[c] /\ answer'[c] = answer[c]
  BY <1>11, Going, Committing, Ending
<1> QED
  BY <1>7, <1>8, <1>9, <1>10, <1>11, EveryStep

LEMMA SnappedKept ==
  ASSUME Discipline, EverySnapped, \A c \in Clients : InOneSnapshot(plan[c]), [Next]_vars
  PROVE  EverySnapped'
<1> SUFFICES ASSUME NEW c \in Clients, Busy(c)'
             PROVE  /\ Verifies(plan[c][pc'[c]]) =>
                         tx'[c].view # {} /\ tx'[c].status = Sees(c)'.status
                    /\ pc'[c] < Len(plan[c]) /\ Verifies(plan[c][pc'[c] + 1]) =>
                         tx'[c].view # {}
  BY EveryStep DEF EverySnapped, Snapped
<1> DEFINE k == pc'[c]
<1>1. /\ DOMAIN plan[c] = 1..Len(plan[c]) /\ Len(plan[c]) \in Nat /\ pc[c] \in Nat
      /\ pc[c] \in DOMAIN plan[c]
  BY AtStep DEF Discipline, TypeOK
<1>2. ASSUME Verifies(plan[c][k]), k \in DOMAIN plan[c]
      PROVE  /\ k - 1 \in DOMAIN plan[c] /\ plan[c][k - 1].do = "status"
             /\ plan[c][k - 1].of = plan[c][k].of
  <2>1. k > 2 /\ plan[c][k - 1] = [do |-> "status", of |-> plan[c][k].of]
    BY <1>2 DEF InOneSnapshot
  <2> QED
    BY <1>1, <1>2, <2>1
<1>3. ASSUME Verifies(plan[c][k + 1]), k \in DOMAIN plan[c], k < Len(plan[c])
      PROVE  /\ k - 1 \in DOMAIN plan[c] /\ plan[c][k - 1].do = "snapshot"
             /\ plan[c][k - 1].of = plan[c][k].of
  <2>1. k + 1 \in DOMAIN plan[c] /\ (k + 1) - 1 = k /\ (k + 1) - 2 = k - 1
    BY <1>1, <1>3
  <2>2. k + 1 > 2 /\ plan[c][k - 1] = [do |-> "snapshot", of |-> plan[c][k + 1].of]
                  /\ plan[c][k] = [do |-> "status", of |-> plan[c][k + 1].of]
    BY <1>3, <2>1 DEF InOneSnapshot
  <2> QED
    BY <1>1, <1>3, <2>1, <2>2
<1>4. CASE Goes(c)
  <2>1. k \in DOMAIN plan[c] /\ Busy(c) /\ source' = source
    BY <1>4, Going
  <2>2. ASSUME Verifies(plan[c][k])
        PROVE  tx'[c].view # {} /\ tx'[c].status = Sees(c)'.status
    <3>1. pc[c] = k - 1 /\ plan[c][pc[c]].do = "status"
      BY <1>2, <1>4, <2>1, <2>2, FromBefore
    <3>2. pc[c] < Len(plan[c]) /\ k = pc[c] + 1
      BY <1>1, <2>1, <3>1
    <3>3. tx[c].view # {}
      BY <2>1, <2>2, <3>2 DEF EverySnapped, Snapped
    <3>4. tx'[c].view = tx[c].view /\ tx'[c].status = Sees(c).status
      BY <1>4, <3>1, Changes
    <3> QED
      BY <3>3, <3>4 DEF Sees
  <2>3. ASSUME k < Len(plan[c]), Verifies(plan[c][k + 1]) PROVE tx'[c].view # {}
    <3>1. pc[c] = k - 1 /\ plan[c][pc[c]].do = "snapshot"
      BY <1>3, <1>4, <2>1, <2>3, FromBefore
    <3> QED
      BY <1>4, <3>1, Changes
  <2> QED
    BY <2>2, <2>3
<1>5. CASE CommitTx(c)
  <2>1. /\ pc[c] < Len(plan[c]) /\ k = pc[c] + 1 /\ plan[c][pc[c]].do = "commit"
    BY <1>5, Committing DEF Busy
  <2>2. k \in DOMAIN plan[c] /\ k - 1 = pc[c]
    BY <1>1, <2>1
  <2> QED
    BY <1>2, <1>3, <2>1, <2>2
<1>6. CASE Fault(c)
  BY <1>6, Ending DEF Busy
<1>7. CASE tx'[c] = tx[c] /\ pc'[c] = pc[c] /\ answer'[c] = answer[c]
  <2>1. tx[c].view # {} => Sees(c)' = Sees(c)
    BY <1>7 DEF Sees
  <2> QED
    BY <1>7, <2>1 DEF EverySnapped, Snapped, Busy
<1>8. ASSUME NEW d \in Clients, Goes(d) \/ CommitTx(d) \/ Fault(d), d # c
      PROVE  tx'[c] = tx[c] /\ pc'[c] = pc[c] /\ answer'[c] = answer[c]
  BY <1>8, Going, Committing, Ending
<1> QED
  BY <1>4, <1>5, <1>6, <1>7, <1>8, EveryStep

LEMMA ReadingFirst == Init => Finished(source) /\ EveryViewed /\ EveryInformed
<1>1. SUFFICES ASSUME Init PROVE Finished(source) /\ EveryViewed /\ EveryInformed
  OBVIOUS
<1>2. PICK s \in Statuses : source = [status |-> s, filled |-> s = "succeeded"]
  BY <1>1 DEF Init
<1>3. \A c \in Clients : tx[c].view = {} /\ tx[c].status = "unread"
  BY <1>1 DEF Init, NewTx
<1> QED
  BY <1>2, <1>3 DEF Finished, EveryViewed, Viewed, EveryInformed, Informed

LEMMA SnappedFirst ==
  ASSUME Init, \A c \in Clients : InOneSnapshot(plan[c])
  PROVE  EverySnapped
<1> SUFFICES ASSUME NEW c \in Clients
             PROVE  ~Verifies(plan[c][1]) /\ (1 < Len(plan[c]) => ~Verifies(plan[c][1 + 1]))
  BY DEF EverySnapped, Snapped, Init
<1>1. Discipline
  BY Start
<1>2. DOMAIN plan[c] = 1..Len(plan[c]) /\ Len(plan[c]) \in Nat /\ 1 \in DOMAIN plan[c]
  BY <1>1, AtStep DEF Init, Discipline
<1>3. \A k \in DOMAIN plan[c] : Verifies(plan[c][k]) => k > 2
  BY DEF InOneSnapshot
<1>4. 1 < Len(plan[c]) => 1 + 1 \in DOMAIN plan[c]
  BY <1>2
<1> QED
  BY <1>2, <1>3, <1>4

LEMMA ReadingKept ==
  ASSUME Discipline, Finished(source), EveryViewed, EveryInformed,
         \A c \in Clients : ReadsOn(plan[c]), [Next]_vars
  PROVE  Finished(source)' /\ EveryViewed' /\ EveryInformed'
BY SourceKept, ViewedKept, InformedKept

(* No reader presents a finished job without its artifacts, whenever the
   job ends, if whoever reads the status of a job reads its artifacts after
   it, in whatever statements and transactions.                             *)
THEOREM ReadersSeeWholeJobs ==
  ASSUME \A s \in Scripts : \A c \in Clients : ReadsOn(s[c])
  PROVE  Spec => []ReadsAreWhole
<1>1. /\ Discipline /\ Finished(source) /\ EveryViewed /\ EveryInformed /\ [Next]_vars
      => Finished(source)' /\ EveryViewed' /\ EveryInformed'
  BY ReadingKept, PlanIsOfAScript
<1>2. EveryInformed => ReadsAreWhole
  BY DEF EveryInformed, Informed, ReadsAreWhole, Busy
<1> QED
  BY <1>1, <1>2, ReadingFirst, LocksAreKept, PTL DEF Spec

(* Who reads status and artifacts in one snapshot never raises.            *)
LEMMA RaisesKept ==
  ASSUME Discipline, Finished(source), EveryViewed, EverySnapped, OnlyTheseRaise, [Next]_vars
  PROVE  OnlyTheseRaise'
<1> SUFFICES ASSUME NEW c \in Clients, answer'[c] = "raised" PROVE Item(c)'.family \in Raising
  BY DEF OnlyTheseRaise
<1>1. plan' = plan /\ pc[c] \in DOMAIN plan[c]
  BY EveryStep DEF Discipline, TypeOK
<1>2. CASE answer[c] = "raised"
  <2>1. pc'[c] = pc[c]
    <3>1. ASSUME NEW d \in Clients, Goes(d) \/ CommitTx(d) \/ Fault(d) PROVE pc'[c] = pc[c]
      <4>1. CASE d = c
        BY <1>2, <3>1, <4>1, Going, Committing, Ending DEF Busy
      <4>2. CASE d # c
        BY <3>1, <4>2, Going, Committing, Ending
      <4> QED
        BY <4>1, <4>2
    <3> QED
      BY <3>1, EveryStep
  <2> QED
    BY <1>1, <1>2, <2>1 DEF OnlyTheseRaise, Item
<1>3. CASE answer[c] # "raised"
  <2>1. Raise(c) /\ pc'[c] = pc[c]
    BY <1>3, Causes
  <2>2. /\ Busy(c) /\ plan[c][pc[c]].do = "artifacts"
        /\ tx[c].status \in Early(Item(c).family) /\ Sees(c).filled
    BY <2>1 DEF Raise, Doing, Torn
  <2>3. SUFFICES ASSUME Item(c).family \notin Raising PROVE FALSE
    BY <1>1, <2>1 DEF Item
  <2>4. Verifies(plan[c][pc[c]])
    BY <2>2, <2>3 DEF Verifies, Item
  <2>5. tx[c].status = Sees(c).status
    BY <2>2, <2>4 DEF EverySnapped, Snapped
  <2>6. Sees(c).status = "succeeded"
    BY <2>2, WhatItSees DEF EveryViewed, Finished
  <2>7. "succeeded" \notin Early(Item(c).family)
    BY DEF Early, Unfinished
  <2> QED
    BY <2>2, <2>5, <2>6, <2>7
<1> QED
  BY <1>2, <1>3

(* The readers that raise over a job which ends between their statements
   are those of the five families that read under READ COMMITTED; who
   checks as much in one snapshot never does.                               *)
THEOREM OneSnapshotNeverRaises ==
  ASSUME \A s \in Scripts : \A c \in Clients : ReadsOn(s[c]) /\ InOneSnapshot(s[c])
  PROVE  Spec => []OnlyTheseRaise
<1>1. Init => EverySnapped /\ OnlyTheseRaise
  BY SnappedFirst, Start, PlanIsOfAScript DEF Init, OnlyTheseRaise
<1>2. /\ Discipline /\ Finished(source) /\ EveryViewed /\ EveryInformed /\ EverySnapped
      /\ OnlyTheseRaise /\ [Next]_vars
      => /\ Finished(source)' /\ EveryViewed' /\ EveryInformed' /\ EverySnapped'
         /\ OnlyTheseRaise'
  BY ReadingKept, SnappedKept, RaisesKept, PlanIsOfAScript
<1> QED
  BY <1>1, <1>2, ReadingFirst, LocksAreKept, PTL DEF Spec

===============================================================================
