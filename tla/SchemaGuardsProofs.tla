--------------------------- MODULE SchemaGuardsProofs ---------------------------
(***************************************************************************)
(* Proofs about SchemaGuards, for any number of sessions and of parents    *)
(* and for any size Full of a closed parent.                               *)
(***************************************************************************)
EXTENDS SchemaGuards, TLAPS

-------------------------------------------------------------------------------
(* Facts about the nineteen families.                                      *)
LEMMA TablesAreTyped == Tables \subseteq TableType
<1>0. 1 \in 0..Full /\ 2 \in 0..Full
  BY FullAssumption
<1>1. Sheet \in TableType
  BY FullAssumption DEF TableType, Sheet
<1>2. Job \in TableType
  BY <1>1 DEF TableType, Job
<1>3. Ledger \in TableType
  BY <1>2 DEF TableType, Ledger
<1>10. WorldSnapshots \in TableType
  BY <1>1, <1>0 DEF TableType, WorldSnapshots
<1>11. Scenarios \in TableType
  BY <1>1, <1>0 DEF TableType, Scenarios
<1>12. SmokeRunPosts \in TableType
  BY <1>1, <1>0 DEF TableType, SmokeRunPosts
<1>13. PersonaDatasets \in TableType
  BY <1>1 DEF TableType, PersonaDatasets
<1>14. Cohorts \in TableType
  BY <1>1 DEF TableType, Cohorts
<1>15. SemanticVariants \in TableType
  BY <1>1, <1>0 DEF TableType, SemanticVariants
<1>16. DecisionReports \in TableType
  BY <1>1 DEF TableType, DecisionReports
<1>17. InterviewSessions \in TableType
  BY <1>1 DEF TableType, InterviewSessions
<1>18. SurveyTrials \in TableType
  BY <1>1 DEF TableType, SurveyTrials
<1>19. ChatTrials \in TableType
  BY <1>1 DEF TableType, ChatTrials
<1>20. WebTrials \in TableType
  BY <1>1 DEF TableType, WebTrials
<1>21. BatchItems \in TableType
  BY <1>1, <1>0 DEF TableType, BatchItems
<1>22. SemanticEvents \in TableType
  BY <1>2 DEF TableType, SemanticEvents
<1>23. WorldGraphParts \in TableType
  BY <1>2, <1>0 DEF TableType, WorldGraphParts
<1>24. SurveyAnswers \in TableType
  BY <1>2 DEF TableType, SurveyAnswers
<1>25. ChatMessages \in TableType
  BY <1>2, <1>0 DEF TableType, ChatMessages
<1>26. WebPages \in TableType
  BY <1>2 DEF TableType, WebPages
<1>27. EvidenceToolCalls \in TableType
  BY <1>3 DEF TableType, EvidenceToolCalls
<1>28. PolicyVersions \in TableType
  BY <1>3 DEF TableType, PolicyVersions
<1> QED
  BY <1>10, <1>11, <1>12, <1>13, <1>14, <1>15, <1>16, <1>17, <1>18, <1>19,
     <1>20, <1>21, <1>22, <1>23, <1>24, <1>25, <1>26, <1>27, <1>28 DEF Tables

LEMMA RoundTables ==
  \A t \in Tables :
    t.rounds => /\ t.lock = "update" /\ ~t.remove /\ t.move = "refused"
                /\ t.drop = "never" /\ t.life = "job"
BY ZenonT(60) DEF Tables, Sheet, Job, Ledger, WorldSnapshots,
   Scenarios, SmokeRunPosts, PersonaDatasets, Cohorts, SemanticVariants,
   DecisionReports, InterviewSessions, SurveyTrials, ChatTrials, WebTrials,
   BatchItems, SemanticEvents, WorldGraphParts, SurveyAnswers, ChatMessages,
   WebPages, EvidenceToolCalls, PolicyVersions

LEMMA EmptyTables ==
  \A t \in Tables : t.failing = "empty" => t.move = "refused"
BY ZenonT(60) DEF Tables, Sheet, Job, Ledger, WorldSnapshots,
   Scenarios, SmokeRunPosts, PersonaDatasets, Cohorts, SemanticVariants,
   DecisionReports, InterviewSessions, SurveyTrials, ChatTrials, WebTrials,
   BatchItems, SemanticEvents, WorldGraphParts, SurveyAnswers, ChatMessages,
   WebPages, EvidenceToolCalls, PolicyVersions

-------------------------------------------------------------------------------
(* What a session sees is a row and a set of children.                     *)
LEMMA SeenTyped ==
  ASSUME TypeOK, NEW s \in Sessions, NEW p \in Parents
  PROVE  /\ Seen(s, p) \in Row
         /\ SeenKids(s, p) \in SUBSET Child
         /\ table \in TableType
         /\ table \in Tables
BY TablesAreTyped DEF TypeOK, Seen, SeenKids

(* A writable parent is not final.                                         *)
LEMMA WritableIsOpen ==
  ASSUME NEW l \in {"sheet", "job", "ledger"}
  PROVE  Writable[l] \notin Final /\ Writable[l] \in Phases
         /\ Start[l] \notin Final
BY DEF Writable, Start, Final, Closed, Phases

-------------------------------------------------------------------------------
(* A statement of s leaves the invariant alone if it only touches what s   *)
(* itself has written and locked, takes its locks as PostgreSQL grants them*)
(* and leaves the views of s in order.                                     *)
LEMMA OwnStatement ==
  ASSUME IInv, NEW s \in Sessions, UNCHANGED <<table, row, kids>>, TypeOK',
         \A t \in Sessions \ {s}, x \in Parents :
           /\ own'[t][x] = own[t][x] /\ put'[t][x] = put[t][x]
           /\ cut'[t][x] = cut[t][x] /\ held'[t][x] = held[t][x]
           /\ held'[s][x] = "update" => held[t][x] = "no"
           /\ held[t][x] = "update" => held'[s][x] = "no",
         \A x \in Parents : ViewInv(s, x)'
  PROVE  IInv'
<1>1. LocksExclude'
  BY DEF IInv, LocksExclude
<1>2. ASSUME NEW t \in Sessions, NEW x \in Parents PROVE ViewInv(t, x)'
  <2>1. CASE t = s
    BY <2>1
  <2>2. CASE t # s
    <3>1. /\ own'[t][x] = own[t][x] /\ put'[t][x] = put[t][x]
          /\ cut'[t][x] = cut[t][x] /\ held'[t][x] = held[t][x]
      BY <2>2
    <3>2. Seen(t, x)' = Seen(t, x) /\ SeenKids(t, x)' = SeenKids(t, x)
      BY <3>1 DEF Seen, SeenKids
    <3>3. ViewInv(t, x)
      BY DEF IInv
    <3> QED
      BY <3>1, <3>2, <3>3 DEF ViewInv, Holds, StillOpen, Settled, InOrder, MayFail,
         Complete, Filled, RoundDone
  <2> QED
    BY <2>1, <2>2
<1>3. ASSUME NEW x \in Parents PROVE RowInv(x)'
  <2>1. RowInv(x)
    BY DEF IInv
  <2> QED
    BY <2>1 DEF RowInv, Settled, InOrder, MayFail, Complete, Filled, RoundDone
<1> QED
  BY <1>1, <1>2, <1>3 DEF IInv

(* A lock that PostgreSQL grants.                                          *)
LEMMA LockGranted ==
  ASSUME IInv, NEW s \in Sessions, NEW p \in Parents,
         NEW m \in {"share", "update"}, Lock(s, p, m)
  PROVE  /\ held' \in [Sessions -> [Parents -> {"no", "share", "update"}]]
         /\ \A t \in Sessions \ {s}, x \in Parents :
              /\ held'[t][x] = held[t][x]
              /\ held'[s][x] = "update" => held[t][x] = "no"
              /\ held[t][x] = "update" => held'[s][x] = "no"
         /\ \A x \in Parents \ {p} : held'[s][x] = held[s][x]
         /\ held'[s][p] \in {m, "update"}
         /\ held[s][p] = "update" => held'[s][p] = "update"
<1>1. held \in [Sessions -> [Parents -> {"no", "share", "update"}]] /\ LocksExclude
  BY DEF IInv, TypeOK
<1>2. Stronger(s, p, m) \in {m, "update"}
  BY DEF Stronger
<1>3. held' \in [Sessions -> [Parents -> {"no", "share", "update"}]]
  BY <1>1, <1>2 DEF Lock
<1>4. /\ \A t \in Sessions \ {s}, x \in Parents : held'[t][x] = held[t][x]
      /\ \A x \in Parents \ {p} : held'[s][x] = held[s][x]
      /\ held'[s][p] = Stronger(s, p, m)
  BY <1>1 DEF Lock
<1>5. ASSUME NEW t \in Sessions \ {s}, NEW x \in Parents
      PROVE  /\ held'[s][x] = "update" => held[t][x] = "no"
             /\ held[t][x] = "update" => held'[s][x] = "no"
  <2>1. CASE x # p
    BY <1>1, <1>4, <2>1 DEF LocksExclude
  <2>2. CASE x = p
    BY <1>1, <1>4, <2>2 DEF LocksExclude, Lock, CanLock, Stronger
  <2> QED
    BY <2>1, <2>2
<1> QED
  BY <1>2, <1>3, <1>4, <1>5 DEF Stronger

(* An UPDATE or INSERT of a parent row.                                    *)
LEMMA BecomeStep ==
  ASSUME IInv, NEW s \in Sessions, NEW p \in Parents, NEW r \in Row,
         Become(s, p, r), Seen(s, p).phase \notin Final,
         table.move # "new" => Settled(r, SeenKids(s, p)),
         table.rounds => InOrder(r, SeenKids(s, p))
  PROVE  IInv'
<1> USE DEF Become
<1>1. TypeOK /\ ViewInv(s, p)
  BY DEF IInv
<1>2. /\ own' \in [Sessions -> [Parents -> Row \cup {Same}]]
      /\ \A t \in Sessions, x \in Parents :
           own'[t][x] = IF t = s /\ x = p THEN r ELSE own[t][x]
  BY <1>1 DEF TypeOK
<1>3. r # Same
  BY DEF Row, Phases, Same
<1>4. TypeOK'
  BY <1>1, <1>2, LockGranted DEF TypeOK
<1>5. row[p].phase \notin Final
  BY <1>1 DEF ViewInv, Seen
<1>6. ASSUME NEW x \in Parents PROVE ViewInv(s, x)'
  <2>1. CASE x # p
    <3>1. ViewInv(s, x) /\ held'[s][x] = held[s][x] /\ own'[s][x] = own[s][x]
      BY <1>2, <2>1, LockGranted DEF IInv
    <3>2. Seen(s, x)' = Seen(s, x) /\ SeenKids(s, x)' = SeenKids(s, x)
      BY <3>1 DEF Seen, SeenKids
    <3> QED
      BY <3>1, <3>2 DEF ViewInv, Holds, StillOpen, Settled, InOrder, MayFail,
         Complete, Filled, RoundDone
  <2>2. CASE x = p
    <3>1. held'[s][p] = "update" /\ own'[s][p] = r
      BY <1>2, LockGranted
    <3>2. Seen(s, p)' = r /\ SeenKids(s, p)' = SeenKids(s, p)
      BY <1>3, <3>1 DEF Seen, SeenKids
    <3> QED
      BY <1>3, <1>5, <2>2, <3>1, <3>2 DEF ViewInv, Holds, StillOpen, Settled, InOrder,
         MayFail, Complete, Filled, RoundDone
  <2> QED
    BY <2>1, <2>2
<1>7. \A t \in Sessions \ {s}, x \in Parents :
        /\ own'[t][x] = own[t][x] /\ put'[t][x] = put[t][x]
        /\ cut'[t][x] = cut[t][x] /\ held'[t][x] = held[t][x]
        /\ held'[s][x] = "update" => held[t][x] = "no"
        /\ held[t][x] = "update" => held'[s][x] = "no"
  BY <1>2, LockGranted
<1> QED
  BY <1>4, <1>6, <1>7, OwnStatement

-------------------------------------------------------------------------------
(* Statements on children.                                                 *)

(* A final view is settled whatever its children; an open one trivially.   *)
LEMMA OpenIsSettled ==
  ASSUME NEW r, NEW K, r.phase \notin Final
  PROVE  Settled(r, K)
BY DEF Settled, Final

(* Children that belong to a later round do not disturb the finished ones. *)
LEMMA NextRound ==
  ASSUME NEW r \in Row, NEW K \in SUBSET Child, NEW c \in Child,
         InOrder(r, K), c.round = r.round + 1
  PROVE  InOrder(r, K \cup {c})
<1>0. r.round \in Nat
  BY FullAssumption DEF Row
<1>1. ASSUME NEW i \in 1..r.round PROVE RoundDone(K \cup {c}, i)
  <2>1. c.round # i
    BY <1>0
  <2>2. {d \in K \cup {c} : d.round = i} = {d \in K : d.round = i}
    BY <2>1
  <2> QED
    BY <2>2 DEF InOrder, RoundDone
<1>2. \A d \in K \cup {c} : d.round <= r.round + 1
  BY <1>0 DEF InOrder
<1> QED
  BY <1>1, <1>2 DEF InOrder

(* A session that keeps its own version of a parent and changes only what  *)
(* it inserted or deleted below it, while the parent is writable and       *)
(* locked, keeps its view in order.                                        *)
LEMMA ViewKept ==
  ASSUME IInv, TypeOK', NEW s \in Sessions, NEW p \in Parents,
         UNCHANGED <<table, row, kids>>, own'[s][p] = own[s][p],
         held[s][p] = "update" => held'[s][p] = "update",
         Seen(s, p).phase = Writable[table.life], Holds(s, p)',
         table.rounds => InOrder(Seen(s, p), SeenKids(s, p)')
  PROVE  ViewInv(s, p)'
<1>1. ViewInv(s, p) /\ TypeOK
  BY DEF IInv
<1>2. Seen(s, p)' = Seen(s, p)
  BY DEF Seen
<1>3. table.life \in {"sheet", "job", "ledger"}
  BY <1>1, TablesAreTyped DEF TypeOK, TableType
<1>4. Settled(Seen(s, p), SeenKids(s, p)')
  BY <1>3, WritableIsOpen, OpenIsSettled
<1>5. StillOpen(s, p)'
  BY DEF StillOpen, Seen
<1> QED
  BY <1>1, <1>2, <1>4, <1>5 DEF ViewInv, Settled, InOrder, MayFail, Complete, Filled,
     RoundDone

(* Nothing of what s sees of x changes when s works below another parent.  *)
LEMMA ViewUntouched ==
  ASSUME IInv, NEW s \in Sessions, NEW x \in Parents, UNCHANGED <<table, row, kids>>,
         own'[s][x] = own[s][x], put'[s][x] = put[s][x], cut'[s][x] = cut[s][x],
         held'[s][x] = held[s][x]
  PROVE  ViewInv(s, x)'
<1>1. ViewInv(s, x)
  BY DEF IInv
<1>2. Seen(s, x)' = Seen(s, x) /\ SeenKids(s, x)' = SeenKids(s, x)
  BY DEF Seen, SeenKids
<1> QED
  BY <1>1, <1>2 DEF ViewInv, Holds, StillOpen, Settled, InOrder, MayFail,
     Complete, Filled, RoundDone

LEMMA InsertChildStep ==
  ASSUME IInv, NEW s \in Sessions, NEW p \in Parents, NEW c \in Child,
         InsertChild(s, p, c)
  PROVE  IInv'
<1> USE DEF InsertChild, ReadParent
<1>1. TypeOK /\ ViewInv(s, p) /\ table.lock \in {"share", "update"}
  BY SeenTyped DEF IInv, TableType
<1>2. /\ put' \in [Sessions -> [Parents -> SUBSET Child]]
      /\ \A t \in Sessions, x \in Parents :
           put'[t][x] = IF t = s /\ x = p THEN put[s][p] \cup {c} ELSE put[t][x]
  BY <1>1 DEF TypeOK
<1>3. TypeOK'
  BY <1>1, <1>2, LockGranted DEF TypeOK
<1>4. SeenKids(s, p)' = SeenKids(s, p) \cup {c}
  BY <1>2 DEF SeenKids
<1>5. table.rounds => InOrder(Seen(s, p), SeenKids(s, p)')
  BY <1>1, <1>4, SeenTyped, NextRound DEF Admits, ViewInv
<1>6. ASSUME NEW x \in Parents PROVE ViewInv(s, x)'
  <2>1. CASE x # p
    BY <1>1, <1>2, <2>1, LockGranted, ViewUntouched
  <2>2. CASE x = p
    <3>1. Holds(s, p)'
      BY <1>1, LockGranted DEF Holds
    <3> QED
      BY <1>1, <1>3, <1>5, <2>2, <3>1, LockGranted, ViewKept DEF Admits
  <2> QED
    BY <2>1, <2>2
<1>7. \A t \in Sessions \ {s}, x \in Parents :
        /\ own'[t][x] = own[t][x] /\ put'[t][x] = put[t][x]
        /\ cut'[t][x] = cut[t][x] /\ held'[t][x] = held[t][x]
        /\ held'[s][x] = "update" => held[t][x] = "no"
        /\ held[t][x] = "update" => held'[s][x] = "no"
  BY <1>1, <1>2, LockGranted
<1> QED
  BY <1>3, <1>6, <1>7, OwnStatement

LEMMA DeleteChildStep ==
  ASSUME IInv, NEW s \in Sessions, NEW p \in Parents, NEW c, DeleteChild(s, p, c)
  PROVE  IInv'
<1> USE DEF DeleteChild, ReadParent
<1>1. TypeOK /\ ViewInv(s, p) /\ table.lock \in {"share", "update"} /\ ~table.rounds
  BY SeenTyped, RoundTables DEF IInv, TableType
<1>2. /\ put' \in [Sessions -> [Parents -> SUBSET Child]]
      /\ cut' \in [Sessions -> [Parents -> SUBSET Child]]
      /\ \A t \in Sessions, x \in Parents :
           t # s \/ x # p => put'[t][x] = put[t][x] /\ cut'[t][x] = cut[t][x]
  BY <1>1 DEF TypeOK
<1>3. TypeOK'
  BY <1>1, <1>2, LockGranted DEF TypeOK
<1>6. ASSUME NEW x \in Parents PROVE ViewInv(s, x)'
  <2>1. CASE x # p
    BY <1>1, <1>2, <2>1, LockGranted, ViewUntouched
  <2>2. CASE x = p
    <3>1. Holds(s, p)'
      BY <1>1, LockGranted DEF Holds
    <3> QED
      BY <1>1, <1>3, <2>2, <3>1, LockGranted, ViewKept
  <2> QED
    BY <2>1, <2>2
<1>7. \A t \in Sessions \ {s}, x \in Parents :
        /\ own'[t][x] = own[t][x] /\ put'[t][x] = put[t][x]
        /\ cut'[t][x] = cut[t][x] /\ held'[t][x] = held[t][x]
        /\ held'[s][x] = "update" => held[t][x] = "no"
        /\ held[t][x] = "update" => held'[s][x] = "no"
  BY <1>1, <1>2, LockGranted
<1> QED
  BY <1>3, <1>6, <1>7, OwnStatement

(* Families whose children cannot be moved have nothing to prove, the two  *)
(* one-sided ones only that a child put below a parent finds it locked.    *)
LEMMA MoveChildStep ==
  ASSUME IInv, NEW s \in Sessions, NEW p \in Parents, NEW q \in Parents,
         NEW c, NEW d \in Child, MoveChild(s, p, q, c, d)
  PROVE  IInv'
<1> USE DEF MoveChild
<1>1. TypeOK /\ table.lock \in {"share", "update"} /\ ~table.rounds
      /\ table.life \in {"sheet", "job", "ledger"}
  BY SeenTyped, RoundTables DEF IInv, TableType
<1>2. /\ put' \in [Sessions -> [Parents -> SUBSET Child]]
      /\ cut' \in [Sessions -> [Parents -> SUBSET Child]]
      /\ \A t \in Sessions, x \in Parents :
           t # s \/ (x # p /\ x # q) => put'[t][x] = put[t][x]
      /\ \A t \in Sessions, x \in Parents :
           t # s \/ x # p => cut'[t][x] = cut[t][x]
      /\ put'[s][p] \subseteq put[s][p]
  BY <1>1 DEF TypeOK
<1>3. /\ held' \in [Sessions -> [Parents -> {"no", "share", "update"}]]
      /\ \A t \in Sessions, x \in Parents :
           t # s \/ (x # p /\ x # q) => held'[t][x] = held[t][x]
      /\ held'[s][q] = Stronger(s, q, table.lock)
      /\ held'[s][p] = IF table.move = "both" THEN Stronger(s, p, table.lock)
                       ELSE held[s][p]
  BY <1>1 DEF TypeOK, Stronger
<1>4. TypeOK'
  BY <1>1, <1>2, <1>3 DEF TypeOK
<1>5. ASSUME NEW x \in Parents PROVE ViewInv(s, x)'
  <2>1. CASE x # p /\ x # q
    BY <1>2, <1>3, <2>1, ViewUntouched
  <2>2. CASE x = q
    <3>1. Holds(s, q)' /\ (held[s][q] = "update" => held'[s][q] = "update")
      BY <1>3 DEF Holds, Stronger
    <3> QED
      BY <1>1, <1>4, <2>2, <3>1, ViewKept DEF Admits
  <2>3. CASE x = p /\ table.move = "both"
    <3>1. Holds(s, p)' /\ (held[s][p] = "update" => held'[s][p] = "update")
      BY <1>3, <2>3 DEF Holds, Stronger
    <3> QED
      BY <1>1, <1>4, <2>3, <3>1, ViewKept DEF LooksAtOld
  <2>4. CASE x = p /\ table.move = "new"
    <3>1. ViewInv(s, p)
      BY DEF IInv
    <3> QED
      BY <1>1, <1>2, <1>3, <2>4, <3>1 DEF ViewInv, Holds, StillOpen
  <2>5. table.move \in {"both", "new"}
    BY SeenTyped DEF IInv, TableType
  <2> QED
    BY <2>1, <2>2, <2>3, <2>4, <2>5
<1>6. \A t \in Sessions \ {s}, x \in Parents :
        /\ own'[t][x] = own[t][x] /\ put'[t][x] = put[t][x]
        /\ cut'[t][x] = cut[t][x] /\ held'[t][x] = held[t][x]
  BY <1>2, <1>3
<1>7. ASSUME NEW t \in Sessions \ {s}, NEW x \in Parents
      PROVE  /\ held'[s][x] = "update" => held[t][x] = "no"
             /\ held[t][x] = "update" => held'[s][x] = "no"
  <2>1. LocksExclude /\ held[t][x] \in {"no", "share", "update"}
        /\ held[s][x] \in {"no", "share", "update"}
    BY <1>1 DEF IInv, TypeOK
  <2>2. CASE x # p /\ x # q
    BY <1>3, <2>1, <2>2 DEF LocksExclude
  <2>3. CASE x = q
    BY <1>1, <1>3, <2>1, <2>3 DEF LocksExclude, CanLock, Stronger
  <2>4. CASE x = p
    BY <1>1, <1>3, <2>1, <2>4 DEF LocksExclude, CanLock, Stronger
  <2> QED
    BY <2>2, <2>3, <2>4
<1>8. UNCHANGED <<table, row, kids>>
  OBVIOUS
<1> HIDE DEF MoveChild
<1> QED
  BY <1>4, <1>5, <1>6, <1>7, <1>8, OwnStatement

LEMMA DeleteParentStep ==
  ASSUME IInv, NEW s \in Sessions, NEW p \in Parents, DeleteParent(s, p)
  PROVE  IInv'
<1> USE DEF DeleteParent
<1>1. TypeOK /\ ViewInv(s, p) /\ ~table.rounds
      /\ table.life \in {"sheet", "job", "ledger"}
  BY SeenTyped, RoundTables DEF IInv, TableType
<1>2. [phase |-> "none", round |-> 0] \in Row
  BY FullAssumption DEF Row, Phases
<1>3. /\ put' \in [Sessions -> [Parents -> SUBSET Child]]
      /\ cut' \in [Sessions -> [Parents -> SUBSET Child]]
      /\ own' \in [Sessions -> [Parents -> Row \cup {Same}]]
      /\ \A t \in Sessions, x \in Parents :
           t # s \/ x # p => /\ put'[t][x] = put[t][x] /\ cut'[t][x] = cut[t][x]
                            /\ own'[t][x] = own[t][x]
      /\ put'[s][p] = {} /\ own'[s][p] = [phase |-> "none", round |-> 0]
  BY <1>1, <1>2 DEF TypeOK
<1>4. TypeOK'
  BY <1>1, <1>3, LockGranted DEF TypeOK
<1>5. row[p].phase \notin Final
  BY <1>1, WritableIsOpen DEF ViewInv, Seen
<1>6. ASSUME NEW x \in Parents PROVE ViewInv(s, x)'
  <2>1. CASE x # p
    BY <1>3, <2>1, LockGranted, ViewUntouched
  <2>2. CASE x = p
    <3>1. held'[s][p] = "update"
      BY LockGranted
    <3>2. Seen(s, p)'.phase = "none" /\ own'[s][p] # Same
      BY <1>3 DEF Seen, Same
    <3>3. Settled(Seen(s, p)', SeenKids(s, p)')
      BY <3>2, OpenIsSettled DEF Final, Closed
    <3> QED
      BY <1>1, <1>3, <1>5, <2>2, <3>1, <3>2, <3>3 DEF ViewInv, Holds, StillOpen, Settled,
         MayFail, Complete, Filled, RoundDone
  <2> QED
    BY <2>1, <2>2
<1>7. \A t \in Sessions \ {s}, x \in Parents :
        /\ own'[t][x] = own[t][x] /\ put'[t][x] = put[t][x]
        /\ cut'[t][x] = cut[t][x] /\ held'[t][x] = held[t][x]
        /\ held'[s][x] = "update" => held[t][x] = "no"
        /\ held[t][x] = "update" => held'[s][x] = "no"
  BY <1>3, LockGranted
<1> QED
  BY <1>4, <1>6, <1>7, OwnStatement

-------------------------------------------------------------------------------
(* The end of a transaction.                                               *)

(* Afterwards the session sees what is committed.                          *)
LEMMA Ended ==
  ASSUME TypeOK, NEW s \in Sessions, End(s)
  PROVE  /\ own' \in [Sessions -> [Parents -> Row \cup {Same}]]
         /\ put' \in [Sessions -> [Parents -> SUBSET Child]]
         /\ cut' \in [Sessions -> [Parents -> SUBSET Child]]
         /\ held' \in [Sessions -> [Parents -> {"no", "share", "update"}]]
         /\ table' = table
         /\ \A t \in Sessions \ {s} : /\ own'[t] = own[t] /\ put'[t] = put[t]
                                      /\ cut'[t] = cut[t] /\ held'[t] = held[t]
         /\ \A x \in Parents : /\ own'[s][x] = Same /\ put'[s][x] = {}
                               /\ cut'[s][x] = {} /\ held'[s][x] = "no"
BY DEF TypeOK, End, Nothing

LEMMA EndedLocks ==
  ASSUME IInv, NEW s \in Sessions, End(s)
  PROVE  LocksExclude'
<1>1. TypeOK /\ LocksExclude
  BY DEF IInv
<1>2. ASSUME NEW t \in Sessions, NEW u \in Sessions, NEW x \in Parents,
             t # u, held'[t][x] = "update"
      PROVE  held'[u][x] = "no"
  <2>1. held'[s][x] = "no" /\ \A v \in Sessions \ {s} : held'[v][x] = held[v][x]
    BY <1>1, Ended
  <2>2. t # s /\ held[t][x] = "update"
    BY <1>2, <2>1
  <2> QED
    BY <1>1, <1>2, <2>1, <2>2 DEF LocksExclude
<1> QED
  BY <1>2 DEF LocksExclude

(* What the session sees then is in order when what is committed is.       *)
LEMMA EndedView ==
  ASSUME TypeOK, NEW s \in Sessions, NEW x \in Parents, End(s), RowInv(x)'
  PROVE  ViewInv(s, x)'
<1>1. own'[s][x] = Same /\ put'[s][x] = {} /\ cut'[s][x] = {} /\ table' = table
  BY Ended
<1>2. Seen(s, x)' = row'[x] /\ SeenKids(s, x)' = kids'[x]
  BY <1>1 DEF Seen, SeenKids
<1> QED
  BY <1>1, <1>2 DEF ViewInv, RowInv, Settled, InOrder, MayFail, Complete, Filled, RoundDone

LEMMA RollbackStep ==
  ASSUME IInv, NEW s \in Sessions, Rollback(s)
  PROVE  IInv'
<1> USE DEF Rollback
<1>1. TypeOK /\ TypeOK'
  BY Ended DEF IInv, TypeOK
<1>a. UNCHANGED <<table, row, kids>>
  BY <1>1, Ended
<1>2. ASSUME NEW x \in Parents PROVE RowInv(x)'
  <2>1. RowInv(x)
    BY DEF IInv
  <2> QED
    BY <1>a, <2>1 DEF RowInv, Settled, InOrder, MayFail, Complete, Filled, RoundDone
<1>3. ASSUME NEW t \in Sessions, NEW x \in Parents PROVE ViewInv(t, x)'
  <2>1. CASE t = s
    BY <1>1, <1>2, <2>1, EndedView
  <2>2. CASE t # s
    <3>1. /\ own'[t][x] = own[t][x] /\ put'[t][x] = put[t][x]
          /\ cut'[t][x] = cut[t][x] /\ held'[t][x] = held[t][x]
      BY <1>1, <2>2, Ended
    <3> QED
      BY <1>a, <3>1, ViewUntouched
  <2> QED
    BY <2>1, <2>2
<1> QED
  BY <1>1, <1>2, <1>3, EndedLocks DEF IInv

(* What a commit makes of the parents another session looks at: nothing it *)
(* has a version of, or has changed children of, is disturbed.             *)
LEMMA CommitElsewhere ==
  ASSUME IInv, NEW s \in Sessions, Commit(s), NEW t \in Sessions \ {s}, NEW x \in Parents,
         RowInv(x)'
  PROVE  ViewInv(t, x)'
<1> USE DEF Commit
<1>1. TypeOK /\ ViewInv(s, x) /\ ViewInv(t, x) /\ LocksExclude
  BY DEF IInv
<1>2. /\ own'[t][x] = own[t][x] /\ put'[t][x] = put[t][x] /\ table' = table
      /\ cut'[t][x] = cut[t][x] /\ held'[t][x] = held[t][x]
  BY <1>1, Ended
<1>3. row'[x] = Seen(s, x) /\ kids'[x] = SeenKids(s, x)
  OBVIOUS
<1>4. table \in TableType /\ table \in Tables
  BY <1>1, SeenTyped
<1>5. CASE held[s][x] = "update"
  <2>1. held[t][x] = "no"
    BY <1>1, <1>5 DEF LocksExclude
  <2>2. own[t][x] = Same /\ put[t][x] = {} /\ (table.move # "new" => cut[t][x] = {})
    BY <1>1, <1>4, <2>1 DEF ViewInv, Holds, TableType
  <2>3. /\ Seen(t, x)' = row'[x]
        /\ table.move # "new" => SeenKids(t, x)' = kids'[x]
    BY <1>2, <2>2 DEF Seen, SeenKids
  <2>4. table.rounds => table.move # "new"
    BY <1>4, RoundTables
  <2> QED
    BY <1>2, <2>2, <2>3, <2>4 DEF ViewInv, RowInv, Settled, InOrder, MayFail, Complete,
       Filled, RoundDone
<1>6. CASE held[s][x] # "update"
  <2>1. own[s][x] = Same /\ row'[x] = row[x]
    BY <1>1, <1>3, <1>6 DEF ViewInv, Seen
  <2>2. CASE put[s][x] = {} /\ cut[s][x] = {}
    <3>1. kids'[x] = kids[x]
      BY <1>3, <2>2 DEF SeenKids
    <3>2. Seen(t, x)' = Seen(t, x) /\ SeenKids(t, x)' = SeenKids(t, x)
      BY <1>2, <2>1, <3>1 DEF Seen, SeenKids
    <3> QED
      BY <1>1, <1>2, <2>1, <3>2 DEF ViewInv, Holds, StillOpen, Settled, InOrder, MayFail,
         Complete, Filled, RoundDone
  <2>3. CASE put[s][x] # {} \/ cut[s][x] # {}
    <3>1. ~table.rounds \/ table.move = "new"
      BY <1>1, <1>4, <1>6, <2>3, RoundTables DEF ViewInv, Holds
    <3>2. ~table.rounds
      BY <1>4, <3>1, RoundTables
    <3>3. CASE table.move = "new"
      BY <1>1, <1>2, <2>1, <3>2, <3>3 DEF ViewInv, Holds, StillOpen
    <3>4. CASE table.move # "new"
      <4>1. Holds(s, x) /\ row[x].phase = Writable[table.life]
        BY <1>1, <2>1, <2>3, <3>4 DEF ViewInv, StillOpen
      <4>2. held[t][x] # "update" /\ own[t][x] = Same
        BY <1>1, <1>4, <4>1 DEF ViewInv, Holds, LocksExclude, TableType
      <4>3. Seen(t, x)' = row[x]
        BY <1>2, <2>1, <4>2 DEF Seen
      <4>4. Settled(Seen(t, x)', SeenKids(t, x)')
        BY <1>4, <4>1, <4>3, OpenIsSettled, WritableIsOpen DEF TableType
      <4> QED
        BY <1>1, <1>2, <2>1, <3>2, <4>2, <4>4 DEF ViewInv, Holds, StillOpen, Settled,
           MayFail, Complete, Filled, RoundDone
    <3> QED
      BY <3>3, <3>4
  <2> QED
    BY <2>2, <2>3
<1> QED
  BY <1>5, <1>6

LEMMA CommitStep ==
  ASSUME IInv, NEW s \in Sessions, Commit(s)
  PROVE  IInv'
<1> USE DEF Commit
<1>1. TypeOK
  BY DEF IInv
<1>2. TypeOK'
  <2>1. \A x \in Parents : Seen(s, x) \in Row /\ SeenKids(s, x) \in SUBSET Child
    BY <1>1, SeenTyped
  <2> QED
    BY <1>1, <2>1, Ended DEF TypeOK
<1>3. ASSUME NEW x \in Parents PROVE RowInv(x)'
  <2>1. ViewInv(s, x) /\ row'[x] = Seen(s, x) /\ kids'[x] = SeenKids(s, x)
        /\ table' = table
    BY <1>1, Ended DEF IInv
  <2> QED
    BY <2>1 DEF ViewInv, RowInv, Settled, InOrder, MayFail, Complete, Filled, RoundDone
<1>4. ASSUME NEW t \in Sessions, NEW x \in Parents PROVE ViewInv(t, x)'
  <2>1. CASE t = s
    BY <1>1, <1>3, <2>1, EndedView
  <2>2. CASE t # s
    BY <1>3, <2>2, CommitElsewhere
  <2> QED
    BY <2>1, <2>2
<1> QED
  BY <1>2, <1>3, <1>4, EndedLocks DEF IInv

-------------------------------------------------------------------------------
(* UPDATEs of a parent.                                                    *)
LEMMA InsertParentStep ==
  ASSUME IInv, NEW s \in Sessions, NEW p \in Parents, InsertParent(s, p)
  PROVE  IInv'
<1> DEFINE r == [phase |-> "draft", round |-> 0]
<1>1. TypeOK /\ table \in Tables
  BY SeenTyped DEF IInv
<1>2. r \in Row /\ r.phase = "draft"
  BY FullAssumption DEF Row, Phases
<1>3. ~table.rounds
  BY <1>1, RoundTables DEF InsertParent
<1>4. Settled(r, SeenKids(s, p)) /\ Seen(s, p).phase \notin Final
  BY <1>2, OpenIsSettled DEF InsertParent, Final, Closed
<1>5. Become(s, p, r)
  BY DEF InsertParent, Become
<1> QED
  BY <1>2, <1>3, <1>4, <1>5, BecomeStep

LEMMA SealStep ==
  ASSUME IInv, NEW s \in Sessions, NEW p \in Parents, Seal(s, p)
  PROVE  IInv'
<1> DEFINE r == [phase |-> "sealed", round |-> 0]
<1>1. TypeOK /\ table \in Tables
  BY SeenTyped DEF IInv
<1>2. r \in Row /\ r.phase = "sealed"
  BY FullAssumption DEF Row, Phases
<1>3. ~table.rounds
  BY <1>1, RoundTables DEF Seal
<1>4. Settled(r, SeenKids(s, p)) /\ Seen(s, p).phase \notin Final
  BY <1>2 DEF Seal, Settled, Final, Closed
<1>5. Become(s, p, r)
  BY DEF Seal
<1> QED
  BY <1>2, <1>3, <1>4, <1>5, BecomeStep

LEMMA ClaimStep ==
  ASSUME IInv, NEW s \in Sessions, NEW p \in Parents, Claim(s, p)
  PROVE  IInv'
<1> DEFINE r == [phase |-> "running", round |-> 0]
<1>1. TypeOK /\ ViewInv(s, p)
  BY DEF IInv
<1>2. r \in Row /\ r.phase = "running" /\ r.round = 0
  BY FullAssumption DEF Row, Phases
<1>3. Settled(r, SeenKids(s, p)) /\ Seen(s, p).phase \notin Final
  BY <1>2, OpenIsSettled DEF Claim, Final, Closed
<1>4. table.rounds => InOrder(r, SeenKids(s, p))
  BY <1>1, <1>2 DEF ViewInv, InOrder, Claim
<1>5. Become(s, p, r)
  BY DEF Claim
<1> QED
  BY <1>2, <1>3, <1>4, <1>5, BecomeStep

LEMMA AdvanceRoundStep ==
  ASSUME IInv, NEW s \in Sessions, NEW p \in Parents, AdvanceRound(s, p)
  PROVE  IInv'
<1> DEFINE n == Seen(s, p).round + 1
           r == [phase |-> "running", round |-> n]
<1>1. ViewInv(s, p) /\ Seen(s, p) \in Row
  BY SeenTyped DEF IInv
<1>2. Seen(s, p).round \in 0..Full /\ n \in 0..Full
  BY <1>1, FullAssumption DEF Row, AdvanceRound
<1>3. r \in Row /\ r.phase = "running" /\ r.round = n
  BY <1>2 DEF Row, Phases
<1>4. Settled(r, SeenKids(s, p)) /\ Seen(s, p).phase \notin Final
  BY <1>3, OpenIsSettled DEF AdvanceRound, Final, Closed
<1>5. InOrder(r, SeenKids(s, p))
  <2>1. \A i \in 1..Seen(s, p).round : RoundDone(SeenKids(s, p), i)
    BY <1>1 DEF ViewInv, InOrder, AdvanceRound
  <2>2. RoundDone(SeenKids(s, p), n) /\ \A c \in SeenKids(s, p) : c.round <= n
    BY DEF AdvanceRound
  <2>3. SeenKids(s, p) \in SUBSET Child
    BY SeenTyped DEF IInv
  <2>4. \A i \in 1..n : i = n \/ i \in 1..Seen(s, p).round
    BY <1>2
  <2>5. \A c \in SeenKids(s, p) : c.round <= n + 1
    BY <1>2, <2>2, <2>3 DEF Child
  <2> QED
    BY <1>3, <2>1, <2>2, <2>4, <2>5 DEF InOrder
<1>6. Become(s, p, r)
  BY DEF AdvanceRound
<1> QED
  BY <1>3, <1>4, <1>5, <1>6, BecomeStep

LEMMA SucceedStep ==
  ASSUME IInv, NEW s \in Sessions, NEW p \in Parents, Succeed(s, p)
  PROVE  IInv'
<1> DEFINE r == [phase |-> "succeeded", round |-> IF table.rounds THEN Full ELSE 0]
<1>1. SeenKids(s, p) \in SUBSET Child
  BY SeenTyped DEF IInv
<1>2. r \in Row /\ r.phase = "succeeded" /\ (table.rounds => r.round = Full)
  BY FullAssumption DEF Row, Phases
<1>3. Settled(r, SeenKids(s, p)) /\ Seen(s, p).phase \notin Final
  BY <1>2 DEF Succeed, Settled, Final, Closed
<1>4. table.rounds => InOrder(r, SeenKids(s, p))
  <2>1. \A c \in SeenKids(s, p) : c.round <= Full + 1
    BY <1>1, FullAssumption DEF Child
  <2> QED
    BY <1>2, <2>1 DEF InOrder, Succeed, Complete
<1>5. Become(s, p, r)
  BY DEF Succeed
<1> QED
  BY <1>2, <1>3, <1>4, <1>5, BecomeStep

LEMMA FailStep ==
  ASSUME IInv, NEW s \in Sessions, NEW p \in Parents, Fail(s, p)
  PROVE  IInv'
<1> DEFINE r == [phase |-> "failed", round |-> Seen(s, p).round]
<1>1. ViewInv(s, p) /\ Seen(s, p) \in Row
  BY SeenTyped DEF IInv
<1>2. r \in Row /\ r.phase = "failed" /\ r.round = Seen(s, p).round
  BY <1>1 DEF Row, Phases
<1>3. Settled(r, SeenKids(s, p)) /\ Seen(s, p).phase \notin Final
  BY <1>2 DEF Fail, Settled, Final, Closed
<1>4. table.rounds => InOrder(r, SeenKids(s, p))
  BY <1>1, <1>2 DEF ViewInv, InOrder
<1>5. Become(s, p, r)
  BY DEF Fail
<1> QED
  BY <1>2, <1>3, <1>4, <1>5, BecomeStep

-------------------------------------------------------------------------------
(* The invariant.                                                          *)
LEMMA InitInv == Init => IInv
<1> SUFFICES ASSUME Init PROVE IInv
  OBVIOUS
<1> USE DEF Init, Nothing
<1>1. table \in TableType
  BY TablesAreTyped
<1>2. ASSUME NEW p \in Parents
      PROVE  row[p] \in Row /\ row[p].phase \notin Final /\ row[p].round = 0
  BY <1>1, FullAssumption DEF Row, Phases, Start, Final, Closed, TableType
<1>3. row \in [Parents -> Row]
  BY <1>2
<1>4. TypeOK
  BY <1>3 DEF TypeOK
<1>5. LocksExclude
  BY DEF LocksExclude
<1>6. ASSUME NEW p \in Parents PROVE RowInv(p)
  BY <1>2, OpenIsSettled DEF RowInv, InOrder
<1>7. ASSUME NEW s \in Sessions, NEW p \in Parents PROVE ViewInv(s, p)
  <2>1. own[s][p] = Same /\ put[s][p] = {} /\ cut[s][p] = {}
    OBVIOUS
  <2>2. Seen(s, p) = row[p] /\ SeenKids(s, p) = kids[p]
    BY <2>1 DEF Seen, SeenKids
  <2> QED
    BY <1>6, <2>1, <2>2 DEF ViewInv, RowInv
<1> QED
  BY <1>4, <1>5, <1>6, <1>7 DEF IInv

LEMMA StepInv == IInv /\ [Next]_vars => IInv'
<1> SUFFICES ASSUME IInv, [Next]_vars PROVE IInv'
  OBVIOUS
<1>1. CASE UNCHANGED vars
  <2> USE <1>1 DEF vars
  <2>1. TypeOK' /\ LocksExclude'
    BY DEF IInv, TypeOK, LocksExclude
  <2>2. \A s \in Sessions, p \in Parents : ViewInv(s, p)'
    BY ViewUntouched
  <2>3. \A p \in Parents : RowInv(p)'
    BY DEF IInv, RowInv, Settled, InOrder, MayFail, Complete, Filled, RoundDone
  <2> QED
    BY <2>1, <2>2, <2>3 DEF IInv
<1>2. ASSUME NEW s \in Sessions, Statement(s) PROVE IInv'
  <2>1. ASSUME NEW p \in Parents,
               \/ InsertParent(s, p) \/ DeleteParent(s, p) \/ Seal(s, p) \/ Claim(s, p)
               \/ AdvanceRound(s, p) \/ Succeed(s, p) \/ Fail(s, p)
        PROVE  IInv'
    BY <2>1, InsertParentStep, DeleteParentStep, SealStep, ClaimStep, AdvanceRoundStep,
       SucceedStep, FailStep
  <2>2. ASSUME NEW p \in Parents, NEW c \in Child, InsertChild(s, p, c) PROVE IInv'
    BY <2>2, InsertChildStep
  <2>3. ASSUME NEW p \in Parents, NEW c \in SeenKids(s, p), DeleteChild(s, p, c) PROVE IInv'
    BY <2>3, DeleteChildStep
  <2>4. ASSUME NEW p \in Parents, NEW c \in SeenKids(s, p), NEW q \in Parents,
               NEW d \in Child, MoveChild(s, p, q, c, d)
        PROVE  IInv'
    BY <2>4, MoveChildStep
  <2> QED
    BY <1>2, <2>1, <2>2, <2>3, <2>4 DEF Statement
<1>3. ASSUME NEW s \in Sessions, Commit(s) PROVE IInv'
  BY <1>3, CommitStep
<1>4. ASSUME NEW s \in Sessions, Rollback(s) PROVE IInv'
  BY <1>4, RollbackStep
<1> QED
  BY <1>1, <1>2, <1>3, <1>4 DEF Next

(* The triggers keep every view of every session settled and in order,     *)
(* whatever statements the sessions run.                                   *)
THEOREM Invariant == Spec => []IInv
<1>1. Init => IInv
  BY InitInv
<1>2. IInv /\ [Next]_vars => IInv'
  BY StepInv
<1> QED
  BY <1>1, <1>2, PTL DEF Spec

-------------------------------------------------------------------------------
(* A sealed or succeeded parent has its full set of children, in every     *)
(* family whose trigger looks at the parent a child leaves.                *)
THEOREM ClosedStaysComplete == Spec => []ClosedIsComplete
<1>1. IInv => ClosedIsComplete
  BY DEF IInv, RowInv, Settled, ClosedIsComplete
<1> QED
  BY <1>1, Invariant, PTL

(* Every round a semantic trial has counted holds its events, none is more *)
(* than one round ahead.                                                   *)
THEOREM RoundsStayInOrder == Spec => []RoundsInOrder
<1>1. IInv => RoundsInOrder
  BY DEF IInv, RowInv, InOrder, RoundsInOrder
<1> QED
  BY <1>1, Invariant, PTL

(* A survey trial with answers never fails.                                *)
THEOREM FailedStaysEmpty == Spec => []FailedIsEmpty
<1>1. IInv => FailedIsEmpty
  <2> SUFFICES ASSUME IInv, table.failing = "empty", NEW p \in Parents,
                      row[p].phase = "failed"
               PROVE  kids[p] = {}
    BY DEF FailedIsEmpty
  <2>1. table.move = "refused"
    BY EmptyTables DEF IInv, TypeOK
  <2> QED
    BY <2>1 DEF IInv, RowInv, Settled, MayFail
<1> QED
  BY <1>1, Invariant, PTL

(* No statement, commit or roll back of any session changes a parent that  *)
(* is sealed, succeeded or failed, or a child below it.                    *)
THEOREM ClosedStaysFrozen == Spec => ClosedIsFrozen
<1> DEFINE Frozen == \A p \in Parents :
                       row[p].phase \in Final =>
                         /\ row'[p] = row[p]
                         /\ kids'[p] \subseteq kids[p]
                         /\ table.move # "new" => kids'[p] = kids[p]
<1>1. ASSUME IInv, NEW s \in Sessions, Commit(s) PROVE Frozen
  <2> SUFFICES ASSUME NEW p \in Parents, row[p].phase \in Final
               PROVE  /\ row'[p] = row[p]
                      /\ kids'[p] \subseteq kids[p]
                      /\ table.move # "new" => kids'[p] = kids[p]
    OBVIOUS
  <2>1. ViewInv(s, p) /\ table.life \in {"sheet", "job", "ledger"}
    BY <1>1, SeenTyped DEF IInv, TableType
  <2>2. row[p].phase # Writable[table.life]
    BY <2>1, WritableIsOpen
  <2>3. own[s][p] = Same /\ put[s][p] = {} /\ (table.move # "new" => cut[s][p] = {})
    BY <2>1, <2>2 DEF ViewInv, StillOpen
  <2>4. row'[p] = Seen(s, p) /\ kids'[p] = SeenKids(s, p)
    BY <1>1 DEF Commit
  <2> QED
    BY <2>3, <2>4 DEF Seen, SeenKids
<1>2. ASSUME NEW s \in Sessions, Statement(s) PROVE row' = row /\ kids' = kids
  <2>1. ASSUME NEW p \in Parents,
               \/ InsertParent(s, p) \/ DeleteParent(s, p) \/ Seal(s, p) \/ Claim(s, p)
               \/ AdvanceRound(s, p) \/ Succeed(s, p) \/ Fail(s, p)
        PROVE  row' = row /\ kids' = kids
    BY <2>1 DEF InsertParent, DeleteParent, Seal, Claim, AdvanceRound, Succeed, Fail, Become
  <2>2. ASSUME NEW p \in Parents, NEW c, InsertChild(s, p, c)
        PROVE  row' = row /\ kids' = kids
    BY <2>2 DEF InsertChild
  <2>3. ASSUME NEW p \in Parents, NEW q \in Parents, NEW c, NEW d,
               DeleteChild(s, p, c) \/ MoveChild(s, p, q, c, d)
        PROVE  row' = row /\ kids' = kids
    BY <2>3 DEF DeleteChild, MoveChild
  <2> QED
    BY <1>2, <2>1, <2>2, <2>3 DEF Statement
<1>3. ASSUME NEW s \in Sessions, Rollback(s) PROVE row' = row /\ kids' = kids
  BY <1>3 DEF Rollback
<1>4. IInv /\ [Next]_vars => [Frozen]_vars
  BY <1>1, <1>2, <1>3 DEF Next
<1> QED
  BY <1>4, Invariant, PTL DEF Spec, ClosedIsFrozen

===============================================================================
