--------------------------- MODULE MediaLibraryProofs ---------------------------
(***************************************************************************)
(* What holds of any number of syncs, collectors, captures and articles:   *)
(* that IInv is inductive, and what follows from it.                       *)
(***************************************************************************)
EXTENDS MediaLibrary, TLAPS

(* Steps that neither write nor plan to: they move one actor outside its   *)
(* transaction.                                                            *)
Sheltered == {"snapped", "upserting", "reconciling", "fetched", "storing", "waiting",
              "locking", "reading"}

Quiet(a) ==
  /\ UNCHANGED <<table, task, clock, observed, content>>
  /\ at[a] \notin Sheltered
  /\ \E p \in SyncPlaces \cup CollectorPlaces \cup CapturePlaces :
       p \notin Sheltered /\ Goes(a, p)

(* Steps that end a transaction without a trace.                           *)
Outside(a) ==
  IF a \in Syncs THEN Failures \cup {"stopped"}
  ELSE IF a \in Collectors THEN {"dead"} ELSE {"frozen", "refused"}

Finishes(a) ==
  /\ at[a] \notin {"idle", "stopped"}
  /\ RollBack(a) /\ UNCHANGED <<world, ledger, run>>
  /\ LetGo(a) \/ (a \notin Captures /\ UNCHANGED holder)
  /\ \E p \in Outside(a) : Goes(a, p)

(* All other steps.                                                        *)
Flat ==
  \/ \E a \in Actors : Finishes(a)
  \/ Edit
  \/ \E s \in Syncs :
       \/ Begin(s) \/ SkipConcurrent(s) \/ Open(s) \/ OpenRefused(s) \/ RecordFailure(s)
       \/ Unrecorded(s) \/ Release(s) \/ Restart(s)
       \/ TakeSnapshot(s) \/ ImportSources(s) \/ Reconcile(s)
       \/ Publish(s) \/ PublishUnheard(s)
       \/ \E u \in Urls : Upsert(s, u) \/ Hide(s, u)
  \/ \E c \in Collectors :
       \/ Start(c) \/ FetchFails(c) \/ Revive(c) \/ Fetch(c) \/ Look(c) \/ Settle(c)
       \/ \E u \in Urls : Store(c, u)
  \/ \E k \in Captures :
       \/ Ask(k) \/ Grant(k)
       \/ \E u \in Urls : LockArticle(k, u)
       \/ \E r \in Sources : LockSource(k, r)

-------------------------------------------------------------------------------
(* Every step of the specification is one of these.                        *)
LEMMA Cycles ==
  ASSUME NEW a \in Actors, Deadlocked(a)
  PROVE  at[a] \in Sheltered
<1>1. Waits(a) # {}
  BY {} \in SUBSET (Actors \ {a}) DEF Deadlocked
<1> QED
  BY <1>1 DEF Waits, Sheltered

LEMMA Steps ==
  ASSUME TypeOK, Next
  PROVE  Flat
<1> USE MediaAssumption DEF Actors
<1>1. ASSUME NEW s \in Syncs, SyncStep(s) PROVE Flat
  <2>1. ASSUME NEW u \in Urls, UpsertTwin(s, u) \/ HideRefused(s, u) PROVE Finishes(s)
    BY <2>1 DEF UpsertTwin, HideRefused, Aborts, Finishes, Outside, Failures
  <2>2. ASSUME AbortSync(s) PROVE Finishes(s)
    BY <2>2, Cycles DEF AbortSync, Aborts, Finishes, Outside, Failures,
      Sheltered
  <2>3. FailureTooLate(s) => Unrecorded(s)
    BY DEF FailureTooLate
  <2> QED
    BY <1>1, <2>1, <2>2, <2>3 DEF SyncStep, Flat
<1>2. ASSUME NEW c \in Collectors, CollectorStep(c) PROVE Flat
  <2>1. ASSUME NEW u \in Urls, StoreTwin(c, u) PROVE Finishes(c)
    BY <2>1 DEF StoreTwin, Dies, Finishes, Outside
  <2>2. ASSUME AbortCollector(c) PROVE Finishes(c)
    BY <2>2, Cycles DEF AbortCollector, Dies, Finishes, Outside, Sheltered
  <2> QED
    BY <1>2, <2>1, <2>2 DEF CollectorStep, Flat
<1>3. ASSUME NEW k \in Captures, CaptureStep(k) PROVE Flat
  <2>1. ASSUME NEW u \in Urls, Missing(k, u) PROVE Finishes(k)
    BY <2>1 DEF Missing, Answers, Finishes, Outside
  <2>2. ASSUME Freeze(k) \/ Conflict(k) PROVE Finishes(k)
    BY <2>2 DEF Freeze, Conflict, Answers, Finishes, Outside
  <2>3. ASSUME AbortCapture(k) PROVE Finishes(k)
    BY <2>3, Cycles DEF AbortCapture, Answers, Finishes, Outside, Sheltered
  <2> QED
    BY <1>3, <2>1, <2>2, <2>3 DEF CaptureStep, Flat
<1>4. ASSUME Beginning PROVE Flat
  BY <1>4 DEF Beginning, Flat
<1>5. ASSUME Fault PROVE Flat
  <2>1. ASSUME NEW s \in Syncs, Fail(s) \/ Lose(s) \/ Kill(s) PROVE Finishes(s)
    BY <2>1 DEF Fail, Lose, Kill, Aborts, Finishes, Outside, Importing,
      Failures
  <2>2. ASSUME NEW c \in Collectors, KillCollector(c) PROVE Finishes(c)
    BY <2>2 DEF KillCollector, Dies, Finishes, Outside
  <2>3. ASSUME NEW k \in Captures, Disconnect(k) PROVE Finishes(k)
    BY <2>3 DEF Disconnect, Answers, Finishes, Outside
  <2> QED
    BY <1>5, <2>1, <2>2, <2>3 DEF Fault, Flat
<1> QED
  BY <1>1, <1>2, <1>3, <1>4, <1>5 DEF Next

LEMMA QuietSteps ==
  ASSUME TypeOK
  PROVE  /\ \A s \in Syncs :
              Begin(s) \/ SkipConcurrent(s) \/ Open(s) \/ OpenRefused(s) \/ RecordFailure(s)
                \/ Unrecorded(s) \/ Release(s) \/ Restart(s) => Quiet(s)
         /\ \A c \in Collectors : Start(c) \/ FetchFails(c) \/ Revive(c) => Quiet(c)
<1> USE DEF Quiet, Sheltered, SyncPlaces, CollectorPlaces, CapturePlaces,
  Importing, Failures,
            world, ledger
<1>1. ASSUME NEW s \in Syncs, Begin(s) PROVE Quiet(s)
  BY <1>1 DEF Begin
<1>2. ASSUME NEW s \in Syncs, SkipConcurrent(s) PROVE Quiet(s)
  BY <1>2 DEF SkipConcurrent
<1>3. ASSUME NEW s \in Syncs, Open(s) PROVE Quiet(s)
  BY <1>3 DEF Open
<1>4. ASSUME NEW s \in Syncs, OpenRefused(s) PROVE Quiet(s)
  BY <1>4 DEF OpenRefused
<1>5. ASSUME NEW s \in Syncs, RecordFailure(s) PROVE Quiet(s)
  BY <1>5 DEF RecordFailure
<1>6. ASSUME NEW s \in Syncs, Unrecorded(s) PROVE Quiet(s)
  BY <1>6 DEF Unrecorded
<1>7. ASSUME NEW s \in Syncs, Release(s) PROVE Quiet(s)
  BY <1>7 DEF Release
<1>8. ASSUME NEW s \in Syncs, Restart(s) PROVE Quiet(s)
  BY <1>8 DEF Restart
<1>9. ASSUME NEW c \in Collectors, Start(c) PROVE Quiet(c)
  BY <1>9 DEF Start
<1>10. ASSUME NEW c \in Collectors, FetchFails(c) PROVE Quiet(c)
  BY <1>10 DEF FetchFails
<1>11. ASSUME NEW c \in Collectors, Revive(c) PROVE Quiet(c)
  BY <1>11 DEF Revive
<1> QED
  BY <1>1, <1>2, <1>3, <1>4, <1>5, <1>6, <1>7, <1>8, <1>9, <1>10, <1>11

LEMMA TaskType ==
  ASSUME TypeOK, NEW a \in Actors
  PROVE  /\ task[a] = [snap |-> task[a].snap, stamp |-> task[a].stamp,
                       todo |-> task[a].todo, known |-> task[a].known]
         /\ task[a].snap \in [Urls -> Entry] /\ task[a].stamp \in Nat
         /\ task[a].todo \in SUBSET Urls /\ task[a].known \in SUBSET Urls
         /\ \A u \in Urls : task[a].snap[u].id \in Nat /\ task[a].snap[u].rev \in Nat
  BY DEF TypeOK, Task, Entry

LEMMA RowType ==
  ASSUME TypeOK, NEW u \in Urls
  PROVE  /\ shelf[u].id \in Nat /\ shelf[u].rev \in Nat /\ shelf[u].present \in BOOLEAN
         /\ shelf[u].seen \in Nat /\ shelf[u].absent \in Nat
         /\ draft[u].id \in Nat /\ draft[u].rev \in Nat /\ draft[u].present \in BOOLEAN
         /\ draft[u].seen \in Nat /\ draft[u].absent \in Nat
         /\ shelf[u].source \in Sources /\ draft[u].source \in Sources
  BY DEF TypeOK, Article

LEMMA Constants ==
  /\ Gone \in Entry /\ NoRow \in Article /\ Nothing \in [Urls -> Entry] /\ NoTask \in Task
  /\ Gone.id = 0 /\ Gone.rev = 0 /\ ~NoRow.present /\ NoRow.seen = 0 /\ NoRow.absent = 0
  /\ Urls \subseteq Rows /\ Sources \subseteq Rows /\ Rows = Urls \cup Sources
  /\ Src \in Sources /\ Sources \cap Urls = {} /\ \A c \in Collectors : Site[c] \in Sources
<1>1. Src \in Sources /\ Sources \cap Urls = {} /\ \A c \in Collectors : Site[c] \in Sources
  BY MediaAssumption DEF Sources
<1> QED
  BY <1>1 DEF Gone, Entry, NoRow, Article, Nothing, NoTask, Task, Rows

(* Where an actor may go.                                                  *)
LEMMA GoesType ==
  ASSUME TypeOK, NEW a \in Actors, NEW p,
         \/ a \in Syncs /\ p \in SyncPlaces
         \/ a \in Collectors /\ p \in CollectorPlaces
         \/ a \in Captures /\ p \in CapturePlaces,
         Goes(a, p)
  PROVE  /\ at' \in [Actors -> SyncPlaces \cup CollectorPlaces \cup CapturePlaces]
         /\ \A s \in Syncs : at'[s] \in SyncPlaces
         /\ \A c \in Collectors : at'[c] \in CollectorPlaces
         /\ \A k \in Captures : at'[k] \in CapturePlaces
         /\ at'[a] = p /\ \A b \in Actors \ {a} : at'[b] = at[b]
  BY MediaAssumption DEF TypeOK, Goes, Actors

LEMMA PlanType ==
  ASSUME TypeOK, NEW a \in Actors, NEW entries \in [Urls -> Entry], NEW time
    \in Nat,
         NEW urls \in SUBSET Urls, Plan(a, entries, time, urls)
  PROVE  /\ task' \in [Actors -> Task]
         /\ task'[a] = [snap |-> entries, stamp |-> time, todo |-> urls, known |-> {}]
         /\ \A b \in Actors \ {a} : task'[b] = task[b]
  BY DEF TypeOK, Plan, Task

LEMMA ProceedType ==
  ASSUME TypeOK, NEW a \in Actors, NEW urls \in SUBSET Urls, NEW there \in
    SUBSET Urls,
         Proceed(a, urls, there)
  PROVE  /\ task' \in [Actors -> Task]
         /\ task'[a].snap = task[a].snap /\ task'[a].stamp = task[a].stamp
         /\ task'[a].todo = urls /\ task'[a].known = there
         /\ \A b \in Actors \ {a} : task'[b] = task[b]
  BY TaskType DEF TypeOK, Proceed, Task

LEMMA WriteType ==
  ASSUME TypeOK, NEW a \in Actors, NEW u \in Urls, NEW row \in Article,
    Write(a, u, row)
  PROVE  /\ task' \in [Actors -> Task]
         /\ task'[a].snap = task[a].snap /\ task'[a].stamp = task[a].stamp
         /\ task'[a].todo = task[a].todo \ {u} /\ task'[a].known = task[a].known
         /\ \A b \in Actors \ {a} : task'[b] = task[b]
         /\ owner' \in [Rows -> Actors \cup {Nobody}] /\ draft' \in [Urls -> Article]
         /\ owner'[u] = a /\ draft'[u] = row
         /\ \A r \in Rows \ {u} : owner'[r] = owner[r]
         /\ \A v \in Urls \ {u} : draft'[v] = draft[v]
<1>1. Proceed(a, task[a].todo \ {u}, task[a].known)
  BY DEF Write
<1>2. task[a].todo \ {u} \in SUBSET Urls /\ task[a].known \in SUBSET Urls
  BY TaskType
<1>3. u \in Rows
  BY DEF Rows
<1>4. /\ owner' = [owner EXCEPT ![u] = a] /\ draft' = [draft EXCEPT ![u] = row]
      /\ owner \in [Rows -> Actors \cup {Nobody}] /\ draft \in [Urls -> Article]
  BY DEF Write, TypeOK
<1> QED
  BY <1>1, <1>2, <1>3, <1>4, ProceedType

LEMMA CloseType ==
  ASSUME TypeOK, NEW a \in Actors, Close(a)
  PROVE  /\ task' \in [Actors -> Task] /\ task'[a] = NoTask
         /\ \A b \in Actors \ {a} : task'[b] = task[b]
         /\ owner' \in [Rows -> Actors \cup {Nobody}] /\ draft' \in [Urls -> Article]
         /\ \A r \in Rows : owner'[r] = IF owner[r] = a THEN Nobody ELSE owner[r]
         /\ \A u \in Urls : draft'[u] = IF owner[u] = a THEN NoRow ELSE draft[u]
         /\ sharing' = sharing \ {a}
<1>1. /\ task' = [task EXCEPT ![a] = NoTask] /\ task \in [Actors -> Task]
      /\ draft' = [u \in Urls |-> IF owner[u] = a THEN NoRow ELSE draft[u]]
      /\ draft \in [Urls -> Article] /\ owner \in [Rows -> Actors \cup {Nobody}]
      /\ owner' = [r \in Rows |-> IF owner[r] = a THEN Nobody ELSE owner[r]]
      /\ sharing' = sharing \ {a}
  BY DEF TypeOK, Close, Freed
<1> QED
  BY <1>1, Constants

(* Steps whose types need no lemma.                                        *)
LEMMA EasyTypes ==
  ASSUME TypeOK, faults' \in Nat
  PROVE  /\ \A s \in Syncs :
              SkipConcurrent(s) \/ Open(s) \/ OpenRefused(s)
                \/ RecordFailure(s) \/ Unrecorded(s) \/ Release(s) \/ Restart(s) => TypeOK'
         /\ \A c \in Collectors :
              Start(c) \/ FetchFails(c) \/ Revive(c) => TypeOK'
         /\ \A k \in Captures :
              Grant(k) => TypeOK'
<1> USE MediaAssumption, Constants DEF TypeOK, Goes, table, world, ledger,
  Actors, Rows, Runs, Statuses, SyncPlaces, CollectorPlaces, CapturePlaces,
  Importing, Failures
<1>1. ASSUME NEW s \in Syncs, SkipConcurrent(s) PROVE TypeOK'
  BY <1>1 DEF SkipConcurrent
<1>2. ASSUME NEW s \in Syncs, Open(s) PROVE TypeOK'
  BY <1>2 DEF Open, StaleRuns, LockIsFree
<1>3. ASSUME NEW s \in Syncs, OpenRefused(s) PROVE TypeOK'
  BY <1>3 DEF OpenRefused, LockIsFree
<1>4. ASSUME NEW s \in Syncs, RecordFailure(s) PROVE TypeOK'
  BY <1>4 DEF RecordFailure, StillRunning
<1>5. ASSUME NEW s \in Syncs, Unrecorded(s) PROVE TypeOK'
  BY <1>5 DEF Unrecorded
<1>6. ASSUME NEW s \in Syncs, Release(s) PROVE TypeOK'
  BY <1>6 DEF Release, LetGo
<1>7. ASSUME NEW s \in Syncs, Restart(s) PROVE TypeOK'
  BY <1>7 DEF Restart
<1>8. ASSUME NEW c \in Collectors, Start(c) PROVE TypeOK'
  BY <1>8 DEF Start, Free
<1>9. ASSUME NEW c \in Collectors, FetchFails(c) PROVE TypeOK'
  BY <1>9 DEF FetchFails, Free
<1>10. ASSUME NEW c \in Collectors, Revive(c) PROVE TypeOK'
  BY <1>10 DEF Revive
<1>11. ASSUME NEW k \in Captures, Grant(k) PROVE TypeOK'
  BY <1>11 DEF Grant, MayGrant
<1> QED
  BY <1>1, <1>2, <1>3, <1>4, <1>5, <1>6, <1>7, <1>8, <1>9, <1>10, <1>11

(* Types.                                                                  *)
LEMMA TypeStep ==
  ASSUME TypeOK, faults' \in Nat, Flat
  PROVE  TypeOK'
<1>1. ASSUME NEW a \in Actors, Finishes(a)
      PROVE  TypeOK'
  <2>1. PICK p \in Outside(a) : Goes(a, p)
    BY <1>1 DEF Finishes
  <2>2. \/ a \in Syncs /\ p \in SyncPlaces
        \/ a \in Collectors /\ p \in CollectorPlaces
        \/ a \in Captures /\ p \in CapturePlaces
    BY <2>1 DEF Outside, SyncPlaces, CollectorPlaces, CapturePlaces, Actors
  <2>3. Close(a) /\ shelf' = shelf
    BY <1>1 DEF Finishes, RollBack
  <2>4. holder' \in Syncs \cup Captures \cup {Nobody}
    BY <1>1 DEF Finishes, LetGo, TypeOK
  <2> QED
    BY <1>1, <2>1, <2>2, <2>3, <2>4, CloseType, GoesType DEF Finishes, TypeOK,
      world, ledger
<1>2. CASE Edit
  <2>1. PICK u \in Urls :
          \/ agenda' = [agenda EXCEPT ![u] =
                          [id  |-> IF agenda[u] = Gone THEN edits + 3 ELSE agenda[u].id,
                           rev |-> edits + 3]]
          \/ agenda' = [agenda EXCEPT ![u] = Gone]
    BY <1>2 DEF Edit
  <2>2. agenda[u].id \in Nat /\ edits + 3 \in Nat
    BY DEF TypeOK, Entry
  <2>3. [id  |-> IF agenda[u] = Gone THEN edits + 3 ELSE agenda[u].id, rev |-> edits + 3]
          \in Entry
    BY <2>2 DEF Entry
  <2>4. agenda' \in [Urls -> Entry]
    BY <2>1, <2>3, Constants DEF TypeOK
  <2> QED
    BY <1>2, <2>4 DEF Edit, TypeOK, table, ledger
<1>3. ASSUME NEW s \in Syncs, Begin(s)
      PROVE  TypeOK'
  <2>1. born + 1 \in 0..MaxRuns /\ born' = born + 1
    BY <1>3, MediaAssumption DEF Begin, TypeOK
  <2>2. run' \in [Syncs -> 0..born']
    BY <1>3, <2>1, MediaAssumption DEF Begin, TypeOK
  <2>3. Goes(s, "asking") /\ "asking" \in SyncPlaces
    BY <1>3 DEF Begin, SyncPlaces
  <2> QED
    BY <1>3, <2>1, <2>2, <2>3, GoesType DEF Begin, TypeOK, Actors, world,
      table
<1>4. ASSUME NEW s \in Syncs, SkipConcurrent(s)
      PROVE  TypeOK'
  BY <1>4, EasyTypes
<1>5. ASSUME NEW s \in Syncs, Open(s)
      PROVE  TypeOK'
  BY <1>5, EasyTypes
<1>6. ASSUME NEW s \in Syncs, OpenRefused(s)
      PROVE  TypeOK'
  BY <1>6, EasyTypes
<1>7. ASSUME NEW s \in Syncs, RecordFailure(s)
      PROVE  TypeOK'
  BY <1>7, EasyTypes
<1>8. ASSUME NEW s \in Syncs, Unrecorded(s)
      PROVE  TypeOK'
  BY <1>8, EasyTypes
<1>9. ASSUME NEW s \in Syncs, Release(s)
      PROVE  TypeOK'
  BY <1>9, EasyTypes
<1>10. ASSUME NEW s \in Syncs, Restart(s)
      PROVE  TypeOK'
  BY <1>10, EasyTypes
<1>11. ASSUME NEW s \in Syncs, TakeSnapshot(s)
      PROVE  TypeOK'
  <2>1. Plan(s, agenda, clock + 1, {u \in Urls : agenda[u] # Gone})
    BY <1>11 DEF TakeSnapshot
  <2>2. /\ agenda \in [Urls -> Entry] /\ clock + 1 \in Nat
        /\ {u \in Urls : agenda[u] # Gone} \in SUBSET Urls
    BY DEF TypeOK
  <2>3. task' \in [Actors -> Task]
    BY <2>1, <2>2, PlanType DEF Actors
  <2>4. Goes(s, "snapped") /\ "snapped" \in SyncPlaces
    BY <1>11 DEF TakeSnapshot, SyncPlaces, Importing
  <2> QED
    BY <1>11, <2>2, <2>3, <2>4, GoesType DEF TakeSnapshot, TypeOK, Actors,
      table, ledger
<1>12. ASSUME NEW s \in Syncs, ImportSources(s)
      PROVE  TypeOK'
  <2>1. owner' \in [Rows -> Actors \cup {Nobody}]
    BY <1>12, Constants DEF ImportSources, TypeOK, Actors
  <2>2. Goes(s, "upserting") /\ "upserting" \in SyncPlaces
    BY <1>12 DEF ImportSources, SyncPlaces, Importing
  <2> QED
    BY <1>12, <2>1, <2>2, GoesType DEF ImportSources, TypeOK, Actors, world,
      ledger
<1>13. ASSUME NEW s \in Syncs, Reconcile(s)
      PROVE  TypeOK'
  <2>1. Absent(s) \in SUBSET Urls /\ {} \in SUBSET Urls
    BY DEF Absent
  <2>2. task' \in [Actors -> Task]
    BY <1>13, <2>1, ProceedType DEF Reconcile, Actors
  <2>3. Goes(s, "reconciling") /\ "reconciling" \in SyncPlaces
    BY <1>13 DEF Reconcile, SyncPlaces, Importing
  <2> QED
    BY <1>13, <2>2, <2>3, GoesType DEF Reconcile, TypeOK, Actors, world,
      table, ledger
<1>14. ASSUME NEW s \in Syncs, Publish(s)
      PROVE  TypeOK'
  <2>1. Close(s) /\ shelf' \in [Urls -> Article]
    BY <1>14 DEF Publish, Succeeds, Commit, Visible, TypeOK
  <2>2. /\ runs' \in [Runs -> Statuses] /\ observed' \in [Runs -> Nat]
        /\ content' \in [Urls -> Entry]
    BY <1>14, TaskType DEF Publish, Succeeds, TypeOK, Statuses, Actors
  <2>3. Goes(s, "releasing") /\ "releasing" \in SyncPlaces
    BY <1>14 DEF Publish, SyncPlaces
  <2> QED
    BY <1>14, <2>1, <2>2, <2>3, CloseType, GoesType DEF Publish, Succeeds,
      TypeOK, Actors, world
<1>15. ASSUME NEW s \in Syncs, PublishUnheard(s)
      PROVE  TypeOK'
  <2>1. Close(s) /\ shelf' \in [Urls -> Article]
    BY <1>15 DEF PublishUnheard, Succeeds, Commit, Visible, TypeOK
  <2>2. /\ runs' \in [Runs -> Statuses] /\ observed' \in [Runs -> Nat]
        /\ content' \in [Urls -> Entry]
    BY <1>15, TaskType DEF PublishUnheard, Succeeds, TypeOK, Statuses, Actors
  <2>3. Goes(s, "failing") /\ "failing" \in SyncPlaces
    BY <1>15 DEF PublishUnheard, SyncPlaces, Failures
  <2> QED
    BY <1>15, <2>1, <2>2, <2>3, CloseType, GoesType
    DEF PublishUnheard, Succeeds, TypeOK, Actors, world, LetGo
<1>16. ASSUME NEW s \in Syncs, NEW u \in Urls, Upsert(s, u)
      PROVE  TypeOK'
  <2>1. Upserted(s, u) \in Article
    BY TaskType, Constants DEF Upserted, Article, Actors
  <2> QED
    BY <1>16, <2>1, WriteType DEF Upsert, TypeOK, Actors, world, ledger
<1>17. ASSUME NEW s \in Syncs, NEW u \in Urls, Hide(s, u)
      PROVE  TypeOK'
  <2>1. [id |-> shelf[u].id, rev |-> shelf[u].rev, present |-> FALSE,
         seen |-> shelf[u].seen, absent |-> task[s].stamp,
         source |-> shelf[u].source] \in Article
    BY TaskType, RowType DEF Article, Actors
  <2> QED
    BY <1>17, <2>1, WriteType DEF Hide, TypeOK, Actors, world, ledger
<1>18. ASSUME NEW c \in Collectors, Start(c)
      PROVE  TypeOK'
  BY <1>18, EasyTypes
<1>19. ASSUME NEW c \in Collectors, FetchFails(c)
      PROVE  TypeOK'
  BY <1>19, EasyTypes
<1>20. ASSUME NEW c \in Collectors, Revive(c)
      PROVE  TypeOK'
  BY <1>20, EasyTypes
<1>21. ASSUME NEW c \in Collectors, Fetch(c)
      PROVE  TypeOK'
  <2>1. PICK batch \in SUBSET Urls : Plan(c, Nothing, clock + 1, batch)
    BY <1>21 DEF Fetch
  <2>2. clock + 1 \in Nat
    BY DEF TypeOK
  <2>3. task' \in [Actors -> Task]
    BY <2>1, <2>2, PlanType, Constants DEF Actors
  <2>4. Goes(c, "fetched") /\ "fetched" \in CollectorPlaces
    BY <1>21 DEF Fetch, CollectorPlaces
  <2> QED
    BY <1>21, <2>2, <2>3, <2>4, GoesType DEF Fetch, TypeOK, Actors, table,
      ledger
<1>22. ASSUME NEW c \in Collectors, Look(c)
      PROVE  TypeOK'
  <2>1. /\ {u \in task[c].todo : shelf[u] # NoRow} \in SUBSET Urls
        /\ task[c].todo \in SUBSET Urls
    BY TaskType DEF Actors
  <2>2. task' \in [Actors -> Task]
    BY <1>22, <2>1, ProceedType DEF Look, Actors
  <2>3. Goes(c, "storing") /\ "storing" \in CollectorPlaces
    BY <1>22 DEF Look, CollectorPlaces
  <2> QED
    BY <1>22, <2>2, <2>3, GoesType DEF Look, TypeOK, Actors, world, table,
      ledger
<1>23. ASSUME NEW c \in Collectors, Settle(c)
      PROVE  TypeOK'
  <2>1. Close(c) /\ shelf' \in [Urls -> Article]
    BY <1>23 DEF Settle, Commit, Visible, TypeOK
  <2>2. Goes(c, "idle") /\ "idle" \in CollectorPlaces
    BY <1>23 DEF Settle, CollectorPlaces
  <2> QED
    BY <1>23, <2>1, <2>2, CloseType, GoesType DEF Settle, TypeOK, Actors,
      world, ledger
<1>24. ASSUME NEW c \in Collectors, NEW u \in Urls, Store(c, u)
      PROVE  TypeOK'
  <2>1. Found(c, u) \in Article
    BY TaskType, RowType, Constants DEF Found, Native, Article, Actors
  <2> QED
    BY <1>24, <2>1, WriteType DEF Store, TypeOK, Actors, world, ledger
<1>25. ASSUME NEW k \in Captures, Ask(k)
      PROVE  TypeOK'
  <2>1. PICK U \in SUBSET Urls :
          Plan(k, [u \in Urls |-> IF u \in U THEN [id |-> shelf[u].id, rev |-> shelf[u].rev]
                                          ELSE Gone], 0, U)
    BY <1>25 DEF Ask
  <2>2. [u \in Urls |-> IF u \in U THEN [id |-> shelf[u].id, rev |-> shelf[u].rev] ELSE Gone]
          \in [Urls -> Entry]
    BY RowType, Constants DEF Entry
  <2>3. task' \in [Actors -> Task]
    BY <2>1, <2>2, PlanType DEF Actors
  <2>4. Goes(k, "waiting") /\ "waiting" \in CapturePlaces
    BY <1>25 DEF Ask, CapturePlaces
  <2> QED
    BY <1>25, <2>3, <2>4, GoesType DEF Ask, TypeOK, Actors, world, table,
      ledger
<1>26. ASSUME NEW k \in Captures, Grant(k)
      PROVE  TypeOK'
  BY <1>26, EasyTypes
<1>27. ASSUME NEW k \in Captures, NEW r \in Sources, LockSource(k, r)
      PROVE  TypeOK'
  <2>1. owner' \in [Rows -> Actors \cup {Nobody}]
    BY <1>27, Constants DEF LockSource, TypeOK, Actors
  <2>2. PICK p \in {"locking", "reading"} : Goes(k, p)
    BY <1>27 DEF LockSource
  <2>3. p \in CapturePlaces
    BY DEF CapturePlaces
  <2> QED
    BY <1>27, <2>1, <2>2, <2>3, GoesType DEF LockSource, TypeOK, Actors,
      world, ledger
<1>28. ASSUME NEW k \in Captures, NEW u \in Urls, LockArticle(k, u)
      PROVE  TypeOK'
  <2>1. shelf[u] \in Article
    BY DEF TypeOK
  <2> QED
    BY <1>28, <2>1, WriteType DEF LockArticle, TypeOK, Actors, world, ledger
<1> QED
  BY <1>1, <1>2, <1>3, <1>4, <1>5, <1>6, <1>7, <1>8, <1>9, <1>10, <1>11,
    <1>12, <1>13, <1>14, <1>15, <1>16, <1>17, <1>18, <1>19, <1>20, <1>21,
    <1>22, <1>23, <1>24, <1>25, <1>26, <1>27, <1>28 DEF Flat, Actors

(* Locks.                                                                  *)
LEMMA DisciplineStep ==
  ASSUME TypeOK, Discipline, Flat
  PROVE  Discipline'
<1> USE MediaAssumption DEF Discipline, TypeOK, Goes, table, world, ledger,
  Actors, Rows, SyncPlaces, CollectorPlaces, CapturePlaces, Importing,
  Failures
<1>1. ASSUME NEW a \in Actors, Finishes(a)
      PROVE  Discipline'
  BY <1>1 DEF Finishes, Outside, RollBack, Close, Freed, LetGo
<1>2. CASE Edit
  BY <1>2 DEF Edit
<1>3. ASSUME NEW s \in Syncs, Begin(s)
      PROVE  Discipline'
  BY <1>3 DEF Begin
<1>4. ASSUME NEW s \in Syncs, SkipConcurrent(s)
      PROVE  Discipline'
  BY <1>4 DEF SkipConcurrent
<1>5. ASSUME NEW s \in Syncs, Open(s)
      PROVE  Discipline'
  BY <1>5 DEF Open, StaleRuns, LockIsFree
<1>6. ASSUME NEW s \in Syncs, OpenRefused(s)
      PROVE  Discipline'
  BY <1>6 DEF OpenRefused, LockIsFree
<1>7. ASSUME NEW s \in Syncs, RecordFailure(s)
      PROVE  Discipline'
  BY <1>7 DEF RecordFailure, StillRunning
<1>8. ASSUME NEW s \in Syncs, Unrecorded(s)
      PROVE  Discipline'
  BY <1>8 DEF Unrecorded
<1>9. ASSUME NEW s \in Syncs, Release(s)
      PROVE  Discipline'
  BY <1>9 DEF Release, LetGo
<1>10. ASSUME NEW s \in Syncs, Restart(s)
      PROVE  Discipline'
  BY <1>10 DEF Restart
<1>11. ASSUME NEW s \in Syncs, TakeSnapshot(s)
      PROVE  Discipline'
  BY <1>11 DEF TakeSnapshot, Plan
<1>12. ASSUME NEW s \in Syncs, ImportSources(s)
      PROVE  Discipline'
  BY <1>12 DEF ImportSources, Free
<1>13. ASSUME NEW s \in Syncs, Reconcile(s)
      PROVE  Discipline'
  BY <1>13 DEF Reconcile, Absent, Visible, Proceed
<1>14. ASSUME NEW s \in Syncs, Publish(s)
      PROVE  Discipline'
  BY <1>14 DEF Publish, Succeeds, Commit, Close, Freed, Visible
<1>15. ASSUME NEW s \in Syncs, PublishUnheard(s)
      PROVE  Discipline'
  BY <1>15 DEF PublishUnheard, Succeeds, Commit, Close, Freed, Visible, LetGo
<1>16. ASSUME NEW s \in Syncs, NEW u \in Urls, Upsert(s, u)
      PROVE  Discipline'
  BY <1>16 DEF Upsert, Write, Proceed, Todo, Free, Upserted
<1>17. ASSUME NEW s \in Syncs, NEW u \in Urls, Hide(s, u)
      PROVE  Discipline'
  BY <1>17 DEF Hide, Write, Proceed, Todo, Free, InTime
<1>18. ASSUME NEW c \in Collectors, Start(c)
      PROVE  Discipline'
  BY <1>18 DEF Start, Free
<1>19. ASSUME NEW c \in Collectors, FetchFails(c)
      PROVE  Discipline'
  BY <1>19 DEF FetchFails, Free
<1>20. ASSUME NEW c \in Collectors, Revive(c)
      PROVE  Discipline'
  BY <1>20 DEF Revive
<1>21. ASSUME NEW c \in Collectors, Fetch(c)
      PROVE  Discipline'
  BY <1>21 DEF Fetch, Plan
<1>22. ASSUME NEW c \in Collectors, Look(c)
      PROVE  Discipline'
  BY <1>22 DEF Look, Proceed
<1>23. ASSUME NEW c \in Collectors, Settle(c)
      PROVE  Discipline'
  BY <1>23 DEF Settle, Commit, Close, Freed, Visible, Free
<1>24. ASSUME NEW c \in Collectors, NEW u \in Urls, Store(c, u)
      PROVE  Discipline'
  BY <1>24 DEF Store, Write, Proceed, Found, BlockersAt, Owners
<1>25. ASSUME NEW k \in Captures, Ask(k)
      PROVE  Discipline'
  BY <1>25 DEF Ask, Plan
<1>26. ASSUME NEW k \in Captures, Grant(k)
      PROVE  Discipline'
  BY <1>26 DEF Grant, MayGrant
<1>27. ASSUME NEW k \in Captures, NEW r \in Sources, LockSource(k, r)
      PROVE  Discipline'
  BY <1>27 DEF LockSource, Free
<1>28. ASSUME NEW k \in Captures, NEW u \in Urls, LockArticle(k, u)
      PROVE  Discipline'
  BY <1>28 DEF LockArticle, Write, Proceed, Todo, Free
<1> QED
  BY <1>1, <1>2, <1>3, <1>4, <1>5, <1>6, <1>7, <1>8, <1>9, <1>10, <1>11,
    <1>12, <1>13, <1>14, <1>15, <1>16, <1>17, <1>18, <1>19, <1>20, <1>21,
    <1>22, <1>23, <1>24, <1>25, <1>26, <1>27, <1>28 DEF Flat

LEMMA NumberedOpen ==
  ASSUME TypeOK, Numbered, NEW s \in Syncs, Open(s)
  PROVE  Numbered'
<1>1. run[s] # 0 /\ run[s] \in Runs /\ runs[run[s]] = "none"
  BY MediaAssumption DEF Open, Numbered, TypeOK, Runs
<1>2. \A r \in Runs : r # run[s] => runs'[r] = runs[r] \/ runs[r] = "running"
  BY DEF Open, StaleRuns
<1>3. \A r \in Runs : r # run[s] /\ runs[r] = "none" => runs'[r] = "none"
  BY DEF Open, StaleRuns
<1>4. run[s] <= born /\ born' = born /\ run' = run
  BY <1>1, MediaAssumption DEF Open, TypeOK
<1>5. Goes(s, "opened") /\ at[s] = "asking"
  BY DEF Open
<1>6. /\ \A t \in Syncs \ {s} : at'[t] = at[t]
      /\ at'[s] = "opened"
  BY <1>5, MediaAssumption DEF TypeOK, Goes, Actors
<1>7. \A t \in Syncs : at'[t] \notin {"idle", "stopped"} => run'[t] # 0
  BY <1>1, <1>4, <1>6 DEF Numbered
<1>8. \A t, v \in Syncs : t # v /\ run'[t] # 0 => run'[t] # run'[v]
  BY <1>4 DEF Numbered
<1>9. \A r \in Runs : r > born' => runs'[r] = "none"
  <2> SUFFICES ASSUME NEW r \in Runs, r > born PROVE runs'[r] = "none"
    BY <1>4
  <2>1. runs[r] = "none"
    BY DEF Numbered
  <2>2. r # run[s]
    BY <1>1, <1>4, MediaAssumption DEF TypeOK, Runs
  <2> QED
    BY <1>3, <2>1, <2>2
<1>10. ASSUME NEW t \in Syncs, at'[t] = "asking" PROVE runs'[run'[t]] = "none"
  <2>1. t # s /\ at[t] = "asking"
    BY <1>6, <1>10
  <2>2. run[t] # 0 /\ runs[run[t]] = "none"
    BY <2>1 DEF Numbered
  <2>3. run[t] # run[s]
    BY <2>1, <2>2 DEF Numbered
  <2>4. run[t] \in Runs
    BY <2>2, MediaAssumption DEF TypeOK, Runs
  <2> QED
    BY <1>3, <1>4, <2>2, <2>3, <2>4
<1> QED
  BY <1>7, <1>8, <1>9, <1>10 DEF Numbered

(* Runs belong to their syncs.                                             *)
LEMMA NumberedStep ==
  ASSUME TypeOK, Numbered, Flat
  PROVE  Numbered'
<1> USE MediaAssumption DEF Numbered, TypeOK, Goes, table, world, ledger,
  Actors, Runs, SyncPlaces, CollectorPlaces, CapturePlaces, Importing,
  Failures
<1>1. ASSUME NEW a \in Actors, Finishes(a)
      PROVE  Numbered'
  BY <1>1 DEF Finishes, Outside, RollBack
<1>2. CASE Edit
  BY <1>2 DEF Edit
<1>3. ASSUME NEW s \in Syncs, Begin(s)
      PROVE  Numbered'
  BY <1>3 DEF Begin
<1>4. ASSUME NEW s \in Syncs, SkipConcurrent(s)
      PROVE  Numbered'
  BY <1>4 DEF SkipConcurrent
<1>5. ASSUME NEW s \in Syncs, Open(s)
      PROVE  Numbered'
  BY <1>5, NumberedOpen
<1>6. ASSUME NEW s \in Syncs, OpenRefused(s)
      PROVE  Numbered'
  BY <1>6 DEF OpenRefused, LockIsFree
<1>7. ASSUME NEW s \in Syncs, RecordFailure(s)
      PROVE  Numbered'
  BY <1>7 DEF RecordFailure, StillRunning
<1>8. ASSUME NEW s \in Syncs, Unrecorded(s)
      PROVE  Numbered'
  BY <1>8 DEF Unrecorded
<1>9. ASSUME NEW s \in Syncs, Release(s)
      PROVE  Numbered'
  BY <1>9 DEF Release, LetGo
<1>10. ASSUME NEW s \in Syncs, Restart(s)
      PROVE  Numbered'
  BY <1>10 DEF Restart
<1>11. ASSUME NEW s \in Syncs, TakeSnapshot(s)
      PROVE  Numbered'
  BY <1>11 DEF TakeSnapshot, Plan
<1>12. ASSUME NEW s \in Syncs, ImportSources(s)
      PROVE  Numbered'
  BY <1>12 DEF ImportSources, Free
<1>13. ASSUME NEW s \in Syncs, Reconcile(s)
      PROVE  Numbered'
  BY <1>13 DEF Reconcile, Absent, Visible, Proceed
<1>14. ASSUME NEW s \in Syncs, Publish(s)
      PROVE  Numbered'
  BY <1>14 DEF Publish, Succeeds, Commit, Close, Freed, Visible
<1>15. ASSUME NEW s \in Syncs, PublishUnheard(s)
      PROVE  Numbered'
  BY <1>15 DEF PublishUnheard, Succeeds, Commit, Close, Freed, Visible, LetGo
<1>16. ASSUME NEW s \in Syncs, NEW u \in Urls, Upsert(s, u)
      PROVE  Numbered'
  BY <1>16 DEF Upsert, Write, Proceed, Todo, Free, Upserted
<1>17. ASSUME NEW s \in Syncs, NEW u \in Urls, Hide(s, u)
      PROVE  Numbered'
  BY <1>17 DEF Hide, Write, Proceed, Todo, Free, InTime
<1>18. ASSUME NEW c \in Collectors, Start(c)
      PROVE  Numbered'
  BY <1>18 DEF Start, Free
<1>19. ASSUME NEW c \in Collectors, FetchFails(c)
      PROVE  Numbered'
  BY <1>19 DEF FetchFails, Free
<1>20. ASSUME NEW c \in Collectors, Revive(c)
      PROVE  Numbered'
  BY <1>20 DEF Revive
<1>21. ASSUME NEW c \in Collectors, Fetch(c)
      PROVE  Numbered'
  BY <1>21 DEF Fetch, Plan
<1>22. ASSUME NEW c \in Collectors, Look(c)
      PROVE  Numbered'
  BY <1>22 DEF Look, Proceed
<1>23. ASSUME NEW c \in Collectors, Settle(c)
      PROVE  Numbered'
  BY <1>23 DEF Settle, Commit, Close, Freed, Visible, Free
<1>24. ASSUME NEW c \in Collectors, NEW u \in Urls, Store(c, u)
      PROVE  Numbered'
  BY <1>24 DEF Store, Write, Proceed, Found, BlockersAt, Owners
<1>25. ASSUME NEW k \in Captures, Ask(k)
      PROVE  Numbered'
  BY <1>25 DEF Ask, Plan
<1>26. ASSUME NEW k \in Captures, Grant(k)
      PROVE  Numbered'
  BY <1>26 DEF Grant, MayGrant
<1>27. ASSUME NEW k \in Captures, NEW r \in Sources, LockSource(k, r)
      PROVE  Numbered'
  BY <1>27 DEF LockSource, Free
<1>28. ASSUME NEW k \in Captures, NEW u \in Urls, LockArticle(k, u)
      PROVE  Numbered'
  BY <1>28 DEF LockArticle, Write, Proceed, Todo, Free
<1> QED
  BY <1>1, <1>2, <1>3, <1>4, <1>5, <1>6, <1>7, <1>8, <1>9, <1>10, <1>11,
    <1>12, <1>13, <1>14, <1>15, <1>16, <1>17, <1>18, <1>19, <1>20, <1>21,
    <1>22, <1>23, <1>24, <1>25, <1>26, <1>27, <1>28 DEF Flat

-------------------------------------------------------------------------------
(* What the steps do to the rows and the tasks.                            *)
Others(a) ==
  /\ \A b \in Actors \ {a} : task'[b] = task[b] /\ at'[b] = at[b]

Wrote(a, u, row) ==
  /\ u \in task[a].todo /\ owner[u] \in {Nobody, a} /\ at'[a] = at[a] /\ Others(a)
  /\ task'[a].snap = task[a].snap /\ task'[a].stamp = task[a].stamp
  /\ task'[a].todo = task[a].todo \ {u} /\ task'[a].known = task[a].known
  /\ owner'[u] = a /\ draft'[u] = row
  /\ \A r \in Rows \ {u} : owner'[r] = owner[r]
  /\ \A v \in Urls \ {u} : draft'[v] = draft[v]
  /\ UNCHANGED <<shelf, clock, observed>>

Left(a) ==
  /\ at'[a] \notin Sheltered /\ Others(a)
  /\ task'[a].stamp = 0
  /\ \A r \in Rows : owner'[r] = IF owner[r] = a THEN Nobody ELSE owner[r]
  /\ \A u \in Urls : owner[u] # a => draft'[u] = draft[u]
  /\ UNCHANGED clock

Committed(a) ==
  Left(a) /\ \A u \in Urls : shelf'[u] = IF owner[u] = a THEN draft[u] ELSE shelf[u]

LEMMA OwnersAreInside ==
  ASSUME TypeOK, Discipline, NEW a \in Actors, at[a] \notin Sheltered \
    {"snapped", "fetched", "waiting"}
  PROVE  \A r \in Rows : owner[r] # a
  BY MediaAssumption DEF Discipline, Sheltered

LEMMA QuietEffect ==
  ASSUME TypeOK, NEW a \in Actors, Quiet(a)
  PROVE  /\ at[a] \notin Sheltered /\ at'[a] \notin Sheltered /\ Others(a)
         /\ UNCHANGED <<shelf, draft, owner, sharing, task, clock, observed, content>>
<1>1. PICK p \in SyncPlaces \cup CollectorPlaces \cup CapturePlaces :
        p \notin Sheltered /\ Goes(a, p)
  BY DEF Quiet
<1>2. at'[a] = p /\ \A b \in Actors \ {a} : at'[b] = at[b]
  BY <1>1 DEF Goes, TypeOK
<1> QED
  BY <1>1, <1>2 DEF Quiet, Others, table

LEMMA WroteUpsert ==
  ASSUME TypeOK, NEW s \in Syncs, NEW u \in Urls, Upsert(s, u)
  PROVE  Wrote(s, u, Upserted(s, u)) /\ at[s] = "upserting"
<1>1. Upserted(s, u) \in Article
  BY TaskType, Constants DEF Upserted, Article, Actors
<1> QED
  BY <1>1, WriteType DEF Upsert, Wrote, Others, Actors, Todo, Free, world,
    ledger

LEMMA WroteHide ==
  ASSUME TypeOK, NEW s \in Syncs, NEW u \in Urls, Hide(s, u)
  PROVE  /\ Wrote(s, u, [id |-> shelf[u].id, rev |-> shelf[u].rev, present |-> FALSE,
                         seen |-> shelf[u].seen, absent |-> task[s].stamp,
                         source |-> shelf[u].source])
         /\ at[s] = "reconciling" /\ shelf[u].seen <= task[s].stamp
<1>1. [id |-> shelf[u].id, rev |-> shelf[u].rev, present |-> FALSE,
       seen |-> shelf[u].seen, absent |-> task[s].stamp,
       source |-> shelf[u].source] \in Article
  BY TaskType, RowType DEF Article, Actors
<1> QED
  BY <1>1, WriteType DEF Hide, InTime, Wrote, Others, Actors, Todo, Free,
    world, ledger

LEMMA WroteStore ==
  ASSUME TypeOK, NEW c \in Collectors, NEW u \in Urls, Store(c, u)
  PROVE  /\ Wrote(c, u, Found(c, u)) /\ at[c] = "storing"
         /\ u \in task[c].known \/ shelf[u] = NoRow
<1>1. Found(c, u) \in Article
  BY TaskType, RowType, Constants DEF Found, Native, Article, Actors
<1>2. owner[u] \in {Nobody, c}
  BY DEF Store, BlockersAt, Owners
<1> QED
  BY <1>1, <1>2, WriteType DEF Store, Wrote, Others, Actors, world, ledger

LEMMA WroteLockArticle ==
  ASSUME TypeOK, NEW k \in Captures, NEW u \in Urls, LockArticle(k, u)
  PROVE  Wrote(k, u, shelf[u]) /\ at[k] = "locking" /\ shelf[u].present
<1>1. shelf[u] \in Article
  BY DEF TypeOK
<1> QED
  BY <1>1, WriteType DEF LockArticle, Wrote, Others, Actors, Todo, Free,
    world, ledger

LEMMA LeftFinishes ==
  ASSUME TypeOK, NEW a \in Actors, Finishes(a)
  PROVE  Left(a) /\ UNCHANGED <<shelf, observed>>
<1>1. PICK p \in Outside(a) : Goes(a, p)
  BY DEF Finishes
<1>2. p \notin Sheltered
  BY <1>1 DEF Outside, Sheltered, Failures
<1>3. at'[a] = p /\ \A b \in Actors \ {a} : at'[b] = at[b]
  BY <1>1 DEF Goes, TypeOK
<1>4. Close(a) /\ UNCHANGED <<shelf, clock, observed>>
  BY DEF Finishes, RollBack, world, ledger
<1> QED
  BY <1>2, <1>3, <1>4, CloseType DEF Left, Others, NoTask

LEMMA CommittedSync ==
  ASSUME TypeOK, NEW s \in Syncs, Publish(s) \/ PublishUnheard(s)
  PROVE  /\ Committed(s) /\ at[s] = "reconciling" /\ task[s].todo = {}
         /\ runs[run[s]] = "running" /\ runs' = [runs EXCEPT ![run[s]] = "succeeded"]
         /\ observed' = [observed EXCEPT ![run[s]] = task[s].stamp]
         /\ content' = task[s].snap
<1>1. /\ Close(s) /\ shelf' = [u \in Urls |-> Visible(s, u)] /\ UNCHANGED clock
      /\ at[s] = "reconciling" /\ task[s].todo = {}
      /\ runs[run[s]] = "running" /\ runs' = [runs EXCEPT ![run[s]] = "succeeded"]
      /\ observed' = [observed EXCEPT ![run[s]] = task[s].stamp]
      /\ content' = task[s].snap
  BY DEF Publish, PublishUnheard, Succeeds, Commit, world
<1>2. Goes(s, "releasing") \/ Goes(s, "failing")
  BY DEF Publish, PublishUnheard
<1>3. at'[s] \notin Sheltered /\ \A b \in Actors \ {s} : at'[b] = at[b]
  BY <1>2 DEF Goes, TypeOK, Actors, Sheltered
<1> QED
  BY <1>1, <1>3, CloseType DEF Committed, Left, Others, NoTask, Visible,
    Actors

LEMMA CommittedCollector ==
  ASSUME TypeOK, NEW c \in Collectors, Settle(c)
  PROVE  Committed(c) /\ at[c] = "storing" /\ UNCHANGED ledger
<1>1. /\ Close(c) /\ shelf' = [u \in Urls |-> Visible(c, u)] /\ UNCHANGED <<clock, ledger>>
      /\ at[c] = "storing"
  BY DEF Settle, Commit, world
<1>2. Goes(c, "idle")
  BY DEF Settle
<1>3. at'[c] \notin Sheltered /\ \A b \in Actors \ {c} : at'[b] = at[b]
  BY <1>2 DEF Goes, TypeOK, Actors, Sheltered
<1> QED
  BY <1>1, <1>3, CloseType DEF Committed, Left, Others, NoTask, Visible,
    Actors

(* A step of a alone, which writes no row.                                 *)
Turned(a, there) ==
  /\ at'[a] = there /\ Others(a)
  /\ UNCHANGED <<shelf, draft, observed>>

LEMMA TurnedTakeSnapshot ==
  ASSUME TypeOK, NEW s \in Syncs, TakeSnapshot(s)
  PROVE  /\ Turned(s, "snapped") /\ at[s] = "opened" /\ clock' = clock + 1 /\ UNCHANGED owner
         /\ task'[s].stamp = clock + 1
         /\ \A u \in Urls : u \in task'[s].todo <=> task'[s].snap[u] # Gone
<1>1. /\ agenda \in [Urls -> Entry] /\ clock + 1 \in Nat
      /\ {u \in Urls : agenda[u] # Gone} \in SUBSET Urls
  BY DEF TypeOK
<1>2. /\ Plan(s, agenda, clock + 1, {u \in Urls : agenda[u] # Gone}) /\ Goes(s, "snapped")
      /\ at[s] = "opened" /\ clock' = clock + 1 /\ UNCHANGED <<table, ledger>>
  BY DEF TakeSnapshot
<1>3. at'[s] = "snapped" /\ \A b \in Actors \ {s} : at'[b] = at[b]
  BY <1>2 DEF Goes, TypeOK, Actors
<1>4. /\ task'[s] = [snap |-> agenda, stamp |-> clock + 1,
                     todo |-> {u \in Urls : agenda[u] # Gone}, known |-> {}]
      /\ \A b \in Actors \ {s} : task'[b] = task[b]
  BY <1>1, <1>2, PlanType DEF Actors
<1>5. /\ task'[s].snap = agenda /\ task'[s].stamp = clock + 1
      /\ task'[s].todo = {u \in Urls : agenda[u] # Gone}
  BY <1>4
<1>6. \A u \in Urls : u \in task'[s].todo <=> task'[s].snap[u] # Gone
  BY <1>5
<1> QED
  BY <1>2, <1>3, <1>4, <1>5, <1>6 DEF Turned, Others, table, ledger

LEMMA TurnedFetch ==
  ASSUME TypeOK, NEW c \in Collectors, Fetch(c)
  PROVE  /\ Turned(c, "fetched") /\ at[c] = "fetching" /\ clock' = clock + 1 /\ UNCHANGED owner
         /\ task'[c].stamp = clock + 1
<1>1. PICK batch \in SUBSET Urls : Plan(c, Nothing, clock + 1, batch)
  BY DEF Fetch
<1>2. /\ Goes(c, "fetched") /\ at[c] = "fetching" /\ clock' = clock + 1
      /\ UNCHANGED <<table, ledger>> /\ clock + 1 \in Nat
  BY DEF Fetch, TypeOK
<1>3. at'[c] = "fetched" /\ \A b \in Actors \ {c} : at'[b] = at[b]
  BY <1>2 DEF Goes, TypeOK, Actors
<1>4. /\ task'[c] = [snap |-> Nothing, stamp |-> clock + 1, todo |-> batch, known |-> {}]
      /\ \A b \in Actors \ {c} : task'[b] = task[b]
  BY <1>1, <1>2, PlanType, Constants DEF Actors
<1>5. task'[c].stamp = clock + 1
  BY <1>4
<1> QED
  BY <1>2, <1>3, <1>4, <1>5 DEF Turned, Others, table, ledger

LEMMA TurnedAsk ==
  ASSUME TypeOK, NEW k \in Captures, Ask(k)
  PROVE  /\ Turned(k, "waiting") /\ at[k] = "idle" /\ UNCHANGED <<owner, clock>>
         /\ task'[k].stamp = 0
         /\ \A u \in Urls : task'[k].snap[u] # Gone => u \in task'[k].todo
<1>1. PICK U \in SUBSET Urls :
        Plan(k, [u \in Urls |-> IF u \in U THEN [id |-> shelf[u].id, rev |-> shelf[u].rev]
                                        ELSE Gone], 0, U)
  BY DEF Ask
<1>2. [u \in Urls |-> IF u \in U THEN [id |-> shelf[u].id, rev |-> shelf[u].rev] ELSE Gone]
        \in [Urls -> Entry]
  BY RowType, Constants DEF Entry
<1>3. Goes(k, "waiting") /\ at[k] = "idle" /\ UNCHANGED <<table, ledger, clock>>
  BY DEF Ask, world
<1>4. at'[k] = "waiting" /\ \A b \in Actors \ {k} : at'[b] = at[b]
  BY <1>3 DEF Goes, TypeOK, Actors
<1> DEFINE entries == [u \in Urls |->
               IF u \in U THEN [id |-> shelf[u].id, rev |-> shelf[u].rev] ELSE Gone]
<1>5. /\ task'[k] = [snap |-> entries, stamp |-> 0, todo |-> U, known |-> {}]
      /\ \A b \in Actors \ {k} : task'[b] = task[b]
  BY <1>1, <1>2, PlanType DEF Actors
<1>6. task'[k].snap = entries /\ task'[k].stamp = 0 /\ task'[k].todo = U
  BY <1>5
<1>7. \A u \in Urls : entries[u] # Gone => u \in U
  OBVIOUS
<1>8. \A u \in Urls : task'[k].snap[u] # Gone => u \in task'[k].todo
  BY <1>6, <1>7
<1> QED
  BY <1>3, <1>4, <1>5, <1>6, <1>8 DEF Turned, Others, table, ledger

LEMMA TurnedReconcile ==
  ASSUME TypeOK, NEW s \in Syncs, Reconcile(s)
  PROVE  /\ Turned(s, "reconciling") /\ at[s] = "upserting" /\ UNCHANGED <<owner, clock>>
         /\ task[s].todo = {} /\ task'[s].todo = Absent(s)
         /\ task'[s].snap = task[s].snap /\ task'[s].stamp = task[s].stamp
<1>1. Absent(s) \in SUBSET Urls /\ {} \in SUBSET Urls
  BY DEF Absent
<1>2. /\ Proceed(s, Absent(s), {}) /\ Goes(s, "reconciling") /\ at[s] = "upserting"
      /\ task[s].todo = {} /\ UNCHANGED <<table, ledger, clock>>
  BY DEF Reconcile, world
<1>3. at'[s] = "reconciling" /\ \A b \in Actors \ {s} : at'[b] = at[b]
  BY <1>2 DEF Goes, TypeOK, Actors
<1> QED
  BY <1>1, <1>2, <1>3, ProceedType DEF Turned, Others, table, ledger, Actors

LEMMA TurnedLook ==
  ASSUME TypeOK, NEW c \in Collectors, Look(c)
  PROVE  /\ Turned(c, "storing") /\ at[c] = "fetched" /\ UNCHANGED <<owner, clock>>
         /\ task'[c].stamp = task[c].stamp
<1>1. {u \in task[c].todo : shelf[u] # NoRow} \in SUBSET Urls /\ task[c].todo \in SUBSET Urls
  BY TaskType DEF Actors
<1>2. /\ Proceed(c, task[c].todo, {u \in task[c].todo : shelf[u] # NoRow})
      /\ Goes(c, "storing") /\ at[c] = "fetched" /\ UNCHANGED <<table, ledger, clock>>
  BY DEF Look, world
<1>3. at'[c] = "storing" /\ \A b \in Actors \ {c} : at'[b] = at[b]
  BY <1>2 DEF Goes, TypeOK, Actors
<1> QED
  BY <1>1, <1>2, <1>3, ProceedType DEF Turned, Others, table, ledger, Actors

LEMMA TurnedImportSources ==
  ASSUME TypeOK, NEW s \in Syncs, ImportSources(s)
  PROVE  /\ Turned(s, "upserting") /\ at[s] = "snapped" /\ UNCHANGED <<task, clock>>
         /\ owner[Src] \in {Nobody, s} /\ owner'[Src] = s
         /\ \A r \in Rows : owner[r] # Nobody => owner'[r] = owner[r]
         /\ \A u \in Urls : owner'[u] = owner[u]
  BY Constants, MediaAssumption
  DEF ImportSources, Turned, Others, Goes, Free, TypeOK, Actors, world, ledger

LEMMA TurnedLockSource ==
  ASSUME TypeOK, NEW k \in Captures, NEW r \in Sources, LockSource(k, r)
  PROVE  /\ Turned(k, "locking") \/ Turned(k, "reading")
         /\ at[k] = "locking" /\ UNCHANGED <<task, clock>>
         /\ task[k].todo = {} /\ owner[r] \in {Nobody, k}
         /\ \A q \in Rows \ {r} : owner'[q] = owner[q]
         /\ \A u \in Urls : owner'[u] = owner[u]
<1>1. /\ Goes(k, "locking") \/ Goes(k, "reading")
      /\ at[k] = "locking" /\ task[k].todo = {} /\ owner[r] \in {Nobody, k}
      /\ owner' = [owner EXCEPT ![r] = k]
      /\ UNCHANGED <<shelf, draft, observed, task, clock>>
  BY DEF LockSource, Free, world, ledger
<1>2. /\ at'[k] = "locking" \/ at'[k] = "reading"
      /\ \A b \in Actors \ {k} : at'[b] = at[b]
  BY <1>1 DEF Goes, TypeOK, Actors
<1>3. \A q \in Rows \ {r} : owner'[q] = owner[q]
  BY <1>1 DEF TypeOK
<1>4. \A u \in Urls : owner'[u] = owner[u]
  BY <1>3, Constants
<1> QED
  BY <1>1, <1>2, <1>3, <1>4 DEF Turned, Others

LEMMA TurnedGrant ==
  ASSUME TypeOK, NEW k \in Captures, Grant(k)
  PROVE  /\ Turned(k, "locking") /\ at[k] = "waiting" /\ UNCHANGED <<owner, task, clock>>
  BY DEF Grant, Turned, Others, Goes, TypeOK, Actors, world, ledger, table

-------------------------------------------------------------------------------
(* Times: they stay as they are, or one is taken.                          *)
LEMMA TimesKept ==
  ASSUME TypeOK, Timed, UNCHANGED <<shelf, observed, clock>>,
         \A a \in Actors : task'[a].stamp \in {task[a].stamp, 0},
         \A a \in Actors : at'[a] \in Stamped =>
           at[a] \in Stamped /\ task'[a].stamp = task[a].stamp
  PROVE  Timed'
<1>1. clock \in Nat /\ \A a \in Actors : task[a].stamp \in Nat
  BY TaskType DEF TypeOK
<1>2. \A a \in Actors : task'[a].stamp <= clock'
  BY <1>1 DEF Timed
<1>3. \A a, b \in Actors : a # b /\ task'[a].stamp # 0 => task'[a].stamp # task'[b].stamp
  BY DEF Timed
<1>4. \A a \in Actors : at'[a] \in Stamped => task'[a].stamp # 0
  BY DEF Timed
<1>5. /\ \A u \in Urls : shelf'[u].seen <= clock' /\ (shelf'[u].present => shelf'[u].seen # 0)
      /\ \A r \in Runs : observed'[r] <= clock'
  BY DEF Timed
<1>6. \A a \in Actors : task'[a].stamp # 0 =>
        /\ \A u \in Urls : shelf'[u].seen # task'[a].stamp
        /\ \A r \in Runs : observed'[r] # task'[a].stamp
  BY DEF Timed
<1> QED
  BY <1>2, <1>3, <1>4, <1>5, <1>6 DEF Timed, Stamped

LEMMA RunOf ==
  ASSUME TypeOK, Numbered, NEW s \in Syncs, at[s] \notin {"idle", "stopped"}
  PROVE  run[s] \in Runs /\ run[s] <= born
<1>1. run[s] \in 0..born /\ run[s] # 0 /\ born \in 0..MaxRuns
  BY DEF TypeOK, Numbered
<1> QED
  BY <1>1, MediaAssumption DEF Runs

(* The rows a transaction has written.                                     *)
LEMMA SyncDrafts ==
  ASSUME TypeOK, Written, NEW s \in Syncs, NEW u \in Urls, owner[u] = s
  PROVE  /\ task[s].snap[u] # Gone =>
              /\ draft[u].id = task[s].snap[u].id /\ draft[u].rev = task[s].snap[u].rev
              /\ draft[u].present /\ draft[u].seen = task[s].stamp /\ draft[u].absent = 0
         /\ task[s].snap[u] = Gone =>
              /\ at[s] = "reconciling" /\ ~draft[u].present
              /\ draft[u].absent = task[s].stamp
              /\ draft[u].seen = shelf[u].seen /\ draft[u].seen < task[s].stamp
<1>1. CASE task[s].snap[u] # Gone
  <2>1. draft[u] = Upserted(s, u)
    BY <1>1 DEF Written, WrittenBySync
  <2> QED
    BY <1>1, <2>1 DEF Upserted
<1>2. CASE task[s].snap[u] = Gone
  BY <1>2 DEF Written, WrittenBySync
<1> QED
  BY <1>1, <1>2

LEMMA CollectorDrafts ==
  ASSUME TypeOK, Written, NEW c \in Collectors, NEW u \in Urls, owner[u] = c
  PROVE  /\ draft[u].present /\ draft[u].seen = task[c].stamp /\ draft[u].absent = 0
         /\ shelf[u] # NoRow => draft[u].id = shelf[u].id /\ draft[u].rev = shelf[u].rev
  BY DEF Written, WrittenByCollector

LEMMA TimeTaken ==
  ASSUME TypeOK, Timed, NEW a \in Actors, clock' = clock + 1, UNCHANGED
    <<shelf, observed>>,
         task'[a].stamp = clock + 1, Others(a)
  PROVE  Timed'
<1>1. /\ clock \in Nat /\ \A b \in Actors : task[b].stamp \in Nat
      /\ \A u \in Urls : shelf[u].seen \in Nat
      /\ \A r \in Runs : observed[r] \in Nat
  BY TaskType, RowType DEF TypeOK
<1>2. \A b \in Actors : task'[b].stamp = IF b = a THEN clock + 1 ELSE task[b].stamp
  BY DEF Others
<1>3. \A b \in Actors \ {a} : at'[b] = at[b]
  BY DEF Others
<1>4. \A b \in Actors : task'[b].stamp <= clock'
  BY <1>1, <1>2 DEF Timed
<1>5. \A b, c \in Actors : b # c /\ task'[b].stamp # 0 => task'[b].stamp # task'[c].stamp
  BY <1>1, <1>2 DEF Timed
<1>6. \A b \in Actors : at'[b] \in Stamped => task'[b].stamp # 0
  BY <1>1, <1>2, <1>3 DEF Timed
<1>7. /\ \A u \in Urls : shelf'[u].seen <= clock' /\ (shelf'[u].present => shelf'[u].seen # 0)
      /\ \A r \in Runs : observed'[r] <= clock'
  BY <1>1 DEF Timed
<1>8. \A b \in Actors : task'[b].stamp # 0 =>
        /\ \A u \in Urls : shelf'[u].seen # task'[b].stamp
        /\ \A r \in Runs : observed'[r] # task'[b].stamp
  BY <1>1, <1>2 DEF Timed
<1> QED
  BY <1>4, <1>5, <1>6, <1>7, <1>8 DEF Timed, Stamped

LEMMA TimesCommitted ==
  ASSUME TypeOK, Timed, NEW a \in Actors, task[a].stamp # 0, UNCHANGED clock,
         \A b \in Actors : task'[b].stamp = IF b = a THEN 0 ELSE task[b].stamp,
         \A b \in Actors : at'[b] \in Stamped => b # a /\ at[b] \in Stamped,
         \A u \in Urls : shelf'[u].seen \in {task[a].stamp, shelf[u].seen},
         \A u \in Urls : shelf'[u].present => shelf'[u].seen # 0,
         \A r \in Runs : observed'[r] \in {task[a].stamp, observed[r]}
  PROVE  Timed'
<1>1. clock \in Nat /\ \A b \in Actors : task[b].stamp \in Nat
  BY TaskType DEF TypeOK
<1>2. \A b \in Actors : task'[b].stamp <= clock'
  BY <1>1 DEF Timed
<1>3. \A b, c \in Actors : b # c /\ task'[b].stamp # 0 => task'[b].stamp # task'[c].stamp
  BY DEF Timed
<1>4. \A b \in Actors : at'[b] \in Stamped => task'[b].stamp # 0
  BY DEF Timed
<1>5. /\ \A u \in Urls : shelf'[u].seen <= clock' /\ (shelf'[u].present => shelf'[u].seen # 0)
      /\ \A r \in Runs : observed'[r] <= clock'
  BY DEF Timed
<1>6. ASSUME NEW b \in Actors, task'[b].stamp # 0
      PROVE  /\ \A u \in Urls : shelf'[u].seen # task'[b].stamp
             /\ \A r \in Runs : observed'[r] # task'[b].stamp
  <2>1. b # a /\ task'[b].stamp = task[b].stamp /\ task[b].stamp # 0
        /\ task[b].stamp # task[a].stamp
    BY <1>6 DEF Timed
  <2> QED
    BY <2>1 DEF Timed
<1> QED
  BY <1>2, <1>3, <1>4, <1>5, <1>6 DEF Timed, Stamped

(* Times.                                                                  *)
LEMMA TimedStep ==
  ASSUME TypeOK, Numbered, Timed, Written, Flat
  PROVE  Timed'
<1>1. ASSUME NEW a \in Actors, Finishes(a)
      PROVE  Timed'
  BY <1>1, LeftFinishes, TimesKept DEF Left, Others, Stamped, Sheltered
<1>2. CASE Edit
  BY <1>2, TimesKept DEF Edit, table, ledger
<1>3. ASSUME NEW a \in Actors, Quiet(a)
      PROVE  Timed'
  BY <1>3, QuietEffect, TimesKept DEF Others, Stamped, Sheltered
<1>4. ASSUME NEW s \in Syncs, TakeSnapshot(s)
      PROVE  Timed'
  BY <1>4, TurnedTakeSnapshot, TimeTaken DEF Turned, Actors
<1>5. ASSUME NEW s \in Syncs, ImportSources(s)
      PROVE  Timed'
  BY <1>5, TurnedImportSources, TimesKept DEF Turned, Others, Stamped, Actors
<1>6. ASSUME NEW s \in Syncs, Reconcile(s)
      PROVE  Timed'
  BY <1>6, TurnedReconcile, TimesKept DEF Turned, Others, Stamped, Actors
<1>7. ASSUME NEW s \in Syncs, Publish(s)
      PROVE  Timed'
  <2>1. s \in Actors /\ run[s] \in Runs
    BY <1>7, RunOf, CommittedSync DEF Actors
  <2>2. \A u \in Urls : owner[u] = s => draft[u].seen \in {task[s].stamp, shelf[u].seen}
    BY <1>7, SyncDrafts
  <2>3. \A u \in Urls : owner[u] = s /\ draft[u].present => draft[u].seen = task[s].stamp
    BY <1>7, SyncDrafts
  <2>4. /\ Committed(s) /\ at[s] \in Stamped /\ task[s].stamp # 0
        /\ observed' = [observed EXCEPT ![run[s]] = task[s].stamp]
    BY <1>7, <2>1, CommittedSync DEF Timed, Stamped, ledger
  <2>5. /\ Others(s) /\ task'[s].stamp = 0 /\ at'[s] \notin Stamped /\ clock' = clock
        /\ \A u \in Urls : shelf'[u] = IF owner[u] = s THEN draft[u] ELSE shelf[u]
    BY <2>4 DEF Committed, Left, Stamped, Sheltered
  <2>6. \A b \in Actors : task'[b].stamp = IF b = s THEN 0 ELSE task[b].stamp
    BY <2>5 DEF Others
  <2>7. \A b \in Actors : at'[b] \in Stamped => b # s /\ at[b] \in Stamped
    BY <2>5 DEF Others
  <2>8. \A u \in Urls :
          /\ shelf'[u].seen \in {task[s].stamp, shelf[u].seen}
          /\ shelf'[u].present => shelf'[u].seen # 0
    BY <2>1, <2>2, <2>3, <2>4, <2>5 DEF Timed
  <2>9. \A r \in Runs : observed'[r] \in {task[s].stamp, observed[r]}
    BY <2>1, <2>4 DEF TypeOK
  <2> QED
    BY <2>1, <2>4, <2>5, <2>6, <2>7, <2>8, <2>9, TimesCommitted
<1>8. ASSUME NEW s \in Syncs, PublishUnheard(s)
      PROVE  Timed'
  <2>1. s \in Actors /\ run[s] \in Runs
    BY <1>8, RunOf, CommittedSync DEF Actors
  <2>2. \A u \in Urls : owner[u] = s => draft[u].seen \in {task[s].stamp, shelf[u].seen}
    BY <1>8, SyncDrafts
  <2>3. \A u \in Urls : owner[u] = s /\ draft[u].present => draft[u].seen = task[s].stamp
    BY <1>8, SyncDrafts
  <2>4. /\ Committed(s) /\ at[s] \in Stamped /\ task[s].stamp # 0
        /\ observed' = [observed EXCEPT ![run[s]] = task[s].stamp]
    BY <1>8, <2>1, CommittedSync DEF Timed, Stamped, ledger
  <2>5. /\ Others(s) /\ task'[s].stamp = 0 /\ at'[s] \notin Stamped /\ clock' = clock
        /\ \A u \in Urls : shelf'[u] = IF owner[u] = s THEN draft[u] ELSE shelf[u]
    BY <2>4 DEF Committed, Left, Stamped, Sheltered
  <2>6. \A b \in Actors : task'[b].stamp = IF b = s THEN 0 ELSE task[b].stamp
    BY <2>5 DEF Others
  <2>7. \A b \in Actors : at'[b] \in Stamped => b # s /\ at[b] \in Stamped
    BY <2>5 DEF Others
  <2>8. \A u \in Urls :
          /\ shelf'[u].seen \in {task[s].stamp, shelf[u].seen}
          /\ shelf'[u].present => shelf'[u].seen # 0
    BY <2>1, <2>2, <2>3, <2>4, <2>5 DEF Timed
  <2>9. \A r \in Runs : observed'[r] \in {task[s].stamp, observed[r]}
    BY <2>1, <2>4 DEF TypeOK
  <2> QED
    BY <2>1, <2>4, <2>5, <2>6, <2>7, <2>8, <2>9, TimesCommitted
<1>9. ASSUME NEW s \in Syncs, NEW u \in Urls, Upsert(s, u)
      PROVE  Timed'
  BY <1>9, WroteUpsert, TimesKept DEF Wrote, Others, Actors
<1>10. ASSUME NEW s \in Syncs, NEW u \in Urls, Hide(s, u)
      PROVE  Timed'
  BY <1>10, WroteHide, TimesKept DEF Wrote, Others, Actors
<1>11. ASSUME NEW c \in Collectors, Fetch(c)
      PROVE  Timed'
  BY <1>11, TurnedFetch, TimeTaken DEF Turned, Actors
<1>12. ASSUME NEW c \in Collectors, Look(c)
      PROVE  Timed'
  BY <1>12, TurnedLook, TimesKept DEF Turned, Others, Stamped, Actors
<1>13. ASSUME NEW c \in Collectors, Settle(c)
      PROVE  Timed'
  <2>1. c \in Actors /\ TRUE
    BY <1>13, CommittedCollector DEF Actors
  <2>2. \A u \in Urls : owner[u] = c => draft[u].seen = task[c].stamp
    BY <1>13, CollectorDrafts
  <2>3. \A u \in Urls : owner[u] = c /\ draft[u].present => draft[u].seen = task[c].stamp
    BY <1>13, CollectorDrafts
  <2>4. /\ Committed(c) /\ at[c] \in Stamped /\ task[c].stamp # 0
        /\ UNCHANGED observed
    BY <1>13, <2>1, CommittedCollector DEF Timed, Stamped, ledger
  <2>5. /\ Others(c) /\ task'[c].stamp = 0 /\ at'[c] \notin Stamped /\ clock' = clock
        /\ \A u \in Urls : shelf'[u] = IF owner[u] = c THEN draft[u] ELSE shelf[u]
    BY <2>4 DEF Committed, Left, Stamped, Sheltered
  <2>6. \A b \in Actors : task'[b].stamp = IF b = c THEN 0 ELSE task[b].stamp
    BY <2>5 DEF Others
  <2>7. \A b \in Actors : at'[b] \in Stamped => b # c /\ at[b] \in Stamped
    BY <2>5 DEF Others
  <2>8. \A u \in Urls :
          /\ shelf'[u].seen \in {task[c].stamp, shelf[u].seen}
          /\ shelf'[u].present => shelf'[u].seen # 0
    BY <2>1, <2>2, <2>3, <2>4, <2>5 DEF Timed
  <2>9. \A r \in Runs : observed'[r] \in {task[c].stamp, observed[r]}
    BY <2>1, <2>4 DEF TypeOK
  <2> QED
    BY <2>1, <2>4, <2>5, <2>6, <2>7, <2>8, <2>9, TimesCommitted
<1>14. ASSUME NEW c \in Collectors, NEW u \in Urls, Store(c, u)
      PROVE  Timed'
  BY <1>14, WroteStore, TimesKept DEF Wrote, Others, Actors
<1>15. ASSUME NEW k \in Captures, Ask(k)
      PROVE  Timed'
  BY <1>15, TurnedAsk, TimesKept DEF Turned, Others, Stamped, Actors
<1>16. ASSUME NEW k \in Captures, Grant(k)
      PROVE  Timed'
  BY <1>16, TurnedGrant, TimesKept DEF Turned, Others, Stamped, Actors
<1>17. ASSUME NEW k \in Captures, NEW r \in Sources, LockSource(k, r)
      PROVE  Timed'
  BY <1>17, TurnedLockSource, TimesKept DEF Turned, Others, Stamped, Actors
<1>18. ASSUME NEW k \in Captures, NEW u \in Urls, LockArticle(k, u)
      PROVE  Timed'
  BY <1>18, WroteLockArticle, TimesKept DEF Wrote, Others, Actors
<1> QED
  BY <1>1, <1>2, <1>3, <1>4, <1>5, <1>6, <1>7, <1>8, <1>9, <1>10, <1>11,
    <1>12, <1>13, <1>14, <1>15, <1>16, <1>17, <1>18, QuietSteps DEF Flat,
    Actors

-------------------------------------------------------------------------------
(* Rows written: they stay as they are, or one is added.                   *)
LEMMA RowKept ==
  ASSUME TypeOK, Written, NEW a \in Actors, NEW u \in Urls, owner[u] = a,
         draft'[u] = draft[u], shelf'[u] = shelf[u],
         task'[a].snap = task[a].snap, task'[a].stamp = task[a].stamp,
         at[a] = "reconciling" => at'[a] = "reconciling"
  PROVE  /\ a \in Syncs => WrittenBySync(a, u)'
         /\ a \in Collectors => WrittenByCollector(a, u)'
<1>1. ASSUME a \in Syncs, task[a].snap[u] # Gone PROVE WrittenBySync(a, u)'
  <2>1. draft[u] = Upserted(a, u)
    BY <1>1 DEF Written, WrittenBySync
  <2> QED
    BY <1>1, <2>1 DEF WrittenBySync, Upserted
<1>2. ASSUME a \in Syncs, task[a].snap[u] = Gone PROVE WrittenBySync(a, u)'
  BY <1>2 DEF Written, WrittenBySync
<1>3. ASSUME a \in Collectors PROVE WrittenByCollector(a, u)'
  BY <1>3 DEF Written, WrittenByCollector
<1> QED
  BY <1>1, <1>2, <1>3

LEMMA WrittenKept ==
  ASSUME TypeOK, Written,
         \A a \in Syncs \cup Collectors, u \in Urls : owner'[u] = a =>
           /\ owner[u] = a /\ draft'[u] = draft[u] /\ shelf'[u] = shelf[u]
           /\ task'[a].snap = task[a].snap /\ task'[a].stamp = task[a].stamp
           /\ at[a] = "reconciling" => at'[a] = "reconciling"
  PROVE  Written'
<1>1. ASSUME NEW s \in Syncs, NEW u \in Urls, owner'[u] = s PROVE WrittenBySync(s, u)'
  BY <1>1, RowKept DEF Actors
<1>2. ASSUME NEW c \in Collectors, NEW u \in Urls, owner'[u] = c
      PROVE  WrittenByCollector(c, u)'
  BY <1>2, RowKept DEF Actors
<1> QED
  BY <1>1, <1>2 DEF Written

LEMMA WrittenOne ==
  ASSUME TypeOK, Written, NEW a \in Actors, NEW u \in Urls, NEW row, Wrote(a,
    u, row),
         a \in Syncs => WrittenBySync(a, u)',
         a \in Collectors => WrittenByCollector(a, u)'
  PROVE  Written'
<1>1. ASSUME NEW b \in Actors, NEW v \in Urls, v # u, owner'[v] = b
      PROVE  /\ owner[v] = b /\ draft'[v] = draft[v] /\ shelf'[v] = shelf[v]
             /\ task'[b].snap = task[b].snap /\ task'[b].stamp = task[b].stamp
             /\ at'[b] = at[b]
  BY <1>1 DEF Wrote, Others, Rows
<1>2. ASSUME NEW s \in Syncs, NEW v \in Urls, owner'[v] = s PROVE WrittenBySync(s, v)'
  <2>1. CASE v = u
    BY <1>2, <2>1 DEF Wrote
  <2>2. CASE v # u
    BY <1>1, <1>2, <2>2, RowKept DEF Actors
  <2> QED
    BY <2>1, <2>2
<1>3. ASSUME NEW c \in Collectors, NEW v \in Urls, owner'[v] = c
      PROVE  WrittenByCollector(c, v)'
  <2>1. CASE v = u
    BY <1>3, <2>1 DEF Wrote
  <2>2. CASE v # u
    BY <1>1, <1>3, <2>2, RowKept DEF Actors
  <2> QED
    BY <2>1, <2>2
<1> QED
  BY <1>2, <1>3 DEF Written

(* What is written.                                                        *)
LEMMA WrittenStep ==
  ASSUME TypeOK, Discipline, Timed, Written, Imported, Flat
  PROVE  Written'
<1>1. ASSUME NEW a \in Actors, Finishes(a)
      PROVE  Written'
  BY <1>1, LeftFinishes, WrittenKept, MediaAssumption DEF Left, Others,
    Actors, Rows
<1>2. CASE Edit
  BY <1>2, WrittenKept DEF Edit, table
<1>3. ASSUME NEW a \in Actors, Quiet(a)
      PROVE  Written'
  BY <1>3, QuietEffect, OwnersAreInside, WrittenKept DEF Others, Actors, Rows
<1>4. ASSUME NEW s \in Syncs, TakeSnapshot(s)
      PROVE  Written'
  BY <1>4, TurnedTakeSnapshot, OwnersAreInside, WrittenKept, MediaAssumption
    DEF Turned, Others, Sheltered, Actors, Rows
<1>5. ASSUME NEW s \in Syncs, ImportSources(s)
      PROVE  Written'
  BY <1>5, TurnedImportSources, OwnersAreInside, WrittenKept, MediaAssumption
    DEF Turned, Others, Sheltered, Actors, Rows
<1>6. ASSUME NEW s \in Syncs, Reconcile(s)
      PROVE  Written'
  BY <1>6, TurnedReconcile, OwnersAreInside, WrittenKept, MediaAssumption DEF
    Turned, Others, Sheltered, Actors, Rows
<1>7. ASSUME NEW s \in Syncs, Publish(s)
      PROVE  Written'
  BY <1>7, CommittedSync, WrittenKept, MediaAssumption DEF Committed, Left,
    Others, Actors, Rows
<1>8. ASSUME NEW s \in Syncs, PublishUnheard(s)
      PROVE  Written'
  BY <1>8, CommittedSync, WrittenKept, MediaAssumption DEF Committed, Left,
    Others, Actors, Rows
<1>9. ASSUME NEW s \in Syncs, NEW u \in Urls, Upsert(s, u)
      PROVE  Written'
  <2>1. Wrote(s, u, Upserted(s, u)) /\ at[s] = "upserting"
    BY <1>9, WroteUpsert
  <2>2. task[s].snap[u] # Gone
    BY <2>1 DEF Imported, Wrote
  <2>3. WrittenBySync(s, u)'
    BY <2>1, <2>2 DEF WrittenBySync, Upserted, Wrote
  <2> QED
    BY <2>1, <2>3, WrittenOne, MediaAssumption DEF Actors
<1>10. ASSUME NEW s \in Syncs, NEW u \in Urls, Hide(s, u)
      PROVE  Written'
  <2>1. /\ Wrote(s, u, [id |-> shelf[u].id, rev |-> shelf[u].rev, present |-> FALSE,
                        seen |-> shelf[u].seen, absent |-> task[s].stamp,
                        source |-> shelf[u].source])
        /\ at[s] = "reconciling" /\ shelf[u].seen <= task[s].stamp
    BY <1>10, WroteHide
  <2>2. task[s].snap[u] = Gone
    BY <2>1 DEF Imported, Wrote
  <2>3. shelf[u].seen < task[s].stamp
    <3>1. shelf[u].seen \in Nat /\ task[s].stamp \in Nat
      BY TaskType, RowType DEF Actors
    <3>2. task[s].stamp # 0
      BY <2>1 DEF Timed, Stamped, Actors
    <3>3. shelf[u].seen # task[s].stamp
      BY <3>2 DEF Timed, Actors
    <3> QED
      BY <2>1, <3>1, <3>3
  <2>4. WrittenBySync(s, u)'
    BY <2>1, <2>2, <2>3 DEF WrittenBySync, Wrote
  <2> QED
    BY <2>1, <2>4, WrittenOne, MediaAssumption DEF Actors
<1>11. ASSUME NEW c \in Collectors, Fetch(c)
      PROVE  Written'
  BY <1>11, TurnedFetch, OwnersAreInside, WrittenKept, MediaAssumption DEF
    Turned, Others, Sheltered, Actors, Rows
<1>12. ASSUME NEW c \in Collectors, Look(c)
      PROVE  Written'
  BY <1>12, TurnedLook, OwnersAreInside, WrittenKept, MediaAssumption DEF
    Turned, Others, Sheltered, Actors, Rows
<1>13. ASSUME NEW c \in Collectors, Settle(c)
      PROVE  Written'
  BY <1>13, CommittedCollector, WrittenKept, MediaAssumption DEF Committed,
    Left, Others, Actors, Rows
<1>14. ASSUME NEW c \in Collectors, NEW u \in Urls, Store(c, u)
      PROVE  Written'
  <2>1. Wrote(c, u, Found(c, u)) /\ (u \in task[c].known \/ shelf[u] = NoRow)
    BY <1>14, WroteStore
  <2>2. /\ Found(c, u).present /\ Found(c, u).seen = task[c].stamp /\ Found(c, u).absent = 0
        /\ shelf[u] # NoRow =>
             Found(c, u).id = shelf[u].id /\ Found(c, u).rev = shelf[u].rev
    BY <2>1 DEF Found
  <2>3. /\ draft'[u] = Found(c, u) /\ shelf' = shelf /\ task'[c].stamp = task[c].stamp
    BY <2>1 DEF Wrote
  <2>4. WrittenByCollector(c, u)'
    BY <2>2, <2>3 DEF WrittenByCollector
  <2> QED
    BY <2>1, <2>4, WrittenOne, MediaAssumption DEF Actors
<1>15. ASSUME NEW k \in Captures, Ask(k)
      PROVE  Written'
  BY <1>15, TurnedAsk, OwnersAreInside, WrittenKept, MediaAssumption DEF
    Turned, Others, Sheltered, Actors, Rows
<1>16. ASSUME NEW k \in Captures, Grant(k)
      PROVE  Written'
  BY <1>16, TurnedGrant, OwnersAreInside, WrittenKept, MediaAssumption DEF
    Turned, Others, Sheltered, Actors, Rows
<1>17. ASSUME NEW k \in Captures, NEW r \in Sources, LockSource(k, r)
      PROVE  Written'
  BY <1>17, TurnedLockSource, OwnersAreInside, WrittenKept, MediaAssumption
    DEF Turned, Others, Sheltered, Actors, Rows
<1>18. ASSUME NEW k \in Captures, NEW u \in Urls, LockArticle(k, u)
      PROVE  Written'
  BY <1>18, WroteLockArticle, WrittenOne, MediaAssumption DEF Actors
<1> QED
  BY <1>1, <1>2, <1>3, <1>4, <1>5, <1>6, <1>7, <1>8, <1>9, <1>10, <1>11,
    <1>12, <1>13, <1>14, <1>15, <1>16, <1>17, <1>18, QuietSteps DEF Flat,
    Actors

-------------------------------------------------------------------------------
(* Imports: of the syncs that are not concerned nothing changes.           *)
Undisturbed(s) ==
  at'[s] \in {"snapped", "upserting", "reconciling"} =>
    /\ at'[s] = at[s] /\ task'[s] = task[s]
    /\ \A r \in Rows : owner[r] = s => owner'[r] = s
    /\ at[s] = "reconciling" =>
         /\ observed' = observed
         /\ \A u \in Urls :
              shelf'[u] = shelf[u] \/ \A r \in Runs : observed[r] # shelf'[u].seen

ImportedBy(s) ==
  /\ at[s] \in {"snapped", "upserting"} => \A u \in task[s].todo : task[s].snap[u] # Gone
  /\ at[s] \in {"upserting", "reconciling"} => owner[Src] = s
  /\ at[s] \in {"snapped", "upserting", "reconciling"} =>
       \A u \in Urls : task[s].snap[u] # Gone =>
         owner[u] = s \/ (at[s] # "reconciling" /\ u \in task[s].todo)
  /\ at[s] = "reconciling" =>
       /\ \A u \in task[s].todo : task[s].snap[u] = Gone
       /\ \A u \in Urls : task[s].snap[u] = Gone /\ shelf[u].present =>
            \/ u \in task[s].todo \/ owner[u] = s
            \/ \A r \in Runs : observed[r] # shelf[u].seen

LEMMA ImportedByAll ==
  /\ Imported <=> \A s \in Syncs : ImportedBy(s)
  /\ Imported' <=> \A s \in Syncs : ImportedBy(s)'
BY DEF Imported, ImportedBy

LEMMA ImportedKept ==
  ASSUME TypeOK, Imported, NEW s \in Syncs, Undisturbed(s)
  PROVE  ImportedBy(s)'
<1>1. CASE at'[s] \notin {"snapped", "upserting", "reconciling"}
  BY <1>1 DEF ImportedBy
<1>2. CASE at'[s] \in {"snapped", "upserting", "reconciling"}
  <2>1. /\ at'[s] = at[s] /\ task'[s] = task[s]
        /\ \A r \in Rows : owner[r] = s => owner'[r] = s
        /\ at[s] = "reconciling" =>
             /\ observed' = observed
             /\ \A u \in Urls :
                  shelf'[u] = shelf[u] \/ \A r \in Runs : observed[r] # shelf'[u].seen
    BY <1>2 DEF Undisturbed
  <2>2. ImportedBy(s)
    BY ImportedByAll
  <2>3. Src \in Rows /\ \A u \in Urls : u \in Rows
    BY Constants
  <2>4. at'[s] \in {"snapped", "upserting"} =>
          \A u \in task'[s].todo : task'[s].snap[u] # Gone
    BY <2>1, <2>2 DEF ImportedBy
  <2>5. at'[s] \in {"upserting", "reconciling"} => owner'[Src] = s
    BY <2>1, <2>2, <2>3 DEF ImportedBy
  <2>6. \A u \in Urls : task'[s].snap[u] # Gone =>
          owner'[u] = s \/ (at'[s] # "reconciling" /\ u \in task'[s].todo)
    BY <1>2, <2>1, <2>2, <2>3 DEF ImportedBy
  <2>7. at'[s] = "reconciling" =>
          /\ \A u \in task'[s].todo : task'[s].snap[u] = Gone
          /\ \A u \in Urls : task'[s].snap[u] = Gone /\ shelf'[u].present =>
               \/ u \in task'[s].todo \/ owner'[u] = s
               \/ \A r \in Runs : observed'[r] # shelf'[u].seen
    <3> SUFFICES ASSUME at'[s] = "reconciling"
                 PROVE  /\ \A u \in task'[s].todo : task'[s].snap[u] = Gone
                        /\ \A u \in Urls : task'[s].snap[u] = Gone /\ shelf'[u].present =>
                             \/ u \in task'[s].todo \/ owner'[u] = s
                             \/ \A r \in Runs : observed'[r] # shelf'[u].seen
      OBVIOUS
    <3>1. \A u \in task'[s].todo : task'[s].snap[u] = Gone
      BY <2>1, <2>2 DEF ImportedBy
    <3>2. ASSUME NEW u \in Urls, task'[s].snap[u] = Gone, shelf'[u].present
          PROVE  \/ u \in task'[s].todo \/ owner'[u] = s
                 \/ \A r \in Runs : observed'[r] # shelf'[u].seen
      BY <2>1, <2>2, <2>3, <3>2 DEF ImportedBy
    <3> QED
      BY <3>1, <3>2
  <2> QED
    BY <2>4, <2>5, <2>6, <2>7 DEF ImportedBy
<1> QED
  BY <1>1, <1>2

LEMMA ImportedOne ==
  ASSUME TypeOK, Imported, NEW s \in Syncs, ImportedBy(s)',
         \A t \in Syncs \ {s} : Undisturbed(t)
  PROVE  Imported'
  BY ImportedKept, ImportedByAll

LEMMA NoneDisturbed ==
  ASSUME TypeOK, Imported, \A s \in Syncs : Undisturbed(s)
  PROVE  Imported'
  BY ImportedKept, ImportedByAll

LEMMA OneImport ==
  ASSUME TypeOK, Discipline, NEW s \in Syncs, NEW t \in Syncs,
         at[s] \in Importing, at[t] \in Importing
  PROVE  s = t
  BY DEF Discipline

(* Imports.                                                                *)
LEMMA ImportedStep ==
  ASSUME TypeOK, Discipline, Timed, Written, Imported, Flat
  PROVE  Imported'
<1>1. ASSUME NEW a \in Actors, Finishes(a)
      PROVE  Imported'
  <2>1. \A t \in Syncs : Undisturbed(t)
    BY <1>1, LeftFinishes, MediaAssumption DEF Left, Others, Undisturbed,
      Sheltered, Actors
  <2> QED
    BY <2>1, NoneDisturbed
<1>2. CASE Edit
  <2>1. \A t \in Syncs : Undisturbed(t)
    BY <1>2 DEF Edit, table, ledger, Undisturbed
  <2> QED
    BY <2>1, NoneDisturbed
<1>3. ASSUME NEW a \in Actors, Quiet(a)
      PROVE  Imported'
  <2>1. \A t \in Syncs : Undisturbed(t)
    BY <1>3, QuietEffect DEF Others, Undisturbed, Sheltered, Actors
  <2> QED
    BY <2>1, NoneDisturbed
<1>4. ASSUME NEW s \in Syncs, TakeSnapshot(s)
      PROVE  Imported'
  <2>1. /\ Turned(s, "snapped") /\ UNCHANGED owner
        /\ \A u \in Urls : u \in task'[s].todo <=> task'[s].snap[u] # Gone
    BY <1>4, TurnedTakeSnapshot
  <2>2. task'[s].todo \subseteq Urls
    <3>1. {u \in Urls : agenda[u] # Gone} \in SUBSET Urls
      OBVIOUS
    <3>2. agenda \in [Urls -> Entry] /\ clock + 1 \in Nat
      BY DEF TypeOK
    <3>3. Plan(s, agenda, clock + 1, {u \in Urls : agenda[u] # Gone})
      BY <1>4 DEF TakeSnapshot
    <3>4. task' \in [Actors -> Task]
      BY <3>1, <3>2, <3>3, PlanType DEF Actors
    <3> QED
      BY <3>4 DEF Task, Actors
  <2>3. ImportedBy(s)'
    BY <2>1, <2>2 DEF ImportedBy, Turned
  <2>4. \A t \in Syncs \ {s} : Undisturbed(t)
    BY <2>1 DEF Turned, Others, Undisturbed, Actors
  <2> QED
    BY <2>3, <2>4, ImportedOne
<1>5. ASSUME NEW s \in Syncs, ImportSources(s)
      PROVE  Imported'
  <2>1. /\ Turned(s, "upserting") /\ at[s] = "snapped" /\ UNCHANGED <<task, clock>>
        /\ owner'[Src] = s
        /\ \A u \in Urls : owner'[u] = owner[u]
    BY <1>5, TurnedImportSources
  <2>2. ImportedBy(s)
    BY ImportedByAll
  <2>3. ImportedBy(s)'
    BY <2>1, <2>2 DEF ImportedBy, Turned
  <2>4. \A t \in Syncs \ {s} : at[t] \notin Importing
    BY <2>1, OneImport DEF Importing
  <2>5. \A t \in Syncs \ {s} : Undisturbed(t)
    BY <2>1, <2>4 DEF Turned, Others, Undisturbed, Actors, Importing
  <2> QED
    BY <2>3, <2>5, ImportedOne
<1>6. ASSUME NEW s \in Syncs, Reconcile(s)
      PROVE  Imported'
  <2>1. /\ Turned(s, "reconciling") /\ at[s] = "upserting" /\ UNCHANGED <<owner, clock>>
        /\ task[s].todo = {} /\ task'[s].todo = Absent(s)
        /\ task'[s].snap = task[s].snap /\ task'[s].stamp = task[s].stamp
    BY <1>6, TurnedReconcile
  <2>2. /\ owner[Src] = s
        /\ \A u \in Urls : task[s].snap[u] # Gone => owner[u] = s
    BY <2>1 DEF Imported
  <2>3. task[s].stamp # 0
    BY <2>1 DEF Timed, Stamped, Actors
  <2>4. \A u \in Absent(s) : task[s].snap[u] = Gone
    BY <2>1, <2>2, SyncDrafts DEF Absent, Visible
  <2>5. \A u \in Urls : shelf[u].present => u \in Absent(s) \/ owner[u] = s
    BY <2>3 DEF Absent, Visible, Timed, Actors
  <2>6. at'[s] = "reconciling" /\ shelf' = shelf /\ owner' = owner
    BY <2>1 DEF Turned
  <2>7. ImportedBy(s)'
    BY <2>1, <2>2, <2>4, <2>5, <2>6 DEF ImportedBy
  <2>8. \A t \in Syncs \ {s} : Undisturbed(t)
    BY <2>1 DEF Turned, Others, Undisturbed, Actors
  <2> QED
    BY <2>7, <2>8, ImportedOne
<1>7. ASSUME NEW s \in Syncs, Publish(s)
      PROVE  Imported'
  <2>1. Committed(s) /\ at[s] = "reconciling"
    BY <1>7, CommittedSync
  <2>2. \A t \in Syncs \ {s} : at[t] \notin Importing
    BY <2>1, OneImport DEF Importing
  <2>3. \A t \in Syncs : Undisturbed(t)
    BY <2>1, <2>2 DEF Committed, Left, Others, Undisturbed, Sheltered, Actors,
      Importing
  <2> QED
    BY <2>3, NoneDisturbed
<1>8. ASSUME NEW s \in Syncs, PublishUnheard(s)
      PROVE  Imported'
  <2>1. Committed(s) /\ at[s] = "reconciling"
    BY <1>8, CommittedSync
  <2>2. \A t \in Syncs \ {s} : at[t] \notin Importing
    BY <2>1, OneImport DEF Importing
  <2>3. \A t \in Syncs : Undisturbed(t)
    BY <2>1, <2>2 DEF Committed, Left, Others, Undisturbed, Sheltered, Actors,
      Importing
  <2> QED
    BY <2>3, NoneDisturbed
<1>9. ASSUME NEW s \in Syncs, NEW u \in Urls, Upsert(s, u)
      PROVE  Imported'
  <2>1. /\ Wrote(s, u, Upserted(s, u))
        /\ at[s] = "upserting"
    BY <1>9, WroteUpsert
  <2>2. /\ task'[s].snap = task[s].snap /\ task'[s].todo = task[s].todo \ {u}
        /\ owner'[u] = s /\ \A r \in Rows \ {u} : owner'[r] = owner[r]
        /\ at'[s] = at[s] /\ UNCHANGED <<shelf, observed>> /\ Others(s)
    BY <2>1 DEF Wrote
  <2>3. owner'[Src] = owner[Src] /\ \A v \in Urls : v # u => owner'[v] = owner[v]
    BY <2>2, Constants
  <2>4. ImportedBy(s)
    BY ImportedByAll
  <2>5. ImportedBy(s)'
    BY <2>1, <2>2, <2>3, <2>4 DEF ImportedBy
  <2>6. \A t \in Syncs \ {s} : at[t] \notin Importing
    BY <2>1, OneImport DEF Importing
  <2>7. \A t \in Syncs \ {s} : Undisturbed(t)
    BY <2>2, <2>6 DEF Others, Undisturbed, Actors, Importing
  <2> QED
    BY <2>5, <2>7, ImportedOne
<1>10. ASSUME NEW s \in Syncs, NEW u \in Urls, Hide(s, u)
      PROVE  Imported'
  <2>1. /\ Wrote(s, u, [id |-> shelf[u].id, rev |-> shelf[u].rev, present |-> FALSE,
                        seen |-> shelf[u].seen, absent |-> task[s].stamp,
                        source |-> shelf[u].source])
        /\ at[s] = "reconciling"
    BY <1>10, WroteHide
  <2>2. /\ task'[s].snap = task[s].snap /\ task'[s].todo = task[s].todo \ {u}
        /\ owner'[u] = s /\ \A r \in Rows \ {u} : owner'[r] = owner[r]
        /\ at'[s] = at[s] /\ UNCHANGED <<shelf, observed>> /\ Others(s)
    BY <2>1 DEF Wrote
  <2>3. owner'[Src] = owner[Src] /\ \A v \in Urls : v # u => owner'[v] = owner[v]
    BY <2>2, Constants
  <2>4. ImportedBy(s)
    BY ImportedByAll
  <2>5. ImportedBy(s)'
    BY <2>1, <2>2, <2>3, <2>4 DEF ImportedBy
  <2>6. \A t \in Syncs \ {s} : at[t] \notin Importing
    BY <2>1, OneImport DEF Importing
  <2>7. \A t \in Syncs \ {s} : Undisturbed(t)
    BY <2>2, <2>6 DEF Others, Undisturbed, Actors, Importing
  <2> QED
    BY <2>5, <2>7, ImportedOne
<1>11. ASSUME NEW c \in Collectors, Fetch(c)
      PROVE  Imported'
  <2>1. \A t \in Syncs : Undisturbed(t)
    BY <1>11, TurnedFetch, MediaAssumption DEF Turned, Others, Undisturbed,
      Rows, Actors
  <2> QED
    BY <2>1, NoneDisturbed
<1>12. ASSUME NEW c \in Collectors, Look(c)
      PROVE  Imported'
  <2>1. \A t \in Syncs : Undisturbed(t)
    BY <1>12, TurnedLook, MediaAssumption DEF Turned, Others, Undisturbed,
      Rows, Actors
  <2> QED
    BY <2>1, NoneDisturbed
<1>13. ASSUME NEW c \in Collectors, Settle(c)
      PROVE  Imported'
  <2>1. Committed(c) /\ at[c] = "storing" /\ UNCHANGED observed
    BY <1>13, CommittedCollector DEF ledger
  <2>2. c \in Actors /\ \A t \in Syncs : t # c
    BY MediaAssumption DEF Actors
  <2>3. \A r \in Runs : observed[r] # task[c].stamp
    BY <2>1, <2>2 DEF Timed, Stamped
  <2>4. \A u \in Urls : shelf'[u] = shelf[u] \/ shelf'[u].seen = task[c].stamp
    BY <2>1, CollectorDrafts DEF Committed
  <2>5. /\ at'[c] \notin Sheltered /\ Others(c)
        /\ \A r \in Rows : owner'[r] = IF owner[r] = c THEN Nobody ELSE owner[r]
    BY <2>1 DEF Committed, Left
  <2>6. \A t \in Syncs : Undisturbed(t)
    BY <2>1, <2>2, <2>3, <2>4, <2>5 DEF Others, Undisturbed, Actors
  <2> QED
    BY <2>6, NoneDisturbed
<1>14. ASSUME NEW c \in Collectors, NEW u \in Urls, Store(c, u)
      PROVE  Imported'
  <2>1. PICK row : Wrote(c, u, row)
    BY <1>14, WroteStore
  <2>2. \A t \in Syncs : Undisturbed(t)
    BY <2>1, MediaAssumption DEF Wrote, Others, Undisturbed, Rows, Actors
  <2> QED
    BY <2>2, NoneDisturbed
<1>15. ASSUME NEW k \in Captures, Ask(k)
      PROVE  Imported'
  <2>1. \A t \in Syncs : Undisturbed(t)
    BY <1>15, TurnedAsk, MediaAssumption DEF Turned, Others, Undisturbed,
      Rows, Actors
  <2> QED
    BY <2>1, NoneDisturbed
<1>16. ASSUME NEW k \in Captures, Grant(k)
      PROVE  Imported'
  <2>1. \A t \in Syncs : Undisturbed(t)
    BY <1>16, TurnedGrant, MediaAssumption DEF Turned, Others, Undisturbed,
      Rows, Actors
  <2> QED
    BY <2>1, NoneDisturbed
<1>17. ASSUME NEW k \in Captures, NEW r \in Sources, LockSource(k, r)
      PROVE  Imported'
  <2>1. /\ Turned(k, "locking") \/ Turned(k, "reading")
        /\ UNCHANGED task /\ owner[r] \in {Nobody, k}
        /\ \A q \in Rows \ {r} : owner'[q] = owner[q]
    BY <1>17, TurnedLockSource
  <2>2. \A t \in Syncs : t # k /\ t # Nobody
    BY MediaAssumption DEF Actors
  <2>3. \A t \in Syncs : Undisturbed(t)
    BY <2>1, <2>2 DEF Turned, Others, Undisturbed, Rows, Actors
  <2> QED
    BY <2>3, NoneDisturbed
<1>18. ASSUME NEW k \in Captures, NEW u \in Urls, LockArticle(k, u)
      PROVE  Imported'
  <2>1. PICK row : Wrote(k, u, row)
    BY <1>18, WroteLockArticle
  <2>2. \A t \in Syncs : Undisturbed(t)
    BY <2>1, MediaAssumption DEF Wrote, Others, Undisturbed, Rows, Actors
  <2> QED
    BY <2>2, NoneDisturbed
<1> QED
  BY <1>1, <1>2, <1>3, <1>4, <1>5, <1>6, <1>7, <1>8, <1>9, <1>10, <1>11,
    <1>12, <1>13, <1>14, <1>15, <1>16, <1>17, <1>18, QuietSteps DEF Flat,
    Actors

-------------------------------------------------------------------------------
(* Captures.                                                               *)
Unmoved(k) ==
  at'[k] \in {"waiting", "locking", "reading"} =>
    /\ at'[k] = at[k] /\ task'[k] = task[k]
    /\ \A u \in Urls : owner[u] = k => owner'[u] = k /\ shelf'[u] = shelf[u]

SelectedBy(k) ==
  /\ at[k] \in {"waiting", "locking", "reading"} =>
       \A u \in Urls : task[k].snap[u] # Gone =>
         u \in task[k].todo \/ (owner[u] = k /\ shelf[u].present)
  /\ at[k] = "reading" => task[k].todo = {}

LEMMA SelectedByAll ==
  /\ Selected <=> \A k \in Captures : SelectedBy(k)
  /\ Selected' <=> \A k \in Captures : SelectedBy(k)'
BY DEF Selected, SelectedBy

LEMMA SelectedKept ==
  ASSUME Selected, NEW k \in Captures, Unmoved(k)
  PROVE  SelectedBy(k)'
<1>1. CASE at'[k] \notin {"waiting", "locking", "reading"}
  BY <1>1 DEF SelectedBy
<1>2. CASE at'[k] \in {"waiting", "locking", "reading"}
  <2>1. /\ at'[k] = at[k] /\ task'[k] = task[k]
        /\ \A u \in Urls : owner[u] = k => owner'[u] = k /\ shelf'[u] = shelf[u]
    BY <1>2 DEF Unmoved
  <2>2. SelectedBy(k)
    BY SelectedByAll
  <2> QED
    BY <1>2, <2>1, <2>2 DEF SelectedBy
<1> QED
  BY <1>1, <1>2

LEMMA NoneMoved ==
  ASSUME Selected, \A k \in Captures : Unmoved(k)
  PROVE  Selected'
  BY SelectedKept, SelectedByAll

LEMMA OneMoved ==
  ASSUME Selected, NEW k \in Captures, SelectedBy(k)', \A j \in Captures \ {k}
    : Unmoved(j)
  PROVE  Selected'
  BY SelectedKept, SelectedByAll

(* What captures have selected.                                            *)
LEMMA SelectedStep ==
  ASSUME TypeOK, Selected, Flat
  PROVE  Selected'
<1>1. ASSUME NEW a \in Actors, Finishes(a)
      PROVE  Selected'
  <2>1. \A k \in Captures : Unmoved(k)
    BY <1>1, LeftFinishes, MediaAssumption DEF Left, Others, Unmoved,
      Sheltered, Actors, Rows
  <2> QED
    BY <2>1, NoneMoved
<1>2. CASE Edit
  <2>1. \A k \in Captures : Unmoved(k)
    BY <1>2 DEF Edit, table, Unmoved
  <2> QED
    BY <2>1, NoneMoved
<1>3. ASSUME NEW a \in Actors, Quiet(a)
      PROVE  Selected'
  <2>1. \A k \in Captures : Unmoved(k)
    BY <1>3, QuietEffect DEF Others, Unmoved, Sheltered, Actors
  <2> QED
    BY <2>1, NoneMoved
<1>4. ASSUME NEW s \in Syncs, TakeSnapshot(s)
      PROVE  Selected'
  <2>1. \A k \in Captures : Unmoved(k)
    BY <1>4, TurnedTakeSnapshot, MediaAssumption DEF Turned, Others, Unmoved,
      Actors, Rows
  <2> QED
    BY <2>1, NoneMoved
<1>5. ASSUME NEW s \in Syncs, ImportSources(s)
      PROVE  Selected'
  <2>1. \A k \in Captures : Unmoved(k)
    BY <1>5, TurnedImportSources, MediaAssumption DEF Turned, Others, Unmoved,
      Actors, Rows
  <2> QED
    BY <2>1, NoneMoved
<1>6. ASSUME NEW s \in Syncs, Reconcile(s)
      PROVE  Selected'
  <2>1. \A k \in Captures : Unmoved(k)
    BY <1>6, TurnedReconcile, MediaAssumption DEF Turned, Others, Unmoved,
      Actors, Rows
  <2> QED
    BY <2>1, NoneMoved
<1>7. ASSUME NEW s \in Syncs, Publish(s)
      PROVE  Selected'
  <2>1. \A k \in Captures : Unmoved(k)
    BY <1>7, CommittedSync, MediaAssumption DEF Committed, Left, Others,
      Unmoved, Actors, Rows
  <2> QED
    BY <2>1, NoneMoved
<1>8. ASSUME NEW s \in Syncs, PublishUnheard(s)
      PROVE  Selected'
  <2>1. \A k \in Captures : Unmoved(k)
    BY <1>8, CommittedSync, MediaAssumption DEF Committed, Left, Others,
      Unmoved, Actors, Rows
  <2> QED
    BY <2>1, NoneMoved
<1>9. ASSUME NEW s \in Syncs, NEW u \in Urls, Upsert(s, u)
      PROVE  Selected'
  <2>1. PICK row : Wrote(s, u, row)
    BY <1>9, WroteUpsert
  <2>2. \A k \in Captures : Unmoved(k)
    BY <2>1, MediaAssumption DEF Wrote, Others, Unmoved, Rows, Actors
  <2> QED
    BY <2>2, NoneMoved
<1>10. ASSUME NEW s \in Syncs, NEW u \in Urls, Hide(s, u)
      PROVE  Selected'
  <2>1. PICK row : Wrote(s, u, row)
    BY <1>10, WroteHide
  <2>2. \A k \in Captures : Unmoved(k)
    BY <2>1, MediaAssumption DEF Wrote, Others, Unmoved, Rows, Actors
  <2> QED
    BY <2>2, NoneMoved
<1>11. ASSUME NEW c \in Collectors, Fetch(c)
      PROVE  Selected'
  <2>1. \A k \in Captures : Unmoved(k)
    BY <1>11, TurnedFetch, MediaAssumption DEF Turned, Others, Unmoved,
      Actors, Rows
  <2> QED
    BY <2>1, NoneMoved
<1>12. ASSUME NEW c \in Collectors, Look(c)
      PROVE  Selected'
  <2>1. \A k \in Captures : Unmoved(k)
    BY <1>12, TurnedLook, MediaAssumption DEF Turned, Others, Unmoved, Actors,
      Rows
  <2> QED
    BY <2>1, NoneMoved
<1>13. ASSUME NEW c \in Collectors, Settle(c)
      PROVE  Selected'
  <2>1. \A k \in Captures : Unmoved(k)
    BY <1>13, CommittedCollector, MediaAssumption DEF Committed, Left, Others,
      Unmoved, Actors, Rows
  <2> QED
    BY <2>1, NoneMoved
<1>14. ASSUME NEW c \in Collectors, NEW u \in Urls, Store(c, u)
      PROVE  Selected'
  <2>1. PICK row : Wrote(c, u, row)
    BY <1>14, WroteStore
  <2>2. \A k \in Captures : Unmoved(k)
    BY <2>1, MediaAssumption DEF Wrote, Others, Unmoved, Rows, Actors
  <2> QED
    BY <2>2, NoneMoved
<1>15. ASSUME NEW k \in Captures, Ask(k)
      PROVE  Selected'
  <2>1. /\ Turned(k, "waiting") /\ UNCHANGED owner
        /\ \A u \in Urls : task'[k].snap[u] # Gone => u \in task'[k].todo
    BY <1>15, TurnedAsk
  <2>2. SelectedBy(k)
    BY SelectedByAll
  <2>4. SelectedBy(k)'
    BY <2>1, <2>2 DEF SelectedBy, Turned
  <2>5. \A j \in Captures \ {k} : Unmoved(j)
    BY <2>1 DEF Turned, Others, Unmoved, Actors
  <2> QED
    BY <2>4, <2>5, OneMoved
<1>16. ASSUME NEW k \in Captures, Grant(k)
      PROVE  Selected'
  <2>1. Turned(k, "locking") /\ at[k] = "waiting" /\ UNCHANGED <<owner, task>>
    BY <1>16, TurnedGrant
  <2>2. SelectedBy(k)
    BY SelectedByAll
  <2>4. SelectedBy(k)'
    BY <2>1, <2>2 DEF SelectedBy, Turned
  <2>5. \A j \in Captures \ {k} : Unmoved(j)
    BY <2>1 DEF Turned, Others, Unmoved, Actors
  <2> QED
    BY <2>4, <2>5, OneMoved
<1>17. ASSUME NEW k \in Captures, NEW r \in Sources, LockSource(k, r)
      PROVE  Selected'
  <2>1. /\ Turned(k, "locking") \/ Turned(k, "reading")
        /\ at[k] = "locking" /\ UNCHANGED task
        /\ task[k].todo = {} /\ \A u \in Urls : owner'[u] = owner[u]
    BY <1>17, TurnedLockSource
  <2>2. SelectedBy(k)
    BY SelectedByAll
  <2>4. SelectedBy(k)'
    BY <2>1, <2>2 DEF SelectedBy, Turned
  <2>5. \A j \in Captures \ {k} : Unmoved(j)
    BY <2>1 DEF Turned, Others, Unmoved, Actors
  <2> QED
    BY <2>4, <2>5, OneMoved
<1>18. ASSUME NEW k \in Captures, NEW u \in Urls, LockArticle(k, u)
      PROVE  Selected'
  <2>1. Wrote(k, u, shelf[u]) /\ at[k] = "locking" /\ shelf[u].present
    BY <1>18, WroteLockArticle
  <2>2. SelectedBy(k)
    BY SelectedByAll
  <2>3. /\ task'[k].snap = task[k].snap /\ task'[k].todo = task[k].todo \ {u}
        /\ owner'[u] = k /\ \A v \in Urls : v # u => owner'[v] = owner[v]
        /\ at'[k] = at[k] /\ shelf' = shelf /\ Others(k)
    BY <2>1 DEF Wrote, Rows
  <2>4. SelectedBy(k)'
    BY <2>1, <2>2, <2>3 DEF SelectedBy
  <2>5. \A j \in Captures \ {k} : Unmoved(j)
    BY <2>1, MediaAssumption DEF Wrote, Others, Unmoved, Rows, Actors
  <2> QED
    BY <2>4, <2>5, OneMoved
<1> QED
  BY <1>1, <1>2, <1>3, <1>4, <1>5, <1>6, <1>7, <1>8, <1>9, <1>10, <1>11,
    <1>12, <1>13, <1>14, <1>15, <1>16, <1>17, <1>18, QuietSteps DEF Flat,
    Actors

-------------------------------------------------------------------------------
(* IInv is inductive.                                                      *)
LEMMA InitialInvariant ==
  ASSUME Init
  PROVE  IInv
<1> USE Constants, MediaAssumption DEF Init
<1>1. TypeOK
  <2>1. [id |-> 2, rev |-> 2] \in Entry
    BY DEF Entry
  <2>2. agenda \in [Urls -> Entry]
    BY <2>1
  <2> QED
    BY <2>2 DEF TypeOK, Rows, Runs, Actors, SyncPlaces, CollectorPlaces,
      CapturePlaces,
                Statuses
<1>2. Discipline
  BY DEF Discipline, Importing, Rows, Actors
<1>3. Numbered
  BY DEF Numbered, Runs, Actors
<1>4. Timed
  <2>1. NoTask.stamp = 0
    BY DEF NoTask
  <2> QED
    BY <2>1 DEF Timed, Stamped, Runs
<1>5. Written
  BY DEF Written, Rows, Actors
<1>6. Imported
  BY DEF Imported, Actors
<1>7. Selected
  BY DEF Selected, Actors
<1> QED
  BY <1>1, <1>2, <1>3, <1>4, <1>5, <1>6, <1>7 DEF IInv

LEMMA NextInvariant ==
  ASSUME IInv, Next
  PROVE  IInv'
<1>1. TypeOK /\ Discipline /\ Numbered /\ Timed /\ Written /\ Imported /\ Selected
  BY DEF IInv
<1>2. Flat
  BY <1>1, Steps
<1>3. faults' \in Nat
  BY <1>1 DEF Next, SyncStep, CollectorStep, CaptureStep, Beginning, Fault,
    TypeOK
<1> QED
  BY <1>1, <1>2, <1>3, TypeStep, DisciplineStep, NumberedStep, TimedStep,
    WrittenStep,
     ImportedStep, SelectedStep DEF IInv

LEMMA StutteringInvariant ==
  ASSUME IInv, UNCHANGED vars
  PROVE  IInv'
<1> USE DEF vars, world, table, ledger
<1>1. TypeOK' /\ Discipline' /\ Numbered'
  BY DEF IInv, TypeOK, Discipline, Numbered
<1>2. Timed'
  BY DEF IInv, Timed
<1>3. Written'
  BY DEF IInv, Written, WrittenBySync, WrittenByCollector, Upserted
<1>4. Imported' /\ Selected'
  BY DEF IInv, Imported, Selected
<1> QED
  BY <1>1, <1>2, <1>3, <1>4 DEF IInv

(* IInv holds throughout: who has locked what, and what every transaction  *)
(* has written and still has to write, by all the code of syncs, native    *)
(* collections and captures.                                               *)
THEOREM Invariant == Spec => []IInv
<1>1. Init => IInv
  BY InitialInvariant
<1>2. IInv /\ [Next]_vars => IInv'
  BY NextInvariant, StutteringInvariant
<1> QED
  BY <1>1, <1>2, PTL DEF Spec

-------------------------------------------------------------------------------
(* The ledger of runs.                                                     *)
(* What has ended keeps its outcome.                                       *)
LEMMA EndedRunsStay ==
  ASSUME TypeOK, Numbered, Flat
  PROVE  \A r \in Runs : runs[r] \in Ended => runs'[r] = runs[r]
<1> USE DEF Ended, ledger
<1>1. ASSUME NEW a \in Actors, Finishes(a)
      PROVE  \A r \in Runs : runs[r] \in Ended => runs'[r] = runs[r]
  BY <1>1 DEF Finishes, ledger
<1>2. CASE Edit
  BY <1>2 DEF Edit, ledger
<1>3. ASSUME NEW s \in Syncs, Begin(s)
      PROVE  \A r \in Runs : runs[r] \in Ended => runs'[r] = runs[r]
  BY <1>3 DEF Begin
<1>4. ASSUME NEW s \in Syncs, SkipConcurrent(s)
      PROVE  \A r \in Runs : runs[r] \in Ended => runs'[r] = runs[r]
  BY <1>4 DEF SkipConcurrent, Numbered, TypeOK
<1>5. ASSUME NEW s \in Syncs, Open(s)
      PROVE  \A r \in Runs : runs[r] \in Ended => runs'[r] = runs[r]
  <2>1. runs[run[s]] = "none"
    BY <1>5 DEF Open, Numbered
  <2> QED
    BY <1>5, <2>1 DEF Open, StaleRuns
<1>6. ASSUME NEW s \in Syncs, OpenRefused(s)
      PROVE  \A r \in Runs : runs[r] \in Ended => runs'[r] = runs[r]
  BY <1>6 DEF OpenRefused
<1>7. ASSUME NEW s \in Syncs, RecordFailure(s)
      PROVE  \A r \in Runs : runs[r] \in Ended => runs'[r] = runs[r]
  BY <1>7 DEF RecordFailure, StillRunning, TypeOK
<1>8. ASSUME NEW s \in Syncs, Unrecorded(s)
      PROVE  \A r \in Runs : runs[r] \in Ended => runs'[r] = runs[r]
  BY <1>8 DEF Unrecorded
<1>9. ASSUME NEW s \in Syncs, Release(s)
      PROVE  \A r \in Runs : runs[r] \in Ended => runs'[r] = runs[r]
  BY <1>9 DEF Release
<1>10. ASSUME NEW s \in Syncs, Restart(s)
      PROVE  \A r \in Runs : runs[r] \in Ended => runs'[r] = runs[r]
  BY <1>10 DEF Restart
<1>11. ASSUME NEW s \in Syncs, TakeSnapshot(s)
      PROVE  \A r \in Runs : runs[r] \in Ended => runs'[r] = runs[r]
  BY <1>11 DEF TakeSnapshot
<1>12. ASSUME NEW s \in Syncs, ImportSources(s)
      PROVE  \A r \in Runs : runs[r] \in Ended => runs'[r] = runs[r]
  BY <1>12 DEF ImportSources
<1>13. ASSUME NEW s \in Syncs, Reconcile(s)
      PROVE  \A r \in Runs : runs[r] \in Ended => runs'[r] = runs[r]
  BY <1>13 DEF Reconcile
<1>14. ASSUME NEW s \in Syncs, Publish(s)
      PROVE  \A r \in Runs : runs[r] \in Ended => runs'[r] = runs[r]
  BY <1>14, CommittedSync DEF TypeOK
<1>15. ASSUME NEW s \in Syncs, PublishUnheard(s)
      PROVE  \A r \in Runs : runs[r] \in Ended => runs'[r] = runs[r]
  BY <1>15, CommittedSync DEF TypeOK
<1>16. ASSUME NEW s \in Syncs, NEW u \in Urls, Upsert(s, u)
      PROVE  \A r \in Runs : runs[r] \in Ended => runs'[r] = runs[r]
  BY <1>16 DEF Upsert, ledger
<1>17. ASSUME NEW s \in Syncs, NEW u \in Urls, Hide(s, u)
      PROVE  \A r \in Runs : runs[r] \in Ended => runs'[r] = runs[r]
  BY <1>17 DEF Hide, ledger
<1>18. ASSUME NEW c \in Collectors, Start(c)
      PROVE  \A r \in Runs : runs[r] \in Ended => runs'[r] = runs[r]
  BY <1>18 DEF Start
<1>19. ASSUME NEW c \in Collectors, FetchFails(c)
      PROVE  \A r \in Runs : runs[r] \in Ended => runs'[r] = runs[r]
  BY <1>19 DEF FetchFails
<1>20. ASSUME NEW c \in Collectors, Revive(c)
      PROVE  \A r \in Runs : runs[r] \in Ended => runs'[r] = runs[r]
  BY <1>20 DEF Revive
<1>21. ASSUME NEW c \in Collectors, Fetch(c)
      PROVE  \A r \in Runs : runs[r] \in Ended => runs'[r] = runs[r]
  BY <1>21 DEF Fetch
<1>22. ASSUME NEW c \in Collectors, Look(c)
      PROVE  \A r \in Runs : runs[r] \in Ended => runs'[r] = runs[r]
  BY <1>22 DEF Look
<1>23. ASSUME NEW c \in Collectors, Settle(c)
      PROVE  \A r \in Runs : runs[r] \in Ended => runs'[r] = runs[r]
  BY <1>23 DEF Settle
<1>24. ASSUME NEW c \in Collectors, NEW u \in Urls, Store(c, u)
      PROVE  \A r \in Runs : runs[r] \in Ended => runs'[r] = runs[r]
  BY <1>24 DEF Store
<1>25. ASSUME NEW k \in Captures, Ask(k)
      PROVE  \A r \in Runs : runs[r] \in Ended => runs'[r] = runs[r]
  BY <1>25 DEF Ask
<1>26. ASSUME NEW k \in Captures, Grant(k)
      PROVE  \A r \in Runs : runs[r] \in Ended => runs'[r] = runs[r]
  BY <1>26 DEF Grant
<1>27. ASSUME NEW k \in Captures, NEW q \in Sources, LockSource(k, q)
      PROVE  \A r \in Runs : runs[r] \in Ended => runs'[r] = runs[r]
  BY <1>27 DEF LockSource
<1>28. ASSUME NEW k \in Captures, NEW u \in Urls, LockArticle(k, u)
      PROVE  \A r \in Runs : runs[r] \in Ended => runs'[r] = runs[r]
  BY <1>28 DEF LockArticle
<1> QED
  BY <1>1, <1>2, <1>3, <1>4, <1>5, <1>6, <1>7, <1>8, <1>9, <1>10, <1>11,
    <1>12, <1>13, <1>14, <1>15, <1>16, <1>17, <1>18, <1>19, <1>20, <1>21,
    <1>22, <1>23, <1>24, <1>25, <1>26, <1>27, <1>28 DEF Flat, Actors

(* A step takes no live run for stale.                                     *)
LEMMA SparedStep ==
  ASSUME TypeOK, Discipline, Numbered, LiveRunIsSpared, Flat
  PROVE  LiveRunIsSpared'
<1> USE DEF LiveRunIsSpared, Importing, Goes, TypeOK, Actors, ledger
<1>1. ASSUME NEW a \in Actors, Finishes(a)
      PROVE  LiveRunIsSpared'
  BY <1>1 DEF Finishes, Outside, Failures
<1>2. CASE Edit
  BY <1>2 DEF Edit
<1>3. ASSUME NEW s \in Syncs, Begin(s)
      PROVE  LiveRunIsSpared'
  BY <1>3 DEF Begin, Numbered
<1>4. ASSUME NEW s \in Syncs, SkipConcurrent(s)
      PROVE  LiveRunIsSpared'
  <2>1. /\ at[s] = "asking" /\ runs' = [runs EXCEPT ![run[s]] = "skipped"]
        /\ Goes(s, "idle") /\ run' = run
    BY <1>4 DEF SkipConcurrent
  <2>2. \A t \in Syncs : at[t] \in Importing => t # s /\ run[t] # run[s] /\ run[t] \in Runs
    BY <2>1, RunOf DEF Numbered
  <2> QED
    BY <2>1, <2>2
<1>5. ASSUME NEW s \in Syncs, Open(s)
      PROVE  LiveRunIsSpared'
  <2>1. \A t \in Syncs : at[t] \notin Importing
    BY <1>5, MediaAssumption DEF Open, LockIsFree, Discipline, Actors
  <2>2. Goes(s, "opened") /\ run' = run
    BY <1>5 DEF Open
  <2>3. run[s] \in Runs /\ runs'[run[s]] = "running"
    BY <1>5, RunOf DEF Open
  <2>4. \A t \in Syncs \ {s} : at'[t] = at[t]
    BY <2>2
  <2> QED
    BY <2>1, <2>2, <2>3, <2>4
<1>6. ASSUME NEW s \in Syncs, OpenRefused(s)
      PROVE  LiveRunIsSpared'
  BY <1>6 DEF OpenRefused
<1>7. ASSUME NEW s \in Syncs, RecordFailure(s)
      PROVE  LiveRunIsSpared'
  <2>1. /\ at[s] \in Failures /\ runs' = [runs EXCEPT ![run[s]] = "failed"] /\ run' = run
        /\ Goes(s, "releasing") \/ Goes(s, "leaving")
    BY <1>7 DEF RecordFailure
  <2>2. \A t \in Syncs : at[t] \in Importing => t # s /\ run[t] # run[s] /\ run[t] \in Runs
    BY <2>1, RunOf DEF Numbered, Failures
  <2> QED
    BY <2>1, <2>2 DEF Failures
<1>8. ASSUME NEW s \in Syncs, Unrecorded(s)
      PROVE  LiveRunIsSpared'
  BY <1>8 DEF Unrecorded
<1>9. ASSUME NEW s \in Syncs, Release(s)
      PROVE  LiveRunIsSpared'
  BY <1>9 DEF Release
<1>10. ASSUME NEW s \in Syncs, Restart(s)
      PROVE  LiveRunIsSpared'
  BY <1>10 DEF Restart
<1>11. ASSUME NEW s \in Syncs, TakeSnapshot(s)
      PROVE  LiveRunIsSpared'
  BY <1>11 DEF TakeSnapshot
<1>12. ASSUME NEW s \in Syncs, ImportSources(s)
      PROVE  LiveRunIsSpared'
  BY <1>12 DEF ImportSources
<1>13. ASSUME NEW s \in Syncs, Reconcile(s)
      PROVE  LiveRunIsSpared'
  BY <1>13 DEF Reconcile
<1>14. ASSUME NEW s \in Syncs, Publish(s)
      PROVE  LiveRunIsSpared'
  <2>1. at[s] = "reconciling" /\ runs' = [runs EXCEPT ![run[s]] = "succeeded"] /\ run' = run
    BY <1>14 DEF Publish, Succeeds
  <2>2. \A t \in Syncs : at[t] \in Importing => t = s
    BY <2>1, OneImport
  <2>3. Goes(s, "releasing") \/ Goes(s, "failing")
    BY <1>14 DEF Publish
  <2> QED
    BY <2>2, <2>3
<1>15. ASSUME NEW s \in Syncs, PublishUnheard(s)
      PROVE  LiveRunIsSpared'
  <2>1. at[s] = "reconciling" /\ runs' = [runs EXCEPT ![run[s]] = "succeeded"] /\ run' = run
    BY <1>15 DEF PublishUnheard, Succeeds
  <2>2. \A t \in Syncs : at[t] \in Importing => t = s
    BY <2>1, OneImport
  <2>3. Goes(s, "releasing") \/ Goes(s, "failing")
    BY <1>15 DEF PublishUnheard
  <2> QED
    BY <2>2, <2>3
<1>16. ASSUME NEW s \in Syncs, NEW u \in Urls, Upsert(s, u)
      PROVE  LiveRunIsSpared'
  BY <1>16 DEF Upsert
<1>17. ASSUME NEW s \in Syncs, NEW u \in Urls, Hide(s, u)
      PROVE  LiveRunIsSpared'
  BY <1>17 DEF Hide
<1>18. ASSUME NEW c \in Collectors, Start(c)
      PROVE  LiveRunIsSpared'
  BY <1>18 DEF Start
<1>19. ASSUME NEW c \in Collectors, FetchFails(c)
      PROVE  LiveRunIsSpared'
  BY <1>19 DEF FetchFails
<1>20. ASSUME NEW c \in Collectors, Revive(c)
      PROVE  LiveRunIsSpared'
  BY <1>20 DEF Revive
<1>21. ASSUME NEW c \in Collectors, Fetch(c)
      PROVE  LiveRunIsSpared'
  BY <1>21 DEF Fetch
<1>22. ASSUME NEW c \in Collectors, Look(c)
      PROVE  LiveRunIsSpared'
  BY <1>22 DEF Look
<1>23. ASSUME NEW c \in Collectors, Settle(c)
      PROVE  LiveRunIsSpared'
  BY <1>23 DEF Settle
<1>24. ASSUME NEW c \in Collectors, NEW u \in Urls, Store(c, u)
      PROVE  LiveRunIsSpared'
  BY <1>24 DEF Store
<1>25. ASSUME NEW k \in Captures, Ask(k)
      PROVE  LiveRunIsSpared'
  BY <1>25 DEF Ask
<1>26. ASSUME NEW k \in Captures, Grant(k)
      PROVE  LiveRunIsSpared'
  BY <1>26 DEF Grant
<1>27. ASSUME NEW k \in Captures, NEW r \in Sources, LockSource(k, r)
      PROVE  LiveRunIsSpared'
  BY <1>27 DEF LockSource
<1>28. ASSUME NEW k \in Captures, NEW u \in Urls, LockArticle(k, u)
      PROVE  LiveRunIsSpared'
  BY <1>28 DEF LockArticle
<1> QED
  BY <1>1, <1>2, <1>3, <1>4, <1>5, <1>6, <1>7, <1>8, <1>9, <1>10, <1>11,
    <1>12, <1>13, <1>14, <1>15, <1>16, <1>17, <1>18, <1>19, <1>20, <1>21,
    <1>22, <1>23, <1>24, <1>25, <1>26, <1>27, <1>28 DEF Flat

(* An import goes on only under a run that is shown as running: Open, which*)
(* fails every run it finds running, is kept from doing so by the lock.    *)
THEOREM LiveRunsAreSpared == Spec => []LiveRunIsSpared
<1>1. Init => LiveRunIsSpared
  BY DEF Init, LiveRunIsSpared, Importing, Actors
<1>2. IInv /\ LiveRunIsSpared /\ [Next]_vars => LiveRunIsSpared'
  <2>1. ASSUME IInv, LiveRunIsSpared, Next PROVE LiveRunIsSpared'
    BY <2>1, Steps, SparedStep DEF IInv
  <2>2. ASSUME LiveRunIsSpared, UNCHANGED vars PROVE LiveRunIsSpared'
    BY <2>2 DEF LiveRunIsSpared, vars, ledger
  <2> QED
    BY <2>1, <2>2
<1> QED
  BY <1>1, <1>2, Invariant, PTL DEF Spec

(* A step leaves at most one run running.                                  *)
LEMMA OneRunningStep ==
  ASSUME TypeOK, AtMostOneRunning, Flat
  PROVE  AtMostOneRunning'
<1> USE DEF AtMostOneRunning, ledger
<1>1. ASSUME NEW a \in Actors, Finishes(a)
      PROVE  AtMostOneRunning'
  BY <1>1 DEF Finishes
<1>2. CASE Edit
  BY <1>2 DEF Edit
<1>3. ASSUME NEW s \in Syncs, Begin(s)
      PROVE  AtMostOneRunning'
  BY <1>3 DEF Begin
<1>4. ASSUME NEW s \in Syncs, SkipConcurrent(s)
      PROVE  AtMostOneRunning'
  BY <1>4 DEF SkipConcurrent, TypeOK
<1>5. ASSUME NEW s \in Syncs, Open(s)
      PROVE  AtMostOneRunning'
  <2>1. \A r \in Runs : r # run[s] => runs'[r] # "running"
    BY <1>5 DEF Open, StaleRuns
  <2> QED
    BY <2>1
<1>6. ASSUME NEW s \in Syncs, OpenRefused(s)
      PROVE  AtMostOneRunning'
  BY <1>6 DEF OpenRefused
<1>7. ASSUME NEW s \in Syncs, RecordFailure(s)
      PROVE  AtMostOneRunning'
  BY <1>7 DEF RecordFailure, TypeOK
<1>8. ASSUME NEW s \in Syncs, Unrecorded(s)
      PROVE  AtMostOneRunning'
  BY <1>8 DEF Unrecorded
<1>9. ASSUME NEW s \in Syncs, Release(s)
      PROVE  AtMostOneRunning'
  BY <1>9 DEF Release
<1>10. ASSUME NEW s \in Syncs, Restart(s)
      PROVE  AtMostOneRunning'
  BY <1>10 DEF Restart
<1>11. ASSUME NEW s \in Syncs, TakeSnapshot(s)
      PROVE  AtMostOneRunning'
  BY <1>11 DEF TakeSnapshot
<1>12. ASSUME NEW s \in Syncs, ImportSources(s)
      PROVE  AtMostOneRunning'
  BY <1>12 DEF ImportSources
<1>13. ASSUME NEW s \in Syncs, Reconcile(s)
      PROVE  AtMostOneRunning'
  BY <1>13 DEF Reconcile
<1>14. ASSUME NEW s \in Syncs, Publish(s)
      PROVE  AtMostOneRunning'
  BY <1>14, CommittedSync DEF TypeOK
<1>15. ASSUME NEW s \in Syncs, PublishUnheard(s)
      PROVE  AtMostOneRunning'
  BY <1>15, CommittedSync DEF TypeOK
<1>16. ASSUME NEW s \in Syncs, NEW u \in Urls, Upsert(s, u)
      PROVE  AtMostOneRunning'
  BY <1>16 DEF Upsert
<1>17. ASSUME NEW s \in Syncs, NEW u \in Urls, Hide(s, u)
      PROVE  AtMostOneRunning'
  BY <1>17 DEF Hide
<1>18. ASSUME NEW c \in Collectors, Start(c)
      PROVE  AtMostOneRunning'
  BY <1>18 DEF Start
<1>19. ASSUME NEW c \in Collectors, FetchFails(c)
      PROVE  AtMostOneRunning'
  BY <1>19 DEF FetchFails
<1>20. ASSUME NEW c \in Collectors, Revive(c)
      PROVE  AtMostOneRunning'
  BY <1>20 DEF Revive
<1>21. ASSUME NEW c \in Collectors, Fetch(c)
      PROVE  AtMostOneRunning'
  BY <1>21 DEF Fetch
<1>22. ASSUME NEW c \in Collectors, Look(c)
      PROVE  AtMostOneRunning'
  BY <1>22 DEF Look
<1>23. ASSUME NEW c \in Collectors, Settle(c)
      PROVE  AtMostOneRunning'
  BY <1>23 DEF Settle
<1>24. ASSUME NEW c \in Collectors, NEW u \in Urls, Store(c, u)
      PROVE  AtMostOneRunning'
  BY <1>24 DEF Store
<1>25. ASSUME NEW k \in Captures, Ask(k)
      PROVE  AtMostOneRunning'
  BY <1>25 DEF Ask
<1>26. ASSUME NEW k \in Captures, Grant(k)
      PROVE  AtMostOneRunning'
  BY <1>26 DEF Grant
<1>27. ASSUME NEW k \in Captures, NEW r \in Sources, LockSource(k, r)
      PROVE  AtMostOneRunning'
  BY <1>27 DEF LockSource
<1>28. ASSUME NEW k \in Captures, NEW u \in Urls, LockArticle(k, u)
      PROVE  AtMostOneRunning'
  BY <1>28 DEF LockArticle
<1> QED
  BY <1>1, <1>2, <1>3, <1>4, <1>5, <1>6, <1>7, <1>8, <1>9, <1>10, <1>11,
    <1>12, <1>13, <1>14, <1>15, <1>16, <1>17, <1>18, <1>19, <1>20, <1>21,
    <1>22, <1>23, <1>24, <1>25, <1>26, <1>27, <1>28 DEF Flat, Actors

(* However many processes are killed while their run is running, Open      *)
(* leaves no run running but its own.                                      *)
THEOREM OneRunning == Spec => []AtMostOneRunning
<1>1. Init => AtMostOneRunning
  BY DEF Init, AtMostOneRunning
<1>2. IInv /\ AtMostOneRunning /\ [Next]_vars => AtMostOneRunning'
  <2>1. ASSUME IInv, AtMostOneRunning, Next PROVE AtMostOneRunning'
    BY <2>1, Steps, OneRunningStep DEF IInv
  <2>2. ASSUME AtMostOneRunning, UNCHANGED vars PROVE AtMostOneRunning'
    BY <2>2 DEF AtMostOneRunning, vars, ledger
  <2> QED
    BY <2>1, <2>2
<1> QED
  BY <1>1, <1>2, Invariant, PTL DEF Spec

(* A run that has ended keeps its outcome: a sync that hears nothing of its*)
(* commit, a sync that is late with its failure and a sync that takes over *)
(* leave what has been recorded.                                           *)
THEOREM RunsEnd == Spec => RunsEndOnce
<1>1. IInv /\ [Next]_vars => [\A r \in Runs : runs[r] \in Ended => runs'[r] = runs[r]]_vars
  <2>1. ASSUME IInv, Next
        PROVE  \A r \in Runs : runs[r] \in Ended => runs'[r] = runs[r]
    BY <2>1, Steps, EndedRunsStay DEF IInv
  <2> QED
    BY <2>1
<1> QED
  BY <1>1, Invariant, PTL DEF Spec, RunsEndOnce

-------------------------------------------------------------------------------
(* What is shown, and what is hidden.                                      *)
LEMMA ImportCommits ==
  ASSUME TypeOK, Discipline, Written, Imported, NEW s \in Syncs, NEW u \in
    Urls,
         Publish(s) \/ PublishUnheard(s)
  PROVE  /\ task[s].snap[u] # Gone =>
              /\ shelf'[u].present /\ shelf'[u].absent = 0
              /\ shelf'[u].id = task[s].snap[u].id /\ shelf'[u].rev = task[s].snap[u].rev
         /\ task[s].snap[u] = Gone =>
              \/ /\ shelf'[u] = shelf[u]
                 /\ shelf[u].present => \A r \in Runs : observed[r] # shelf[u].seen
              \/ /\ ~shelf'[u].present
                 /\ shelf'[u].absent = task[s].stamp /\ shelf'[u].seen < task[s].stamp
<1>1. /\ Committed(s) /\ at[s] = "reconciling" /\ task[s].todo = {}
  BY CommittedSync
<1>2. shelf'[u] = IF owner[u] = s THEN draft[u] ELSE shelf[u]
  BY <1>1 DEF Committed
<1>3. CASE task[s].snap[u] # Gone
  <2>1. owner[u] = s
    BY <1>1, <1>3 DEF Imported
  <2> QED
    BY <1>2, <1>3, <2>1, SyncDrafts
<1>4. CASE task[s].snap[u] = Gone /\ owner[u] = s
  BY <1>2, <1>4, SyncDrafts
<1>5. CASE task[s].snap[u] = Gone /\ owner[u] # s
  <2>1. shelf[u].present => \A r \in Runs : observed[r] # shelf[u].seen
    BY <1>1, <1>5 DEF Imported
  <2> QED
    BY <1>2, <1>5, <2>1
<1> QED
  BY <1>3, <1>4, <1>5

LEMMA CollectionCommits ==
  ASSUME TypeOK, Timed, Written, NEW c \in Collectors, NEW u \in Urls,
    Settle(c),
         shelf'[u] # shelf[u]
  PROVE  /\ shelf'[u].present /\ shelf'[u].absent = 0
         /\ shelf[u] # NoRow => shelf'[u].id = shelf[u].id /\ shelf'[u].rev = shelf[u].rev
         /\ \A r \in Runs : observed[r] # shelf'[u].seen
<1>1. Committed(c) /\ at[c] = "storing"
  BY CommittedCollector
<1>2. owner[u] = c /\ shelf'[u] = draft[u]
  BY <1>1 DEF Committed
<1>3. task[c].stamp # 0
  BY <1>1 DEF Timed, Stamped, Actors
<1>4. \A r \in Runs : observed[r] # task[c].stamp
  BY <1>3 DEF Timed, Actors
<1> QED
  BY <1>2, <1>4, CollectorDrafts

LEMMA ShelfUnchanged ==
  ASSUME TypeOK, Flat, \A s \in Syncs : ~Publish(s) /\ ~PublishUnheard(s),
         \A c \in Collectors : ~Settle(c)
  PROVE  UNCHANGED <<shelf, content, observed>>
<1> USE DEF table, ledger
<1>1. ASSUME NEW a \in Actors, Finishes(a) PROVE UNCHANGED <<shelf, content, observed>>
  BY <1>1 DEF Finishes, RollBack
<1>2. ASSUME Edit PROVE UNCHANGED <<shelf, content, observed>>
  BY <1>2 DEF Edit
<1>3. ASSUME NEW s \in Syncs, Begin(s) PROVE UNCHANGED <<shelf, content, observed>>
  BY <1>3 DEF Begin
<1>4. ASSUME NEW s \in Syncs, SkipConcurrent(s) PROVE UNCHANGED <<shelf, content, observed>>
  BY <1>4 DEF SkipConcurrent
<1>5. ASSUME NEW s \in Syncs, Open(s) PROVE UNCHANGED <<shelf, content, observed>>
  BY <1>5 DEF Open
<1>6. ASSUME NEW s \in Syncs, OpenRefused(s) PROVE UNCHANGED <<shelf, content, observed>>
  BY <1>6 DEF OpenRefused
<1>7. ASSUME NEW s \in Syncs, RecordFailure(s) PROVE UNCHANGED <<shelf, content, observed>>
  BY <1>7 DEF RecordFailure
<1>8. ASSUME NEW s \in Syncs, Unrecorded(s) PROVE UNCHANGED <<shelf, content, observed>>
  BY <1>8 DEF Unrecorded
<1>9. ASSUME NEW s \in Syncs, Release(s) PROVE UNCHANGED <<shelf, content, observed>>
  BY <1>9 DEF Release
<1>10. ASSUME NEW s \in Syncs, Restart(s) PROVE UNCHANGED <<shelf, content, observed>>
  BY <1>10 DEF Restart
<1>11. ASSUME NEW s \in Syncs, TakeSnapshot(s) PROVE UNCHANGED <<shelf, content, observed>>
  BY <1>11 DEF TakeSnapshot
<1>12. ASSUME NEW s \in Syncs, ImportSources(s) PROVE UNCHANGED <<shelf, content, observed>>
  BY <1>12 DEF ImportSources
<1>13. ASSUME NEW s \in Syncs, Reconcile(s) PROVE UNCHANGED <<shelf, content, observed>>
  BY <1>13 DEF Reconcile
<1>14. ASSUME NEW s \in Syncs, NEW u \in Urls, Upsert(s, u)
      PROVE  UNCHANGED <<shelf, content, observed>>
  BY <1>14 DEF Upsert
<1>15. ASSUME NEW s \in Syncs, NEW u \in Urls, Hide(s, u)
      PROVE  UNCHANGED <<shelf, content, observed>>
  BY <1>15 DEF Hide
<1>16. ASSUME NEW c \in Collectors, Start(c) PROVE UNCHANGED <<shelf, content, observed>>
  BY <1>16 DEF Start
<1>17. ASSUME NEW c \in Collectors, FetchFails(c)
      PROVE  UNCHANGED <<shelf, content, observed>>
  BY <1>17 DEF FetchFails
<1>18. ASSUME NEW c \in Collectors, Revive(c) PROVE UNCHANGED <<shelf, content, observed>>
  BY <1>18 DEF Revive
<1>19. ASSUME NEW c \in Collectors, Fetch(c) PROVE UNCHANGED <<shelf, content, observed>>
  BY <1>19 DEF Fetch
<1>20. ASSUME NEW c \in Collectors, Look(c) PROVE UNCHANGED <<shelf, content, observed>>
  BY <1>20 DEF Look
<1>21. ASSUME NEW c \in Collectors, NEW u \in Urls, Store(c, u)
      PROVE  UNCHANGED <<shelf, content, observed>>
  BY <1>21 DEF Store
<1>22. ASSUME NEW k \in Captures, Ask(k) PROVE UNCHANGED <<shelf, content, observed>>
  BY <1>22 DEF Ask
<1>23. ASSUME NEW k \in Captures, Grant(k) PROVE UNCHANGED <<shelf, content, observed>>
  BY <1>23 DEF Grant
<1>24. ASSUME NEW k \in Captures, NEW r \in Sources, LockSource(k, r)
      PROVE  UNCHANGED <<shelf, content, observed>>
  BY <1>24 DEF LockSource
<1>25. ASSUME NEW k \in Captures, NEW u \in Urls, LockArticle(k, u)
      PROVE  UNCHANGED <<shelf, content, observed>>
  BY <1>25 DEF LockArticle
<1> QED
  BY <1>1, <1>2, <1>3, <1>4, <1>5, <1>6, <1>7, <1>8, <1>9, <1>10, <1>11,
    <1>12, <1>13, <1>14, <1>15, <1>16, <1>17, <1>18, <1>19, <1>20, <1>21,
    <1>22, <1>23, <1>24, <1>25 DEF Flat

LEMMA ShownStep ==
  ASSUME TypeOK, Discipline, Timed, Written, Imported, ShownIsLastSnapshot,
    Flat
  PROVE  ShownIsLastSnapshot'
<1>1. ASSUME NEW s \in Syncs, Publish(s) \/ PublishUnheard(s)
      PROVE  ShownIsLastSnapshot'
  <2>1. /\ content' = task[s].snap /\ at[s] = "reconciling"
        /\ observed' = [observed EXCEPT ![run[s]] = task[s].stamp]
    BY <1>1, CommittedSync
  <2>2. \A u \in Urls : shelf[u].seen # task[s].stamp
    BY <2>1 DEF Timed, Stamped, Actors
  <2>3. \A r \in Runs : observed'[r] \in {observed[r], task[s].stamp}
    BY <2>1 DEF TypeOK
  <2>4. ASSUME NEW u \in Urls, content'[u] = Gone, shelf'[u].present
        PROVE  \A r \in Runs : observed'[r] # shelf'[u].seen
    BY <1>1, <2>1, <2>2, <2>3, <2>4, ImportCommits
  <2>5. ASSUME NEW u \in Urls, content'[u] # Gone
        PROVE  /\ shelf'[u].present
               /\ shelf'[u].id = content'[u].id /\ shelf'[u].rev = content'[u].rev
    BY <1>1, <2>1, <2>5, ImportCommits
  <2> QED
    BY <2>4, <2>5 DEF ShownIsLastSnapshot
<1>2. ASSUME NEW c \in Collectors, Settle(c)
      PROVE  ShownIsLastSnapshot'
  <2>1. UNCHANGED <<content, observed>>
    BY <1>2, CommittedCollector DEF ledger
  <2>2. ASSUME NEW u \in Urls, content[u] # Gone
        PROVE  /\ shelf'[u].present
               /\ shelf'[u].id = content[u].id /\ shelf'[u].rev = content[u].rev
    <3>1. /\ shelf[u].present
          /\ shelf[u].id = content[u].id /\ shelf[u].rev = content[u].rev
      BY <2>2 DEF ShownIsLastSnapshot
    <3>2. shelf[u] # NoRow
      BY <3>1, Constants
    <3> QED
      BY <1>2, <3>1, <3>2, CollectionCommits
  <2>3. ASSUME NEW u \in Urls, content[u] = Gone, shelf'[u].present
        PROVE  \A r \in Runs : observed[r] # shelf'[u].seen
    BY <1>2, <2>3, CollectionCommits DEF ShownIsLastSnapshot
  <2> QED
    BY <2>1, <2>2, <2>3 DEF ShownIsLastSnapshot
<1>3. ASSUME UNCHANGED <<shelf, content, observed>>
      PROVE  ShownIsLastSnapshot'
  BY <1>3 DEF ShownIsLastSnapshot
<1> QED
  BY <1>1, <1>2, <1>3, ShelfUnchanged

(* A successful run shows all that was in its snapshot and hides all that  *)
(* was not; failed runs, collections and captures leave what it has shown. *)
THEOREM LastSnapshotIsShown == Spec => []ShownIsLastSnapshot
<1>1. Init => ShownIsLastSnapshot
  BY Constants DEF Init, ShownIsLastSnapshot, Nothing
<1>2. IInv /\ ShownIsLastSnapshot /\ [Next]_vars => ShownIsLastSnapshot'
  <2>1. ASSUME IInv, ShownIsLastSnapshot, Next PROVE ShownIsLastSnapshot'
    BY <2>1, Steps, ShownStep DEF IInv
  <2>2. ASSUME ShownIsLastSnapshot, UNCHANGED vars PROVE ShownIsLastSnapshot'
    BY <2>2 DEF ShownIsLastSnapshot, vars, table, ledger
  <2> QED
    BY <2>1, <2>2
<1> QED
  BY <1>1, <1>2, Invariant, PTL DEF Spec

LEMMA SuccessStays ==
  ASSUME TypeOK, Numbered, Flat, NEW r \in Runs, runs[r] = "succeeded"
  PROVE  runs'[r] = "succeeded" /\ observed'[r] = observed[r]
<1>1. runs'[r] = "succeeded"
  BY EndedRunsStay DEF Ended
<1>2. ASSUME NEW s \in Syncs, Publish(s) \/ PublishUnheard(s)
      PROVE  observed'[r] = observed[r]
  BY <1>2, CommittedSync DEF TypeOK
<1>3. ASSUME NEW c \in Collectors, Settle(c)
      PROVE  observed' = observed
  BY <1>3, CommittedCollector DEF ledger
<1> QED
  BY <1>1, <1>2, <1>3, ShelfUnchanged

LEMMA HiddenStep ==
  ASSUME TypeOK, Discipline, Numbered, Timed, Written, Imported,
    HiddenBySuccess, Flat
  PROVE  HiddenBySuccess'
<1>1. ASSUME NEW u \in Urls, shelf'[u] = shelf[u], shelf'[u].absent # 0
      PROVE  /\ shelf'[u].seen < shelf'[u].absent
             /\ \E r \in Runs : runs'[r] = "succeeded" /\ observed'[r] = shelf'[u].absent
  <2>1. PICK r \in Runs : runs[r] = "succeeded" /\ observed[r] = shelf[u].absent
    BY <1>1 DEF HiddenBySuccess
  <2> QED
    BY <1>1, <2>1, SuccessStays DEF HiddenBySuccess
<1>2. ASSUME NEW s \in Syncs, Publish(s) \/ PublishUnheard(s), NEW u \in Urls,
             shelf'[u].absent # 0, shelf'[u] # shelf[u]
      PROVE  /\ shelf'[u].seen < shelf'[u].absent
             /\ \E r \in Runs : runs'[r] = "succeeded" /\ observed'[r] = shelf'[u].absent
  <2>1. run[s] \in Runs
    BY <1>2, CommittedSync, RunOf
  <2>2. runs'[run[s]] = "succeeded" /\ observed'[run[s]] = task[s].stamp
    BY <1>2, <2>1, CommittedSync DEF TypeOK
  <2>3. shelf'[u].absent = task[s].stamp /\ shelf'[u].seen < task[s].stamp
    BY <1>2, ImportCommits
  <2> QED
    BY <2>1, <2>2, <2>3
<1>3. ASSUME NEW c \in Collectors, Settle(c), NEW u \in Urls, shelf'[u] # shelf[u]
      PROVE  shelf'[u].absent = 0
  BY <1>3, CollectionCommits
<1>4. ASSUME NEW u \in Urls, shelf'[u].absent # 0
      PROVE  /\ shelf'[u].seen < shelf'[u].absent
             /\ \E r \in Runs : runs'[r] = "succeeded" /\ observed'[r] = shelf'[u].absent
  BY <1>1, <1>2, <1>3, <1>4, ShelfUnchanged
<1> QED
  BY <1>4 DEF HiddenBySuccess

(* Every article that is hidden was last seen before the snapshot of a run *)
(* that has succeeded, which has hidden it.                                *)
THEOREM SuccessHides == Spec => []HiddenBySuccess
<1>1. Init => HiddenBySuccess
  BY Constants DEF Init, HiddenBySuccess
<1>2. IInv /\ HiddenBySuccess /\ [Next]_vars => HiddenBySuccess'
  <2>1. ASSUME IInv, HiddenBySuccess, Next PROVE HiddenBySuccess'
    BY <2>1, Steps, HiddenStep DEF IInv
  <2>2. ASSUME HiddenBySuccess, UNCHANGED vars PROVE HiddenBySuccess'
    BY <2>2 DEF HiddenBySuccess, vars, table, ledger
  <2> QED
    BY <2>1, <2>2
<1> QED
  BY <1>1, <1>2, Invariant, PTL DEF Spec

-------------------------------------------------------------------------------
(* Captures freeze what is current.                                        *)
LEMMA NobodyElseFreezes ==
  ASSUME TypeOK, NEW a \in Actors, NEW p, Goes(a, p), NEW k \in Captures,
    at'[k] = "frozen"
  PROVE  at[k] = "frozen" \/ (k = a /\ p = "frozen")
  BY DEF Goes, TypeOK, Actors

LEMMA OnlyFreeze ==
  ASSUME TypeOK, Next, NEW k \in Captures, at[k] # "frozen", at'[k] = "frozen"
  PROVE  Freeze(k)
<1> USE MediaAssumption DEF Actors
<1>1. ASSUME NEW s \in Syncs, NEW p, Goes(s, p) PROVE FALSE
  BY <1>1, NobodyElseFreezes
<1>2. ASSUME NEW c \in Collectors, NEW p, Goes(c, p) PROVE FALSE
  BY <1>2, NobodyElseFreezes
<1>3. ASSUME NEW j \in Captures, NEW p, Goes(j, p) PROVE j = k /\ p = "frozen"
  BY <1>3, NobodyElseFreezes
<1>4. at' # at
  OBVIOUS
<1>5. ASSUME NEW s \in Syncs PROVE ~SyncStep(s)
  BY <1>1, <1>4
  DEF SyncStep, SkipConcurrent, Open, OpenRefused, TakeSnapshot, ImportSources, Reconcile,
      Publish, RecordFailure, FailureTooLate, Unrecorded, Release, AbortSync, Upsert,
      UpsertTwin, Hide, HideRefused, Aborts
<1>6. ASSUME NEW c \in Collectors PROVE ~CollectorStep(c)
  BY <1>2, <1>4
  DEF CollectorStep, Fetch, Look, Settle, AbortCollector, Store, StoreTwin, Dies
<1>7. ASSUME NEW j \in Captures, CaptureStep(j) PROVE Freeze(k)
  <2>1. ~Grant(j) /\ \A r \in Sources : ~LockSource(j, r)
    BY <1>3 DEF Grant, LockSource
  <2>2. \A u \in Urls : ~LockArticle(j, u)
    BY <1>4 DEF LockArticle
  <2>3. ~Answers(j, "refused")
    BY <1>3 DEF Answers
  <2>4. Freeze(j) => j = k
    BY <1>3 DEF Freeze, Answers
  <2> QED
    BY <1>7, <2>1, <2>2, <2>3, <2>4 DEF CaptureStep, Conflict, AbortCapture,
      Missing
<1>8. ~Beginning
  BY <1>1, <1>2, <1>3, <1>4 DEF Beginning, Edit, Begin, Restart, Start,
    Revive, Ask
<1>9. ~Fault
  BY <1>1, <1>2, <1>3
  DEF Fault, PublishUnheard, Fail, Lose, Unrecorded, Kill, FetchFails, KillCollector,
      Disconnect, Aborts, Dies, Answers
<1> QED
  BY <1>5, <1>6, <1>7, <1>8, <1>9 DEF Next

(* A capture locks the articles and their source, compares the revisions   *)
(* and commits; what it freezes is what its user has read, and is current. *)
THEOREM FrozenAsRead == Spec => FrozenIsCurrent
<1> DEFINE Frozen == \A k \in Captures : at[k] # "frozen" /\ at'[k] = "frozen" =>
                       \A u \in Urls : task[k].snap[u] # Gone =>
                         shelf'[u].present /\ shelf'[u].rev = task[k].snap[u].rev
<1>1. IInv /\ [Next]_vars => [Frozen]_vars
  <2>1. ASSUME IInv, Next, NEW k \in Captures, at[k] # "frozen", at'[k] = "frozen",
               NEW u \in Urls, task[k].snap[u] # Gone
        PROVE  shelf'[u].present /\ shelf'[u].rev = task[k].snap[u].rev
    <3>1. Freeze(k)
      BY <2>1, OnlyFreeze DEF IInv
    <3>2. at[k] = "reading" /\ shelf' = shelf /\ shelf[u].rev = task[k].snap[u].rev
      BY <2>1, <3>1 DEF Freeze, Current, Answers, RollBack
    <3>3. shelf[u].present
      BY <2>1, <3>2 DEF IInv, Selected
    <3> QED
      BY <3>2, <3>3
  <2> QED
    BY <2>1
<1> QED
  BY <1>1, Invariant, PTL DEF Spec, FrozenIsCurrent

-------------------------------------------------------------------------------
(* Whom a sync or a capture waits for.                                     *)
LEMMA WaitsOf ==
  ASSUME TypeOK, Discipline, NEW a \in Syncs \cup Captures, NEW b \in Waits(a)
  PROVE  \/ at[a] = "waiting" /\ b = holder
         \/ at[a] # "waiting" /\ holder = a
            /\ (b \in Collectors \/ \E r \in Rows : b \in Owners(a, r))
<1>1. a \notin Collectors /\ a \in Actors
  BY MediaAssumption DEF Actors
<1>2. CASE at[a] = "waiting"
  <2>1. Waits(a) = {holder} \ {Nobody}
    BY <1>2 DEF Waits
  <2> QED
    BY <1>2, <2>1
<1>3. CASE at[a] # "waiting"
  <2>1. at[a] \in {"upserting", "reconciling", "storing", "locking", "snapped"}
    BY <1>3 DEF Waits
  <2>2. holder = a
    BY <1>1, <2>1 DEF Discipline, TypeOK, SyncPlaces, CapturePlaces,
      Importing, Failures
  <2>3. \A u \in Urls : BlockersAt(a, u) = Owners(a, u)
    BY <1>1 DEF BlockersAt
  <2>4. task[a].todo \subseteq Urls
    BY <1>1, TaskType
  <2>5. \/ \E u \in task[a].todo : b \in BlockersAt(a, u)
        \/ at[a] = "snapped" /\ b \in Owners(a, Src)
        \/ at[a] = "storing" \/ \E r \in Lacks(a) : b \in BlockersAtSource(a, r)
    <3>1. CASE at[a] = "snapped"
      BY <3>1 DEF Waits
    <3>2. CASE at[a] \in {"upserting", "reconciling", "locking"} /\ task[a].todo # {}
      BY <3>2 DEF Waits
    <3>3. CASE at[a] = "locking" /\ task[a].todo = {}
      BY <3>3 DEF Waits
    <3>4. CASE at[a] \in {"upserting", "reconciling"} /\ task[a].todo = {}
      BY <3>4 DEF Waits
    <3> QED
      BY <2>1, <3>1, <3>2, <3>3, <3>4
  <2>6. at[a] # "storing"
    BY <1>1 DEF TypeOK, SyncPlaces, CapturePlaces, Importing, Failures
  <2>7. ASSUME NEW r \in Lacks(a), b \in BlockersAtSource(a, r)
        PROVE  b \in Collectors \/ \E q \in Rows : b \in Owners(a, q)
    <3>1. r \in Rows
      BY <2>7, Constants DEF Lacks
    <3>2. b \in Owners(a, r) \/ b \in sharing
      BY <2>7 DEF BlockersAtSource, Sharers
    <3> QED
      BY <3>1, <3>2 DEF TypeOK
  <2>8. b \in Collectors \/ \E r \in Rows : b \in Owners(a, r)
    BY <2>3, <2>4, <2>5, <2>6, <2>7, Constants
  <2> QED
    BY <1>3, <2>2, <2>8
<1> QED
  BY <1>2, <1>3

LEMMA OwnersHold ==
  ASSUME TypeOK, Discipline, NEW a, NEW r \in Rows, NEW b \in Owners(a, r), b
    \notin Collectors
  PROVE  b # a /\ holder = b
<1>1. b = owner[r] /\ b # Nobody /\ b # a
  BY DEF Owners
<1>2. b \in Syncs \cup Captures
  BY <1>1 DEF TypeOK, Actors
<1>3. at[b] \in {"upserting", "reconciling", "storing", "locking", "reading"}
  BY <1>1 DEF Discipline
<1> QED
  BY <1>1, <1>2, <1>3
  DEF Discipline, TypeOK, SyncPlaces, CapturePlaces, Importing, Failures

(* The import lock keeps syncs and captures, which lock many articles each *)
(* in an order of its own, out of one another's way: only with a collector,*)
(* which does without that lock, can they be deadlocked.                   *)
THEOREM DeadlocksHaveACollector == Spec => []EveryDeadlockHasACollector
<1>1. ASSUME IInv, NEW D \in SUBSET Waiting, Circle(D) PROVE D \cap Collectors # {}
  <2> SUFFICES ASSUME D \cap Collectors = {} PROVE FALSE
    OBVIOUS
  <2>1. D # {} /\ \A a \in D : \E b \in D : b \in Waits(a)
    BY <1>1 DEF Circle
  <2>2. \A a \in D : a \in Syncs \cup Captures
    BY <1>1 DEF Waiting, Actors
  <2>3. TypeOK /\ Discipline
    BY <1>1 DEF IInv
  <2>4. ASSUME NEW a \in D, at[a] # "waiting" PROVE FALSE
    <3>1. PICK b \in D : b \in Waits(a)
      BY <2>1
    <3>2. holder = a /\ (b \in Collectors \/ \E r \in Rows : b \in Owners(a, r))
      BY <2>2, <2>3, <2>4, <3>1, WaitsOf
    <3>3. b \notin Collectors
      BY <2>2, MediaAssumption
    <3> QED
      BY <2>3, <3>2, <3>3, OwnersHold
  <2>5. PICK a \in D : TRUE
    BY <2>1
  <2>6. PICK b \in D : b \in Waits(a)
    BY <2>1
  <2>7. at[a] = "waiting" /\ b = holder /\ at[b] = "waiting"
    BY <2>2, <2>3, <2>4, <2>6, WaitsOf
  <2>8. b \in Captures
    BY <2>2, <2>3, <2>7 DEF TypeOK, SyncPlaces, Importing, Failures
  <2> QED
    BY <2>3, <2>7, <2>8 DEF Discipline
<1>2. IInv => EveryDeadlockHasACollector
  BY <1>1 DEF EveryDeadlockHasACollector
<1> QED
  BY <1>2, Invariant, PTL

===============================================================================
