----------------------------- MODULE SchemaTables -----------------------------
(***************************************************************************)
(* The families of tables whose rows PostgreSQL freezes.  Each family is a *)
(* parent row and the child rows hanging below it, guarded by triggers the *)
(* migrations install.  The triggers of the families were written one      *)
(* migration at a time and differ; a family is described by these          *)
(* differences only, and SchemaGuards gives them their meaning.            *)
(*                                                                         *)
(*   life      "sheet"   draft -> sealed, filled while it is a draft;      *)
(*             "job"     queued -> running -> succeeded or failed, filled  *)
(*                       by the worker while it runs;                      *)
(*             "ledger"  no status, only ever appended to;                 *)
(*   lock      the lock the child's trigger takes on the parent row;       *)
(*   remove    a child may be deleted while the parent is writable;        *)
(*   move      an UPDATE that hangs a child under another parent:          *)
(*             "refused", or admitted after a look at "both" parents, or   *)
(*             after a look at the "new" parent only;                      *)
(*   drop      deleting a parent that has not left its first status:       *)
(*             "never", "childless" (child rows block it) or "cascade";    *)
(*   least     how few children a closed parent may have (Full of them     *)
(*             when the parent row declares their number);                 *)
(*   next      a child's position must be the number of children before it;*)
(*   failing   the children a job may have when it fails: "any", "empty";  *)
(*   rounds    children belong to rounds, the parent counts finished ones. *)
(***************************************************************************)
EXTENDS Naturals

CONSTANT
  Full          \* the most children a closed parent has, 50, 20, 8 or 3 in
                \* the code: one small number here

ASSUME FullAssumption == Full \in Nat /\ Full >= 2

Sheet ==
  [life |-> "sheet", lock |-> "update", remove |-> TRUE, move |-> "refused",
   drop |-> "cascade", least |-> Full, next |-> FALSE, failing |-> "any",
   rounds |-> FALSE]

Job == [Sheet EXCEPT !.life = "job", !.remove = FALSE, !.drop = "never"]

Ledger == [Job EXCEPT !.life = "ledger", !.next = TRUE]

-------------------------------------------------------------------------------
(* Sheets.                                                                 *)
WorldSnapshots  == [Sheet EXCEPT !.remove = FALSE, !.drop = "never", !.least = 1]

Scenarios       == [Sheet EXCEPT !.move = "both", !.least = 2]

SmokeRunPosts   == [Sheet EXCEPT !.least = 1]

PersonaDatasets == [Sheet EXCEPT !.move = "both"]

Cohorts         == [Sheet EXCEPT !.move = "both"]

SemanticVariants == [Sheet EXCEPT !.least = 2]

DecisionReports == [Sheet EXCEPT !.move = "new", !.drop = "never"]

InterviewSessions == [Sheet EXCEPT !.remove = FALSE, !.drop = "childless"]

SurveyTrials    == [Sheet EXCEPT !.lock = "share"]

ChatTrials      == [Sheet EXCEPT !.lock = "share"]

WebTrials       == [Sheet EXCEPT !.lock = "share"]

BatchItems      == [Sheet EXCEPT !.lock = "share", !.least = 1]

-------------------------------------------------------------------------------
(* Jobs: the child rows are what the worker observed.  The rows of this    *)
(* model belong to sealed evaluations, whose trials cannot be deleted.     *)
SemanticEvents  == [Job EXCEPT !.next = TRUE, !.rounds = TRUE]

WorldGraphParts == [Job EXCEPT !.remove = TRUE, !.move = "new",
                               !.drop = "childless", !.least = 1]

SurveyAnswers   == [Job EXCEPT !.failing = "empty"]

ChatMessages    == [Job EXCEPT !.next = TRUE, !.least = 2]

WebPages        == Job

-------------------------------------------------------------------------------
(* Ledgers: frozen from the first row on, position by position.            *)
EvidenceToolCalls == Ledger

PolicyVersions    == Ledger

-------------------------------------------------------------------------------
Tables ==
  {WorldSnapshots, Scenarios, SmokeRunPosts, PersonaDatasets, Cohorts,
   SemanticVariants, DecisionReports, InterviewSessions, SurveyTrials,
   ChatTrials, WebTrials, BatchItems, SemanticEvents, WorldGraphParts,
   SurveyAnswers, ChatMessages, WebPages, EvidenceToolCalls, PolicyVersions}

TableType ==
  [life: {"sheet", "job", "ledger"}, lock: {"share", "update"},
   remove: BOOLEAN, move: {"refused", "both", "new"},
   drop: {"never", "childless", "cascade"}, least: 0..Full, next: BOOLEAN,
   failing: {"any", "empty"}, rounds: BOOLEAN]

===============================================================================
