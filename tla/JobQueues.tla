------------------------------ MODULE JobQueues ------------------------------
(***************************************************************************)
(* The thirteen job queues the OASIS worker daemon serves.  Every queue is *)
(* a PostgreSQL table with its own adapter module, and the adapters are    *)
(* NOT alike: they differ in what they need from the worker's settings, in *)
(* what they do with a row whose frozen input does not validate, in        *)
(* whether their fail function insists on finding a running row, and in    *)
(* whether the engine appends an observation log while the job runs.       *)
(* WorkerFleet is parameterised by these differences only.                 *)
(***************************************************************************)
EXTENDS Naturals

(* One record per adapter:                                                 *)
(*   needs       the optional runtime configuration the daemon must hold   *)
(*               before it looks at the queue ("nothing" for smoke runs);  *)
(*   onBadInput  what claim does when the frozen input does not validate:  *)
(*               "fail_in_claim"       queued -> running -> failed inside  *)
(*                                     the claiming transaction,           *)
(*               "rollback_then_fail"  roll back, then a second transaction*)
(*                                     that moves the row to failed,       *)
(*               "raise"               the error escapes claim, nothing is *)
(*                                     written;                            *)
(*   strictFail  the fail function raises when the row is not running for  *)
(*               this worker (otherwise it updates no row, silently);      *)
(*   logged      the engine appends rounds or messages to a log.           *)
PlatformSmokeQueue ==
  [needs |-> "nothing", onBadInput |-> "fail_in_claim",
   strictFail |-> TRUE, logged |-> FALSE]

SemanticTrialQueue ==
  [needs |-> "model", onBadInput |-> "fail_in_claim",
   strictFail |-> TRUE, logged |-> TRUE]

ResearchRunQueue ==
  [needs |-> "model", onBadInput |-> "raise",
   strictFail |-> TRUE, logged |-> TRUE]

ResearchSurveyQueue ==
  [needs |-> "survey", onBadInput |-> "fail_in_claim",
   strictFail |-> FALSE, logged |-> FALSE]

ChatTrialQueue ==
  [needs |-> "chat", onBadInput |-> "rollback_then_fail",
   strictFail |-> FALSE, logged |-> TRUE]

WebTrialQueue ==
  [needs |-> "web", onBadInput |-> "rollback_then_fail",
   strictFail |-> FALSE, logged |-> FALSE]

LinuxTrialQueue ==
  [needs |-> "linux", onBadInput |-> "rollback_then_fail",
   strictFail |-> FALSE, logged |-> FALSE]

WorldGraphQueue ==
  [needs |-> "model", onBadInput |-> "fail_in_claim",
   strictFail |-> TRUE, logged |-> FALSE]

ReportQuestionQueue ==
  [needs |-> "model", onBadInput |-> "rollback_then_fail",
   strictFail |-> FALSE, logged |-> FALSE]

ReportAgentDraftQueue ==
  [needs |-> "model", onBadInput |-> "rollback_then_fail",
   strictFail |-> FALSE, logged |-> FALSE]

AgentInteractionQueue ==
  [needs |-> "model", onBadInput |-> "rollback_then_fail",
   strictFail |-> FALSE, logged |-> FALSE]

PersonaInterviewQueue ==
  [needs |-> "model", onBadInput |-> "rollback_then_fail",
   strictFail |-> FALSE, logged |-> FALSE]

ResearchInterviewQueue ==
  [needs |-> "model", onBadInput |-> "rollback_then_fail",
   strictFail |-> FALSE, logged |-> FALSE]

Queue ==
  [smoke |-> PlatformSmokeQueue,
   semantic |-> SemanticTrialQueue,
   research |-> ResearchRunQueue,
   survey |-> ResearchSurveyQueue,
   chat |-> ChatTrialQueue,
   web |-> WebTrialQueue,
   linux |-> LinuxTrialQueue,
   world_graph |-> WorldGraphQueue,
   report_qa |-> ReportQuestionQueue,
   report_agent_draft |-> ReportAgentDraftQueue,
   agent_interaction |-> AgentInteractionQueue,
   persona_interview |-> PersonaInterviewQueue,
   research_interview |-> ResearchInterviewQueue]

Kinds == DOMAIN Queue

(* The queues a process of each domain may look at.                        *)
JobKindAllowlist ==
  [semantic |-> {"smoke", "semantic", "research"},
   evaluation |-> {"survey", "chat", "web", "linux"},
   report |-> {"world_graph", "report_qa", "report_agent_draft",
               "agent_interaction", "persona_interview", "research_interview"}]

Domains == DOMAIN JobKindAllowlist

(* The order in which the sweeps of a domain visit its tables.             *)
SweepRank ==
  [smoke |-> 1, semantic |-> 2, research |-> 3,
   survey |-> 1, chat |-> 2, web |-> 3, linux |-> 4,
   world_graph |-> 1, report_agent_draft |-> 2, agent_interaction |-> 3,
   report_qa |-> 4, persona_interview |-> 5, research_interview |-> 6]

(* The optional runtime configurations of DaemonSettings; each one names a *)
(* capability that is probed at start-up and advertised in the heartbeat.  *)
Capabilities == {"model", "survey", "chat", "web", "linux"}

=============================================================================
