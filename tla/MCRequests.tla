------------------------------ MODULE MCRequests ------------------------------
(***************************************************************************)
(* Requests with two clients: every handler against itself for the same    *)
(* thing, and the pairs of handlers that meet on locks or keys.            *)
(***************************************************************************)
EXTENDS Requests

CONSTANTS a, b, c1, c2

Pair(p, q) == (a :> p) @@ (b :> q)
Twice(p)   == Pair(p, p)

Chats     == <<[kind |-> "chat", name |-> 1], [kind |-> "chat", name |-> 2]>>
Mixed     == <<[kind |-> "survey", name |-> 1], [kind |-> "chat", name |-> 1]>>

Evaluations ==
  {Twice(CreateChat(1)), Twice(RetryChat), Twice(CreateWeb(1)), Twice(RetryWeb),
   Twice(CreateTrial(1)), Pair(CreateTrial(1), CreateLinux(1)), Twice(CreateLinux(1)),
   Twice(RetryLinux), Twice(CreateSurvey(1)), Twice(RetrySurvey)}

Research ==
  {Twice(CreateExperiment(1)), Twice(CreateRun(1)), Twice(CreateResearchSurvey(1)),
   Twice(CreateProject(1)), Twice(CaptureContext(1)),
   Pair(CreateBundle, CreateTarget(1)), Pair(CreateBundle, CreateResearchSurvey(1)),
   Twice(CreateTarget(1)), Pair(CreateTarget(1), CreateTarget(2)),
   Twice(CreateHarbor(1)), Twice(RetryHarbor)}

Launches ==
  {Twice(CreateRegistry(1)), Pair(Launch(1, Chats), Launch(2, Reverse(Chats))),
   Pair(Launch(1, Mixed), Launch(2, Reverse(Mixed))),
   Pair(Launch(1, Mixed), CreateResearchSurvey(1)), Pair(Launch(1, Chats), CreateChat(2))}

Worlds ==
  {Twice(CreateGraph(1)), Twice(CreateCohort(1)), Pair(CreateCohort(1), CreateOrigin(1)),
   Twice(CreateOrigin(1)), Twice(ImportPersonas(1)), Twice(CreateScenario(1)),
   Twice(CreateSmoke(1)), Twice(GenerateReport(1)), Twice(GenerateReportV2(1)),
   Pair(CreateWorld(1), CreateWorld(2)), Pair(AppendSnapshot(1), AppendSnapshot(2)),
   Pair(AppendSnapshot(1), CreateWorld(1)), Pair(AppendRevision(1), AppendRevision(2)),
   Pair(CreateThread(1), CreateThread(2)), Twice(CreateMediaSource(1)),
   Twice(CapturePolicy(1)), Pair(CapturePolicy(1), CapturePolicy(2)),
   Pair(CapturePolicy(1), AppendVersion(2)), Twice(AppendVersion(1))}

Reports ==
  {Twice(CreateEvidenceRun(1)), Twice(CreateRunReport(1)),
   Pair(AppendToolCall(1), AppendToolCall(2)), Twice(EnqueueDraft(1)), Twice(RetryDraft),
   Twice(AskAgent(1)), Twice(AskReport(1)), Twice(Interviewed(1)),
   Pair(SessionPlan(1, <<1, 2>>), SessionPlan(2, <<2, 1>>)),
   Pair(SessionPlan(1, <<1, 2>>), Interviewed(2)), Twice(RunInterviewed(1)),
   Pair(RunSessionPlan(1, <<1, 2>>), RunSessionPlan(2, <<2, 1>>)),
   Pair(RunSessionPlan(1, <<1, 2>>), RunInterviewed(2))}

Reads == {Twice(ReadChat), Twice(ReadWeb), Twice(ReadLinux), Twice(ReadSurvey),
          Twice(ReadExperiment), Twice(ReadRunReport), Twice(ReadRunSurvey),
          Twice(PostChat), Twice(PostSurvey), Twice(PostWeb), Twice(PostGraph),
          Twice(ReadGraph), Twice(VerifyTrial)}

AllScripts == Evaluations \cup Research \cup Launches \cup Worlds \cup Reports \cup Reads

(* Workers and the source job stand still where nobody looks at them.      *)
Looks(dos) == \E c \in Clients : \E k \in DOMAIN plan[c] : plan[c][k].do \in dos

OnlyWhatIsSeen ==
  /\ Looks({"live"}) \/ live = {}
  /\ Looks({"failed", "succeeded", "status", "joined"}) \/ source.status = "queued"

===============================================================================
