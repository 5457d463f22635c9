----------------------------- MODULE RequestPlans -----------------------------
(***************************************************************************)
(* The database protocol of every handler of the API that creates a record *)
(* or reads a job with its artifacts.  A handler is one transaction; what  *)
(* it does in it is a plan, the sequence of its accesses to shared state,  *)
(* in the order of the code.  What a request computes from its inputs is   *)
(* left out: two requests ask for the same thing when their items are      *)
(* equal.  The steps, executed by module Requests:                         *)
(*                                                                         *)
(*   live       choose the model configuration live workers report         *)
(*   key        pg_advisory_xact_lock on the content digest of the item    *)
(*   look       SELECT by digest; found: go on behind the item             *)
(*   absent     SELECT by what it is to be made of; found: refuse          *)
(*   child      SELECT by parent; found: go on behind the item             *)
(*   failed, succeeded   refuse unless the source row has that status      *)
(*   hold       SELECT the source row FOR UPDATE                           *)
(*   count      number the new row after its siblings                      *)
(*   spend      the same, and refuse when they have used up the budget     *)
(*   insert     INSERT, under the unique key of the table                  *)
(*   status, artifacts   the two SELECTs of a reader of the source row     *)
(*   joined     both in one statement                                      *)
(*   snapshot   the first statement of a REPEATABLE READ transaction       *)
(*   commit     COMMIT                                                     *)
(***************************************************************************)
EXTENDS Naturals, Sequences, SequencesExt

(* An item: the family of tables it goes to, its name within the family,   *)
(* the row it is written under ("none", or "source", the one row that      *)
(* requests share), how it reads the live configuration, whether its       *)
(* digest covers that configuration, and the unique key it could violate.  *)
Thing(family, name) ==
  [family |-> family, name |-> name, under |-> "none", live |-> "unread",
   pinned |-> FALSE, unique |-> "digest"]

(* LOCK TABLE simulation_worker_heartbeats IN SHARE MODE, then the live    *)
(* workers must agree on one configuration.                                *)
Locked(i) == [i EXCEPT !.live = "locked", !.pinned = TRUE]
(* The same without the lock; the newest live worker; a worker with the    *)
(* configuration the source was made with.                                 *)
Agreed(i) == [i EXCEPT !.live = "agreed", !.pinned = TRUE]
Newest(i) == [i EXCEPT !.live = "newest", !.pinned = TRUE]
Frozen(i) == [i EXCEPT !.live = "frozen", !.pinned = TRUE]

Under(i)   == [i EXCEPT !.under = "source"]
(* At most one per source row: the retry, the target, the survey of a run. *)
Alone(i)   == [Under(i) EXCEPT !.unique = "parent"]
(* Numbered within the source row without a gap.                           *)
Ordered(i) == [Under(i) EXCEPT !.unique = "position"]
(* A row of its own for every request: no unique key, no digest.           *)
Fresh(i)   == [i EXCEPT !.unique = "none"]

(* The one row that requests share, as a job with artifacts.               *)
Job(family) == Under(Thing(family, 0))

On(i, steps) == [k \in DOMAIN steps |-> [do |-> steps[k], of |-> i]]

Commit == On(Thing("transaction", 0), <<"commit">>)

Enqueue(i)   == On(i, <<"live", "key", "look", "insert">>)
RetryOf(i)   == Alone(i)
RetryPlan(i) == On(RetryOf(i), <<"child", "failed", "live", "key", "look", "insert">>)
Adopt(i)     == On(i, <<"key", "look", "insert">>)

-------------------------------------------------------------------------------
(* MatrAIx chat and web evaluations, Linux trials with their evaluation.   *)
Chat(n)       == Locked(Thing("chat evaluation", n))
EnsureChat(n) == Enqueue(Chat(n))
CreateChat(n) == EnsureChat(n) \o Commit
RetryChat     == RetryPlan(Chat(0)) \o Commit

Web(n)        == Locked(Thing("web evaluation", n))
CreateWeb(n)  == Enqueue(Web(n)) \o Commit
RetryWeb      == RetryPlan(Web(0)) \o Commit

Trial(n)           == Locked(Thing("linux trial", n))
LinuxEvaluation(i) == [i EXCEPT !.family = "linux evaluation", !.live = "unread"]
EnsureTrial(n)     == Enqueue(Trial(n))
CreateTrial(n)     == EnsureTrial(n) \o Commit
CreateLinux(n)     == EnsureTrial(n) \o Adopt(LinuxEvaluation(Trial(n))) \o Commit

(* The child of a parent is the evaluation joined to the trial: both are   *)
(* there or none.                                                          *)
LinuxChild         == LinuxEvaluation(Under(Trial(0)))
RetryLinux         ==
  On(LinuxChild, <<"child">>)
    \o On(RetryOf(Trial(0)), <<"failed", "live", "key", "look", "insert">>)
    \o Adopt(LinuxChild) \o Commit

(* MatrAIx surveys: the retry looks again for a child of its parent, not   *)
(* for a row with its digest, once it has the lock.                        *)
Survey(n)       == Locked(Thing("survey experiment", n))
CreateSurvey(n) == Enqueue(Survey(n)) \o Commit

(* Faulty variant: it looks for the digest, as the other retries do.       *)
RetrySurveyByDigest == RetryPlan(Survey(0)) \o Commit

RetrySurvey == On(RetryOf(Survey(0)),
                  <<"child", "failed", "live", "key", "child", "insert">>) \o Commit

-------------------------------------------------------------------------------
(* Research projects: a run is created without an advisory lock; surveys,  *)
(* targets and Harbor jobs belong to a succeeded run.                      *)
Experiment(n)       == Locked(Thing("semantic experiment", n))
CreateExperiment(n) == Enqueue(Experiment(n)) \o Commit

Run(n)       == Locked(Thing("research run", n))
CreateRun(n) == On(Run(n), <<"live", "look", "insert">>) \o Commit

Bundle       == Alone(Thing("task bundle", 0))

(* Faulty variant: the helper commits for its caller, too.                 *)
EnsureBundleCommitting == On(Bundle, <<"succeeded", "key", "child", "insert">>) \o Commit

EnsureBundle == On(Bundle, <<"succeeded", "key", "child", "insert">>)
CreateBundle == EnsureBundle \o Commit

ResearchSurvey(n)  == Agreed(Alone(Thing("research survey", n)))
EnsureResearchSurvey(n) == EnsureBundle \o On(ResearchSurvey(n), <<"child", "live", "insert">>)
CreateResearchSurvey(n) == EnsureResearchSurvey(n) \o Commit

Target(n)       == Alone(Thing("target", n))
CreateTarget(n) == On(Target(n), <<"succeeded", "key", "child", "insert">>) \o Commit

HarborJob(n)    == Thing("harbor job", n)
CreateHarbor(n) == Adopt(HarborJob(n)) \o Commit
RetryHarbor     == On(RetryOf(HarborJob(0)), <<"hold", "child", "failed", "insert">>)
                     \o Commit

-------------------------------------------------------------------------------
(* The batch registry, and the launch that creates its parents with it.    *)
Registry(n)       == [Thing("batch registry", n) EXCEPT !.pinned = TRUE]
EnsureRegistry(n) == Adopt(Registry(n))
CreateRegistry(n) == EnsureRegistry(n) \o Commit

(* Faulty variant: the parents are created in the order of the request.    *)
LaunchInOrder(items) == items

(* The order of the kinds, then of the names.                              *)
LaunchOrder(items) ==
  SetToSortSeq({items[k] : k \in DOMAIN items},
               LAMBDA a, b : IF a.kind = b.kind THEN a.name < b.name ELSE b.kind = "survey")

LaunchParent(item) ==
  IF item.kind = "survey" THEN EnsureResearchSurvey(item.name) ELSE EnsureChat(item.name)

(* items is the sequence of the request, n stands for the registry it gets.*)
Launch(n, items) ==
  FlattenSeq([k \in DOMAIN items |-> LaunchParent(LaunchOrder(items)[k])])
    \o EnsureRegistry(n) \o Commit

-------------------------------------------------------------------------------
(* Worlds, populations, scenarios and their derivatives, by content digest.*)
Graph(n)          == Locked(Thing("world graph", n))
CreateGraph(n)    == Enqueue(Graph(n)) \o Commit

EnsureCohort(n)   == Adopt(Thing("cohort", n))
CreateCohort(n)   == EnsureCohort(n) \o Commit

(* What a POST builds upon a graph begins with reading the graph, its row, *)
(* then its nodes and edges, and must find it succeeded.                   *)
NeedGraph == On(Job("posted graph"), <<"status", "artifacts", "succeeded">>)

(* Faulty variant: a cohort that is there ends the request.                *)
CreateOriginOfNewCohort(n) ==
  NeedGraph \o On(Thing("cohort", n), <<"key", "look">>) \o Adopt(Thing("cohort origin", n))
    \o On(Thing("cohort", n), <<"insert">>) \o Commit

CreateOrigin(n)   == NeedGraph \o EnsureCohort(n) \o Adopt(Thing("cohort origin", n)) \o Commit

(* A research project upon a graph, with the agenda context it is given;   *)
(* neither is looked for under a lock.  The context of a project that is   *)
(* there can be asked for again, by posting either.                        *)
Project(n)        == Thing("research project", n)
Context(n)        == Thing("agenda context", n)
EnsureContext(n)  == On(Context(n), <<"look", "insert">>)
CreateProject(n)  == NeedGraph \o On(Project(n), <<"look", "insert">>) \o EnsureContext(n)
                       \o Commit
CaptureContext(n) == EnsureContext(n) \o Commit

ImportPersonas(n) == Adopt(Thing("persona dataset", n)) \o Commit
CreateScenario(n) == Adopt(Thing("scenario", n)) \o Commit

Smoke(n)          == [Thing("smoke run", n) EXCEPT !.live = "newest"]
CreateSmoke(n)    == On(Smoke(n), <<"key", "look", "live", "insert">>) \o Commit

GenerateReport(n)   == Adopt(Thing("decision report", n)) \o Commit
GenerateReportV2(n) == Adopt(Thing("decision report v2", n)) \o Commit

(* Every snapshot is captured under the media import lock.                 *)
ImportLock        == Thing("media import", 0)
Snapshot(n)       == Ordered(Thing("world snapshot", n))
CreateWorld(n)    == On(ImportLock, <<"key">>)
                       \o On(Fresh(Thing("world model", n)), <<"insert">>) \o Commit

(* Faulty variant: the versions are numbered before the model is locked.   *)
AppendSnapshotUnheld(n) ==
  On(Snapshot(n), <<"count", "hold">>) \o On(ImportLock, <<"key">>)
    \o On(Snapshot(n), <<"insert">>) \o Commit

AppendSnapshot(n) ==
  On(Snapshot(n), <<"hold", "count">>) \o On(ImportLock, <<"key">>)
    \o On(Snapshot(n), <<"insert">>) \o Commit

Thread(n)         == Fresh(Thing("decision thread", n))
CreateThread(n)   == On(Thread(n), <<"insert">>) \o Commit
Revision(n)       == Ordered(Thing("thread revision", n))
AppendRevision(n) == On(Revision(n), <<"hold", "count", "insert">>) \o Commit

(* A policy capture makes its source, its document and a version of it; a  *)
(* later one appends a version to the document.                            *)
Source            == Thing("policy source", 0)
Document          == Thing("policy document", 0)
Version(n)        == Ordered(Thing("policy version", n))
CapturePolicy(n)  ==
  On(Source, <<"key">>) \o On(Document, <<"key">>)
    \o On(Source, <<"look", "insert">>) \o On(Document, <<"look", "insert">>)
    \o On(Version(n), <<"look", "spend", "insert">>) \o Commit
AppendVersion(n)  ==
  On(Document, <<"key">>) \o On(Version(n), <<"count", "look", "spend", "insert">>) \o Commit

(* A media source is looked for by its homepage, on which there is no key. *)
MediaSource(n)       == Fresh(Thing("media source", n))
CreateMediaSource(n) == On(MediaSource(n), <<"absent", "insert">>) \o Commit

-------------------------------------------------------------------------------
(* ReportAgent: evidence runs, their audited tool calls within a budget,   *)
(* drafts and their retries, interactions and questions with follow-ups.   *)
CreateEvidenceRun(n) == Adopt(Thing("evidence run", n)) \o Commit
CreateRunReport(n)   == On(Thing("report of a run", n), <<"succeeded", "key", "look", "insert">>)
                          \o Commit
ToolCall(n)          == Ordered(Thing("tool call", n))
AppendToolCall(n)    == On(ToolCall(n), <<"hold", "spend", "insert">>) \o Commit

Draft(n)             == Newest(Thing("report draft", n))
EnqueueDraft(n)      == Enqueue(Draft(n)) \o Commit
RetryDraft           == On(RetryOf(Thing("report draft", 0)),
                           <<"hold", "child", "failed", "insert">>) \o Commit

FollowUp(i)          == On(i, <<"succeeded", "live", "key", "look", "insert">>)
AskAgent(n)          == FollowUp(Frozen(Thing("agent interaction", n))) \o Commit
AskReport(n)         == FollowUp(Frozen(Thing("report question", n))) \o Commit

-------------------------------------------------------------------------------
(* Interviews of personas about a report or about a research run, one by   *)
(* one and in a session, which makes the missing interviews of its members *)
(* in the order of the request.  A session chooses its configuration once. *)
Members(i, names)  == FlattenSeq([k \in DOMAIN names |->
                                    Adopt([i EXCEPT !.name = names[k]])])
SessionOf(i, s, n) == [i EXCEPT !.family = s, !.name = n]

Interview(n)       == Frozen(Thing("interview", n))
Interviewed(n)     == Enqueue(Interview(n)) \o Commit
SessionPlan(n, names) ==
  LET s == SessionOf(Interview(0), "interview session", n)
  IN  On(s, <<"live", "key", "look">>) \o Members(Interview(0), names)
        \o On(s, <<"insert">>) \o Commit

RunInterview(n)    == Newest(Thing("run interview", n))
RunInterviewed(n)  == On(RunInterview(n), <<"succeeded", "live", "key", "look", "insert">>)
                        \o Commit
RunSessionPlan(n, names) ==
  LET s == SessionOf(RunInterview(0), "run interview session", n)
  IN  On(s, <<"succeeded", "live", "key", "look">>) \o Members(RunInterview(0), names)
        \o On(s, <<"insert">>) \o Commit

-------------------------------------------------------------------------------
(* Readers: the row of a job first, what it published in a later statement.*)
(* Each statement sees what has been committed when it starts, unless the  *)
(* endpoint makes its transaction REPEATABLE READ.  Most readers refuse    *)
(* artifacts of a job whose row they read before it was done.              *)
Unfinished == {"queued", "running", "failed"}

Early(family) ==
  CASE family \in {"chat evaluation", "survey experiment", "research run",
                   "posted graph", "world graph", "archived trial"} -> Unfinished
    [] family = "web evaluation" -> {"queued"}
    [] OTHER -> {}

Reading(family)   == On(Job(family), <<"status", "artifacts">>) \o Commit
Reviewing(family) == On(Job(family), <<"snapshot", "status", "artifacts">>) \o Commit

ReadChat       == Reading("chat evaluation")
ReadWeb        == Reading("web evaluation")
ReadLinux      == On(Job("linux evaluation"), <<"joined">>) \o Commit

(* Faulty variant: the artifacts first.                                    *)
ReadSurveyBackwards == On(Job("survey experiment"), <<"artifacts", "status">>) \o Commit

ReadSurvey     == Reading("survey experiment")
ReadExperiment == Reading("semantic experiment")
ReadRunReport  == Reading("research run")
ReadRunSurvey  == Reading("research survey")

(* POST of an evaluation or a survey that is there: it is read under the   *)
(* locks, before the commit.                                               *)
Reposting(family) ==
  On(Locked(Job(family)), <<"live", "key", "status", "artifacts">>) \o Commit

PostChat   == Reposting("chat evaluation")
PostSurvey == Reposting("survey experiment")
PostWeb    == Reposting("web evaluation")

(* POST of a graph that is there: its row is read, the transaction that    *)
(* took the locks is committed, and its nodes and edges are read after.    *)
PostGraph ==
  On(Locked(Job("posted graph")), <<"live", "key", "status">>) \o Commit
    \o On(Locked(Job("posted graph")), <<"artifacts">>) \o Commit

(* Faulty variant: GET under READ COMMITTED.                               *)
ReadGraphCommitted == Reading("world graph")

ReadGraph   == Reviewing("world graph")
VerifyTrial == Reviewing("archived trial")

===============================================================================
