--------------------------- MODULE PipelineRunner ---------------------------
(***************************************************************************)
(* The JVM runners: block-runner-core with the GitHub, GitLab and Azure    *)
(* DevOps services.  A run is fetched, its source registered, an external  *)
(* pipeline triggered, and, unless the pipeline reports for itself, polled *)
(* until it has ended.  In Kubernetes every run has a pod of its own,      *)
(* which ends after one run (SingleShotRunner) and is replaced if it       *)
(* fails; elsewhere one process claims a run after the other.              *)
(*                                                                         *)
(* Every request to meshStack goes through MeshStackRetry.  An attempt may *)
(* take effect without an answer, but not later than the next request.     *)
(***************************************************************************)
EXTENDS Naturals, Sequences, FiniteSets

CONSTANTS
  Runs,
  Configs,       \* the implementations that the runs may have
  Jobs,          \* the jobs of a workflow, or the stages of a pipeline
  Kubernetes,    \* profile "kubernetes"
  BackoffLimit,  \* of the Kubernetes job
  MaxFind,       \* MAX_FIND_WORKFLOW_ATTEMPTS
  PageSize,      \* jobs in one answer of GitHub
  Foreign,       \* stands for who starts workflows, but for the runners
  MaxForeign,    \* bound: workflow runs of others
  MaxRetries     \* bound: attempts that fit into GIVE_UP_AFTER, but the first

Providers == {"github", "gitlab", "azure"}
Implementations == [provider: Providers, async: BOOLEAN, workflow: STRING]

ASSUME ConfigsAssumption ==
  \A c \in Configs : DOMAIN c = Runs /\ \A r \in Runs : c[r] \in Implementations
ASSUME LimitsAssumption ==
  /\ Kubernetes \in BOOLEAN
  /\ BackoffLimit \in Nat
  /\ MaxFind \in Nat \ {0}
  /\ MaxRetries \in Nat \ {0}
  /\ PageSize \in Nat \ {0}
  /\ Foreign \notin Runs
  /\ MaxForeign \in Nat

VARIABLES
  impl,          \* the implementation of each run
  \* processBlock
  pc,            \* per run, the place in processBlock
  retries,       \* attempts at the current request, but the first
  attempts,      \* searches for the workflow
  followed,      \* index of the pipeline that is polled, 0 if none
  known,         \* result of that pipeline when last asked
  expired,       \* the polling time is over
  seen,          \* seenJobIds, reportedStages
  listed,        \* the steps of the update about jobs
  lastReported,  \* lastReportedState (Azure DevOps)
  \* external
  pods,          \* pods of the run that have failed
  workflows,     \* the pipelines that were started, oldest first
  shown,         \* status of the runner's source at meshStack
  steps,         \* the steps that meshStack shows for the jobs
  \* history
  rejected,      \* meshStack has rejected a request of the run
  faulty         \* a request has failed

local == <<retries, attempts, followed, known, expired, seen, listed, lastReported>>
meshfed == <<shown, steps>>
vars == <<impl, pc, local, pods, workflows, meshfed, rejected, faulty>>

\* How a job or stage ends: "failure" stands for every result that is not named,
\* "issues" for succeededWithIssues.
Finished == {"success", "skipped", "failure", "issues"}
Ends == {"done", "unknown", "crashed", "dropped"}

Init ==
  /\ impl \in Configs
  /\ pc = [r \in Runs |-> "offered"]
  /\ retries = [r \in Runs |-> 0]
  /\ attempts = [r \in Runs |-> 0]
  /\ followed = [r \in Runs |-> 0]
  /\ known = [r \in Runs |-> "active"]
  /\ expired = [r \in Runs |-> FALSE]
  /\ seen = [r \in Runs |-> {}]
  /\ listed = [r \in Runs |-> <<>>]
  /\ lastReported = [r \in Runs |-> "none"]
  /\ pods = [r \in Runs |-> 0]
  /\ workflows = <<>>
  /\ shown = [r \in Runs |-> "IN_PROGRESS"]
  /\ steps = [r \in Runs |-> [j \in Jobs |-> "none"]]
  /\ rejected = [r \in Runs |-> FALSE]
  /\ faulty = [r \in Runs |-> FALSE]

Goto(r, place) == pc' = [pc EXCEPT ![r] = place]

Is(r, provider) == impl[r].provider = provider

-----------------------------------------------------------------------------
(* Fetching.  A pod reads its run from a file; the scheduler claims one    *)
(* when the last one has been processed, at once or at its next tick.      *)

MayStart(r) ==
  /\ pc[r] = "offered"
  /\ Kubernetes \/ \A q \in Runs : pc[q] \in Ends \cup {"offered"}

Start(r) ==
  /\ MayStart(r)
  /\ Goto(r, "register")
  /\ UNCHANGED <<impl, local, pods, workflows, meshfed, rejected, faulty>>

\* The run cannot be parsed: the exception is logged and processBlock ends, in a
\* pod with exit code 0.
StartFails(r) ==
  /\ MayStart(r)
  /\ Goto(r, "dropped")
  /\ UNCHANGED <<impl, local, pods, workflows, meshfed, rejected, faulty>>

-----------------------------------------------------------------------------
(* MeshStackRetry.call and what its callers do with an exception.          *)

\* "reportFailure" sends FAILED where an exception is caught, "reportFailed" where
\* it is not.
Reports == {"reportTrigger", "reportJobs", "reportFinalJobs", "reportFinal",
            "reportFailure", "reportFailed"}
Requests == Reports \cup {"register"}

\* updateFinalBlockStatusFromWorkflow, mapPipelineResultToStatus.
FinalStatus_OnlyFailure(r) == IF known[r] = "failure" THEN "FAILED" ELSE "SUCCEEDED"
FinalStatus_Raw(r) == known[r]
FinalStatus(r) == IF known[r] = "success" THEN "SUCCEEDED" ELSE "FAILED"

\* The status in the update that is being sent.
Status(r) ==
  CASE pc[r] \in {"reportFailure", "reportFailed"} -> "FAILED"
    [] pc[r] = "reportFinal"                      -> FinalStatus(r)
    [] OTHER                                      -> "IN_PROGRESS"

\* meshStack takes the request.
Take(r) ==
  IF pc[r] \in Reports
  THEN /\ shown' = [shown EXCEPT ![r] = Status(r)]
       /\ steps' = [steps EXCEPT ![r] =
            IF pc[r] \in {"reportJobs", "reportFinalJobs"}
            THEN [j \in Jobs |-> IF j \in DOMAIN listed[r] THEN listed[r][j] ELSE @[j]]
            ELSE @]
  ELSE UNCHANGED meshfed

AfterTrigger(r) ==
  IF Is(r, "gitlab") \/ impl[r].async THEN "done"
  ELSE IF Is(r, "github") THEN "find" ELSE "poll"

AfterRequest(r) ==
  CASE pc[r] = "register"        -> "prepare"
    [] pc[r] = "reportTrigger"   -> AfterTrigger(r)
    [] pc[r] = "reportJobs"      -> "poll"
    [] pc[r] = "reportFinalJobs" -> "reportFinal"
    [] OTHER                     -> "done"

\* The locals of the request are gone.
EndRequest(r) ==
  /\ retries' = [retries EXCEPT ![r] = 0]
  /\ listed' = [listed EXCEPT ![r] = <<>>]

\* pollPipelineCompletion (Azure DevOps) remembers the state that it reported.
Remember(r) ==
  lastReported' = [lastReported EXCEPT ![r] =
    IF pc[r] = "reportJobs" THEN IF known[r] = "active" THEN "active" ELSE "completed"
    ELSE @]

Answered(r) ==
  /\ pc[r] \in Requests
  /\ Take(r)
  /\ Goto(r, AfterRequest(r))
  /\ EndRequest(r)
  /\ Remember(r)
  /\ UNCHANGED <<impl, attempts, followed, known, expired, seen, pods, workflows,
                 rejected, faulty>>

\* outcomeUnknownAfterRetry: the last attempt does not tell about earlier ones.
OutcomeUnknown_Never(r) == FALSE
OutcomeUnknown(r) == pc[r] \in Reports /\ retries[r] > 0

\* The exception about the outcome ends the pod with exit code 0.
AfterUnknown_FinalOnly(r) == IF pc[r] = "reportTrigger" THEN "crashed" ELSE "unknown"
AfterUnknown(r) == "unknown"

\* Any other exception.  Only the GitHub service catches it at the trigger.  Who
\* catches it sends FAILED, once more where that was the request.
AfterRejected_Ignored(r) == IF pc[r] = "register" THEN "crashed" ELSE "done"
AfterRejected(r) ==
  IF pc[r] \in {"reportFinal", "reportFailure"} \/ (pc[r] = "reportTrigger" /\ Is(r, "github"))
  THEN "reportFailed" ELSE "crashed"

\* Polling goes on whatever became of an update about jobs.
AfterException(r) ==
  CASE pc[r] = "reportJobs"      -> "poll"
    [] pc[r] = "reportFinalJobs" -> "reportFinal"
    [] OTHER -> IF OutcomeUnknown(r) THEN AfterUnknown(r) ELSE AfterRejected(r)

Raise(r) ==
  /\ Goto(r, AfterException(r))
  /\ EndRequest(r)

\* isTransient: no answer, or one of 423, 502, 503 and 504.  A first attempt ends
\* long before GIVE_UP_AFTER.
Transient(r) ==
  \/ /\ retries[r] < MaxRetries
     /\ retries' = [retries EXCEPT ![r] = @ + 1]
     /\ UNCHANGED <<pc, listed>>
  \/ /\ retries[r] > 0
     /\ Raise(r)

\* An attempt that has timed out takes effect before the next request or never.
NoAnswer(r) ==
  /\ pc[r] \in Requests
  /\ Take(r) \/ UNCHANGED meshfed
  /\ Transient(r)
  /\ faulty' = [faulty EXCEPT ![r] = TRUE]
  /\ UNCHANGED <<impl, attempts, followed, known, expired, seen, lastReported, pods,
                 workflows, rejected>>

\* Any other answer: the request has had no effect.
Rejected(r) ==
  /\ pc[r] \in Requests
  /\ Raise(r)
  /\ rejected' = [rejected EXCEPT ![r] = TRUE]
  /\ faulty' = [faulty EXCEPT ![r] = TRUE]
  /\ UNCHANGED <<impl, attempts, followed, known, expired, seen, lastReported, pods,
                 workflows, meshfed>>

-----------------------------------------------------------------------------
(* Preparing and triggering the pipeline.                                  *)

\* Implementation, client, decryption, and for GitHub the installation's token
\* and the name of the workflow.
Prepare(r) ==
  /\ pc[r] = "prepare"
  /\ Goto(r, "trigger")
  /\ UNCHANGED <<impl, local, pods, workflows, meshfed, rejected, faulty>>

PrepareFails(r) ==
  /\ pc[r] = "prepare"
  /\ Goto(r, "reportFailed")
  /\ UNCHANGED <<impl, local, pods, workflows, meshfed, rejected, faulty>>

NewPipeline(who, where, name) ==
  [run |-> who, provider |-> where, workflow |-> name, result |-> "active",
   jobs |-> [j \in Jobs |-> "absent"]]
NewWorkflow(r) == NewPipeline(r, impl[r].provider, impl[r].workflow)

\* Azure DevOps answers with the run that it made; GitHub's answer is empty.
TriggeredId(r) == IF Is(r, "azure") THEN Len(workflows) + 1 ELSE 0

Trigger(r) ==
  /\ pc[r] = "trigger"
  /\ workflows' = Append(workflows, NewWorkflow(r))
  /\ followed' = [followed EXCEPT ![r] = TriggeredId(r)]
  /\ Goto(r, "reportTrigger")
  /\ UNCHANGED <<impl, retries, attempts, known, expired, seen, listed, lastReported,
                 pods, meshfed, rejected, faulty>>

\* An input is not supported, or the provider answers with another error.
TriggerRefused(r) ==
  /\ pc[r] = "trigger"
  /\ Goto(r, IF Is(r, "github") THEN "reportFailure" ELSE "reportFailed")
  /\ UNCHANGED <<impl, local, pods, workflows, meshfed, rejected, faulty>>

\* The pipeline is there and the answer is lost: the same to the services.
TriggerLost(r) ==
  /\ pc[r] = "trigger"
  /\ workflows' = Append(workflows, NewWorkflow(r))
  /\ Goto(r, "reportFailed")
  /\ UNCHANGED <<impl, local, pods, meshfed, rejected, faulty>>

-----------------------------------------------------------------------------
(* pollWorkflowCompletion (GitHub) and pollPipelineCompletion.             *)

\* The newest workflow run that GitHub lists and that is not older than the
\* trigger less 30 seconds.  A listing may lag behind, and other runs or other
\* people may use the same workflow: every run of it, whoever started it, can be
\* the newest one listed.
Find(r) ==
  /\ pc[r] = "find"
  /\ \E i \in DOMAIN workflows :
       /\ workflows[i].provider = "github"
       /\ workflows[i].workflow = impl[r].workflow
       /\ followed' = [followed EXCEPT ![r] = i]
       /\ known' = [known EXCEPT ![r] = workflows[i].result]
  /\ Goto(r, "poll")
  /\ UNCHANGED <<impl, retries, attempts, expired, seen, listed, lastReported,
                 pods, workflows, meshfed, rejected, faulty>>

\* The request fails, or no run is listed yet.
FindNothing(r) ==
  /\ pc[r] = "find"
  /\ attempts' = [attempts EXCEPT ![r] = @ + 1]
  /\ Goto(r, IF attempts'[r] < MaxFind THEN "find" ELSE "reportFailure")
  /\ UNCHANGED <<impl, retries, followed, known, expired, seen, listed,
                 lastReported, pods, workflows, meshfed, rejected, faulty>>

Complete(r) == known[r] # "active"

PollEnds(r) ==
  /\ pc[r] = "poll"
  /\ Complete(r)
  /\ Goto(r, IF Is(r, "github") THEN "finalJobs" ELSE "reportFinal")
  /\ UNCHANGED <<impl, local, pods, workflows, meshfed, rejected, faulty>>

TimedOut_Never(r) == FALSE
TimedOut(r) == expired[r]

PollTimesOut(r) ==
  /\ pc[r] = "poll"
  /\ ~Complete(r) /\ TimedOut(r)
  /\ Goto(r, "reportFailure")
  /\ UNCHANGED <<impl, local, pods, workflows, meshfed, rejected, faulty>>

\* getWorkflowRun, getPipelineRun.
Poll(r) ==
  /\ pc[r] = "poll"
  /\ ~Complete(r) /\ ~TimedOut(r)
  /\ \/ /\ known' = [known EXCEPT ![r] = workflows[followed[r]].result]
        /\ Goto(r, "jobs")
        /\ UNCHANGED faulty
     \/ /\ faulty' = [faulty EXCEPT ![r] = TRUE]
        /\ UNCHANGED <<pc, known>>
  /\ UNCHANGED <<impl, retries, attempts, followed, expired, seen, listed,
                 lastReported, pods, workflows, meshfed, rejected>>

\* The status of a step: GitHub's jobs fail unless they succeed
\* (updateJobStatuses); Azure DevOps' stages may be skipped, and those with issues
\* are not known to have ended (mapStageToStatus).
StepStatus(r, status) ==
  IF Is(r, "github")
  THEN IF status = "success" THEN "SUCCEEDED"
       ELSE IF status \in Finished THEN "FAILED" ELSE "IN_PROGRESS"
  ELSE IF status \in {"success", "skipped"} THEN "SUCCEEDED"
       ELSE IF status = "failure" THEN "FAILED" ELSE "IN_PROGRESS"

\* A job is reported when it is new and, every time, when it has ended.
NewOrUpdated_NewOnly(r, jobs) == {j \in Jobs : j \notin seen[r]}
NewOrUpdated(r, jobs) == {j \in Jobs : j \notin seen[r] \/ jobs[j] \in Finished}

\* The jobs in the answer: of GitHub's only one page is read, here any of its size.
Present(jobs) == {j \in Jobs : jobs[j] # "absent"}
Pages(r, jobs) ==
  IF Is(r, "github") /\ ~(Cardinality(Present(jobs)) <= PageSize)
  THEN {page \in SUBSET Present(jobs) : Cardinality(page) = PageSize}
  ELSE {Present(jobs)}

\* The steps of an update about jobs.
StepUpdates(r, page, jobs) ==
  [j \in page \cap NewOrUpdated(r, jobs) |-> StepStatus(r, jobs[j])]

\* listWorkflowJobs, getPipelineTimeline: what is seen counts as seen before the
\* update is sent.  GitHub's service sends no update without a job.
ListJobs(r) ==
  /\ pc[r] \in {"jobs", "finalJobs"}
  /\ \E page \in Pages(r, workflows[followed[r]].jobs) :
     LET updates == StepUpdates(r, page, workflows[followed[r]].jobs)
         empty   == DOMAIN updates = {} /\ Is(r, "github")
     IN  /\ seen' = [seen EXCEPT ![r] = @ \cup DOMAIN updates]
         /\ listed' = [listed EXCEPT ![r] = updates]
         /\ Goto(r, IF pc[r] = "jobs" THEN IF empty THEN "poll" ELSE "reportJobs"
                    ELSE IF empty THEN "reportFinal" ELSE "reportFinalJobs")
  /\ UNCHANGED <<impl, retries, attempts, followed, known, expired, lastReported,
                 pods, workflows, meshfed, rejected, faulty>>

\* Without the timeline Azure DevOps' service reports a change of the state only.
StateChanged(r) == lastReported[r] # (IF known[r] = "active" THEN "active" ELSE "completed")

ListJobsFails(r) ==
  /\ pc[r] \in {"jobs", "finalJobs"}
  /\ Goto(r, IF pc[r] = "finalJobs" THEN "reportFinal"
             ELSE IF Is(r, "azure") /\ StateChanged(r) THEN "reportJobs" ELSE "poll")
  /\ listed' = [listed EXCEPT ![r] = <<>>]
  /\ faulty' = [faulty EXCEPT ![r] = TRUE]
  /\ UNCHANGED <<impl, retries, attempts, followed, known, expired, seen,
                 lastReported, pods, workflows, meshfed, rejected>>

\* MAX_POLLING_MINUTES have passed.
Expire(r) ==
  /\ pc[r] \in {"poll", "jobs", "reportJobs"}
  /\ ~expired[r]
  /\ expired' = [expired EXCEPT ![r] = TRUE]
  /\ UNCHANGED <<impl, pc, retries, attempts, followed, known, seen, listed,
                 lastReported, pods, workflows, meshfed, rejected, faulty>>

-----------------------------------------------------------------------------
(* External.                                                               *)

\* The pod has ended with exit code 1.
NewPod(r) ==
  /\ Kubernetes
  /\ pc[r] = "crashed"
  /\ pods[r] < BackoffLimit
  /\ pods' = [pods EXCEPT ![r] = @ + 1]
  /\ Goto(r, "offered")
  /\ attempts' = [attempts EXCEPT ![r] = 0]
  /\ followed' = [followed EXCEPT ![r] = 0]
  /\ known' = [known EXCEPT ![r] = "active"]
  /\ expired' = [expired EXCEPT ![r] = FALSE]
  /\ seen' = [seen EXCEPT ![r] = {}]
  /\ listed' = [listed EXCEPT ![r] = <<>>]
  /\ lastReported' = [lastReported EXCEPT ![r] = "none"]
  /\ UNCHANGED <<impl, retries, workflows, meshfed, rejected, faulty>>

\* Somebody else starts the workflow of a run, by hand or by a push.
ForeignStarts(r) ==
  /\ Is(r, "github")
  /\ Cardinality({i \in DOMAIN workflows : workflows[i].run = Foreign}) < MaxForeign
  /\ workflows' = Append(workflows, NewPipeline(Foreign, "github", impl[r].workflow))
  /\ UNCHANGED <<impl, pc, local, pods, meshfed, rejected, faulty>>

Results(provider) ==
  IF provider = "azure" THEN Finished ELSE Finished \ {"issues"}

JobAdvances(i, j) ==
  LET old == workflows[i].jobs[j] IN
  /\ workflows[i].result = "active"
  /\ \E new \in CASE old = "absent" -> {"active"}
                  [] old = "active" -> Results(workflows[i].provider)
                  [] OTHER          -> {} :
       workflows' = [workflows EXCEPT ![i].jobs[j] = new]
  /\ UNCHANGED <<impl, pc, local, pods, meshfed, rejected, faulty>>

\* When all the jobs that it has have ended.
WorkflowEnds(i) ==
  /\ workflows[i].result = "active"
  /\ \A j \in Jobs : workflows[i].jobs[j] \in Finished \cup {"absent"}
  /\ \E result \in {"success", "failure", "cancelled"} :
       workflows' = [workflows EXCEPT ![i].result = result]
  /\ UNCHANGED <<impl, pc, local, pods, meshfed, rejected, faulty>>

\* All runs are processed and no pod is replaced.
Idle ==
  /\ \A r \in Runs : pc[r] \in Ends
  /\ UNCHANGED vars

-----------------------------------------------------------------------------
Process(r) ==
  \/ Start(r) \/ StartFails(r) \/ Answered(r) \/ NoAnswer(r) \/ Rejected(r)
  \/ Prepare(r) \/ PrepareFails(r) \/ Trigger(r) \/ TriggerRefused(r) \/ TriggerLost(r)
  \/ Find(r) \/ FindNothing(r)
  \/ PollEnds(r) \/ PollTimesOut(r) \/ Poll(r) \/ ListJobs(r) \/ ListJobsFails(r)

Next ==
  \/ \E r \in Runs : Process(r) \/ Expire(r) \/ NewPod(r) \/ ForeignStarts(r)
  \/ \E i \in DOMAIN workflows : WorkflowEnds(i) \/ \E j \in Jobs : JobAdvances(i, j)
  \/ Idle

\* Threads run, requests end, time passes and Kubernetes replaces pods.  Nothing
\* is assumed of the pipelines.
Fairness == \A r \in Runs : WF_vars(Process(r)) /\ WF_vars(Expire(r)) /\ WF_vars(NewPod(r))

Spec == Init /\ [][Next]_vars
FairSpec == Spec /\ Fairness

-----------------------------------------------------------------------------
(* Properties.                                                             *)

Terminal == {"SUCCEEDED", "FAILED"}

\* Type invariant.
TypeOK ==
  /\ impl \in Configs
  /\ pc \in [Runs -> Requests \cup Ends \cup
              {"offered", "prepare", "trigger", "find", "poll", "jobs", "finalJobs"}]
  /\ retries \in [Runs -> 0..MaxRetries]
  /\ attempts \in [Runs -> 0..MaxFind]
  /\ followed \in [Runs -> 0..Len(workflows)]
  /\ known \in [Runs -> {"active", "success", "failure", "cancelled"}]
  /\ expired \in [Runs -> BOOLEAN]
  /\ seen \in [Runs -> SUBSET Jobs]
  /\ \A r \in Runs : DOMAIN listed[r] \subseteq Jobs
  /\ lastReported \in [Runs -> {"none", "active", "completed"}]
  /\ pods \in [Runs -> 0..BackoffLimit]
  /\ shown \in [Runs -> Terminal \cup {"IN_PROGRESS"}]
  /\ steps \in [Runs -> [Jobs -> Terminal \cup {"IN_PROGRESS", "none"}]]
  /\ rejected \in [Runs -> BOOLEAN]
  /\ faulty \in [Runs -> BOOLEAN]

Own(r) == {i \in DOMAIN workflows : workflows[i].run = r}

\* The pipelines that the runner may take for that of the run: at GitHub it does
\* not know which run of the workflow is its own.
Candidates(r) ==
  {i \in DOMAIN workflows :
     IF Is(r, "github")
     THEN workflows[i].provider = "github" /\ workflows[i].workflow = impl[r].workflow
     ELSE workflows[i].run = r}

\* meshStack shows a run as succeeded only if a pipeline has succeeded that was
\* triggered for it or, at GitHub, is at least a run of the same workflow: the
\* success may be that of another run, or of somebody else's.  Whatever is lost,
\* late or repeated, and in whichever pod (GitHubBlockRunnerService.kt,
\* AzureDevOpsPipelinePoller.kt).
SucceededIsTrue ==
  \A r \in Runs : shown[r] = "SUCCEEDED" =>
    \E i \in Candidates(r) : workflows[i].result = "success"

\* A final status that meshStack has taken is never replaced, though its answer
\* was lost and a retry of it was rejected, and also not by another pod
\* (MeshStackRequestExceptions.kt, MeshStackRequestOutcomeUnknownException).  It
\* rests on what is assumed of meshStack: a rejected request has no effect, and
\* an attempt that timed out none after the next request.
FinalNotOverwritten ==
  [][\A r \in Runs : shown[r] \in Terminal => shown'[r] = shown[r]]_vars

\* A run that the runner polls and is done with has a final status
\* (GitHubBlockRunnerService.kt, AzureDevOpsPipelinePoller.kt: every return).
DoneIsReported ==
  \A r \in Runs : pc[r] = "done" /\ ~impl[r].async /\ ~Is(r, "gitlab") => shown[r] \in Terminal

\* If meshStack rejects no request, no pipeline is triggered twice for a run,
\* however often requests are repeated or given up (SingleShotRunner.kt: a new
\* pod "would trigger the pipeline again", hence exit code 0 if the outcome of a
\* request is unknown).  A request that is rejected after the trigger ends the
\* pod with exit code 1, and the next pod does trigger the pipeline again.
TriggeredAgainOnlyIfRejected ==
  \A r \in Runs : ~rejected[r] => \A i, k \in Own(r) : i = k

\* The workflow that is polled is the one that was triggered for the run
\* (GitHubBlockRunnerService.kt: "the workflow run that was triggered by our
\* dispatch").
FollowsOwnWorkflow == \A r \in Runs : followed[r] # 0 => followed[r] \in Own(r)

\* One answer holds all jobs of the pipeline.
OnePage(r) ==
  Is(r, "github") => Cardinality(Present(workflows[followed[r]].jobs)) <= PageSize

\* The statuses of a step that tell how its job has ended.  A job that was skipped
\* has neither succeeded nor failed; it is shown as SUCCEEDED for Azure DevOps and
\* as FAILED for GitHub.
TellsEnd(status) ==
  CASE status = "success" -> {"SUCCEEDED"}
    [] status = "failure" -> {"FAILED"}
    [] status = "skipped" -> Terminal
    [] OTHER              -> {}

\* When the final status is sent and no request about the pipeline has failed,
\* every job has ended and meshStack shows how, though a job that is running is
\* reported once only (updateJobStatuses, updatePipelineAndStageStatuses).  The
\* code has two exceptions: a stage that succeeded with issues stays IN_PROGRESS
\* (mapStageToStatus), and of more jobs than fit into one page GitHub's service
\* sees one page only (listWorkflowJobs "lists all jobs").
JobsAreReported ==
  \A r \in Runs : pc[r] = "reportFinal" /\ ~faulty[r] /\ OnePage(r) =>
    LET jobs == workflows[followed[r]].jobs
    IN  \A j \in Present(jobs) : jobs[j] # "issues" => steps[r][j] \in TellsEnd(jobs[j])

\* Every run comes to an end, also if its pipeline never ends and meshStack or
\* the provider is not available (MAX_FIND_WORKFLOW_ATTEMPTS, MAX_POLLING_MINUTES,
\* GIVE_UP_AFTER); in one process none keeps the following ones from being claimed.
RunsEnd == \A r \in Runs : <>[](pc[r] \in Ends)

\* Nothing about a run is withheld from meshStack: when the runner is done with
\* it the run has its final status, and every job but the ones excepted above the
\* status it ended with
\* (updateJobStatuses, updateFinalBlockStatusFromWorkflow, processBlock).
ReportsComplete == TypeOK /\ DoneIsReported /\ JobsAreReported
=============================================================================
