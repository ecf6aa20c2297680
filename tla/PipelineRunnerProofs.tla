----------------------- MODULE PipelineRunnerProofs -------------------------
(***************************************************************************)
(* Proofs about PipelineRunner, for any number of runs, jobs and pods, any *)
(* mix of providers and any number of attempts.                            *)
(***************************************************************************)
EXTENDS PipelineRunner, TLAPS

-----------------------------------------------------------------------------
(* Types.                                                                  *)

Workflow == [run: Runs \cup {Foreign}, provider: Providers, workflow: STRING,
             result: {"active", "success", "failure", "cancelled"},
             jobs: [Jobs -> Finished \cup {"absent", "active"}]]

\* The places where a pipeline is polled, and those before its result is known.
Polling == {"poll", "jobs", "finalJobs", "reportJobs", "reportFinalJobs", "reportFinal"}
Before == {"offered", "register", "prepare", "trigger", "reportTrigger", "find"}

\* When a pipeline has ended all the jobs that it has have.
WorkflowsInv ==
  /\ workflows \in Seq(Workflow)
  /\ \A i \in DOMAIN workflows :
       workflows[i].result # "active" =>
         \A j \in Jobs : workflows[i].jobs[j] \in Finished \cup {"absent"}

\* What is polled exists, and what is known of its result is true.
Follows(r) ==
  /\ pc[r] \in Polling => followed[r] \in DOMAIN workflows
  /\ pc[r] = "reportTrigger" /\ Is(r, "azure") => followed[r] \in DOMAIN workflows
  /\ pc[r] \in Polling /\ known[r] # "active" => workflows[followed[r]].result = known[r]
  /\ pc[r] \in {"finalJobs", "reportFinalJobs", "reportFinal"} => known[r] # "active"
  /\ pc[r] \in Before => known[r] = "active"
  /\ pc[r] = "find" => attempts[r] < MaxFind
  /\ pc[r] \in Before \ {"find"} => attempts[r] = 0
FollowInv == WorkflowsInv /\ \A r \in Runs : Follows(r)

\* The steps of an update are steps.
ListedInv ==
  /\ DOMAIN listed = Runs
  /\ \A r \in Runs : \A j \in DOMAIN listed[r] : listed[r][j] \in Terminal \cup {"IN_PROGRESS"}

\* The places where a final status is sent.
SendsFinal == {"reportFinal", "reportFailure", "reportFailed"}

\* A final status that meshStack has taken belongs to a request that was not
\* answered yet, or the runner has ended with it.
Final(r) ==
  shown[r] \in Terminal =>
    \/ pc[r] \in {"done", "unknown"}
    \/ pc[r] \in SendsFinal /\ retries[r] > 0 /\ shown[r] = Status(r)
FinalInv == \A r \in Runs : Final(r)

\* Every job is listed, or shown, with the status of how it ended.
Steps(r) == [j \in Present(workflows[followed[r]].jobs) |->
               StepStatus(r, workflows[followed[r]].jobs[j])]
ListedAll(r) == OnePage(r) => listed[r] = Steps(r)
ShownAll(r) == OnePage(r) => \A j \in DOMAIN Steps(r) : steps[r][j] = Steps(r)[j]

\* Unless a request has failed, the last listing of the jobs comes after the
\* result and reaches meshStack before the final status.  GitHub's service lists
\* them once more after the poll.
Told(r) ==
  /\ pc[r] = "find" => Is(r, "github")
  /\ ~faulty[r] =>
       /\ pc[r] \in {"reportJobs", "reportFinalJobs"} /\ known[r] # "active" => ListedAll(r)
       /\ pc[r] = "poll" /\ known[r] # "active" /\ ~Is(r, "github") => ShownAll(r)
       /\ pc[r] = "reportFinal" => ShownAll(r)
ToldInv == \A r \in Runs : Told(r)

\* Unless meshStack rejects a request, a pod that is replaced, or refused, has
\* triggered nothing.
Untriggered == {"offered", "register", "prepare", "trigger", "crashed", "dropped"}
Once(r) ==
  ~rejected[r] => /\ pc[r] \in Untriggered => Own(r) = {}
                  /\ \A i, k \in Own(r) : i = k
OnceInv == \A r \in Runs : Once(r)

\* The types, with what the provers need to know of the pipelines.
TypeInv == TypeOK /\ ListedInv /\ FollowInv

\* A run has one of the providers.
LEMMA ImplFacts ==
  ASSUME TypeOK, NEW r \in Runs
  PROVE  impl[r].provider \in Providers /\ impl[r].async \in BOOLEAN /\ impl[r].workflow \in STRING
  BY ConfigsAssumption DEF TypeOK, Implementations

\* A pipeline that was triggered is one.
LEMMA WorkflowFacts ==
  ASSUME FollowInv, NEW i \in DOMAIN workflows
  PROVE  /\ i \in 1..Len(workflows) /\ Len(workflows) \in Nat
         /\ workflows[i] \in Workflow
         /\ workflows[i].provider \in Providers
         /\ workflows[i].result \in {"active", "success", "failure", "cancelled"}
         /\ workflows[i].jobs \in [Jobs -> Finished \cup {"absent", "active"}]
<1>1. i \in 1..Len(workflows) /\ Len(workflows) \in Nat /\ workflows[i] \in Workflow
  BY DEF FollowInv, WorkflowsInv
<1> QED BY <1>1 DEF Workflow

\* What a listing says of a job is a step.
LEMMA StepStatusType ==
  ASSUME NEW r, NEW x
  PROVE  StepStatus(r, x) \in Terminal \cup {"IN_PROGRESS"}
  BY DEF StepStatus, Terminal

\* What meshStack takes are statuses and steps.
LEMMA TakeTypes ==
  ASSUME TypeOK, ListedInv, NEW r \in Runs, Take(r) \/ UNCHANGED meshfed
  PROVE  /\ shown' \in [Runs -> Terminal \cup {"IN_PROGRESS"}]
         /\ steps' \in [Runs -> [Jobs -> Terminal \cup {"IN_PROGRESS", "none"}]]
         /\ \A q \in Runs \ {r} : shown'[q] = shown[q] /\ steps'[q] = steps[q]
<1>1. Status(r) \in Terminal \cup {"IN_PROGRESS"}
  BY DEF Status, FinalStatus, Terminal
<1>2. [j \in Jobs |-> IF j \in DOMAIN listed[r] THEN listed[r][j] ELSE steps[r][j]]
        \in [Jobs -> Terminal \cup {"IN_PROGRESS", "none"}]
  BY DEF TypeOK, ListedInv
<1> QED BY <1>1, <1>2 DEF Take, TypeOK, meshfed

\* Where a request may lead, whatever becomes of it.
LEMMA AfterTypes ==
  ASSUME NEW r \in Runs, pc[r] \in Requests
  PROVE  /\ AfterRequest(r) \in {"prepare", "done", "find", "poll", "reportFinal"}
         /\ AfterException(r) \in {"poll", "reportFinal", "unknown", "reportFailed", "crashed"}
<1>1. AfterRequest(r) \in {"prepare", "done", "find", "poll", "reportFinal"}
  BY DEF AfterRequest, AfterTrigger
<1>2. AfterException(r) \in {"poll", "reportFinal", "unknown", "reportFailed", "crashed"}
  BY DEF AfterException, AfterUnknown, AfterRejected
<1> QED BY <1>1, <1>2

\* A step of a run keeps the types.
LEMMA ProcessTypes ==
  ASSUME TypeInv, NEW r \in Runs, Process(r) \/ Expire(r) \/ NewPod(r)
  PROVE  TypeOK' /\ ListedInv'
<1> USE LimitsAssumption DEF Goto, local, meshfed
<1> TypeOK /\ ListedInv /\ FollowInv
  BY DEF TypeInv
<1>1. CASE Start(r)
  BY <1>1 DEF Start, MayStart, TypeOK, ListedInv, Requests, Reports, Ends
<1>2. CASE StartFails(r)
  BY <1>2 DEF StartFails, MayStart, TypeOK, ListedInv, Requests, Reports, Ends
<1>3. CASE Answered(r)
  <2>1. /\ shown' \in [Runs -> Terminal \cup {"IN_PROGRESS"}]
        /\ steps' \in [Runs -> [Jobs -> Terminal \cup {"IN_PROGRESS", "none"}]]
    BY <1>3, TakeTypes DEF Answered
  <2>2. pc' \in [Runs -> Requests \cup Ends \cup
              {"offered", "prepare", "trigger", "find", "poll", "jobs", "finalJobs"}]
    BY <1>3, AfterTypes DEF Answered, TypeOK, Requests, Reports, Ends
  <2>3. /\ retries' \in [Runs -> 0..MaxRetries]
        /\ lastReported' \in [Runs -> {"none", "active", "completed"}]
    BY <1>3 DEF Answered, EndRequest, Remember, TypeOK
  <2>4. ListedInv' /\ \A q \in Runs : DOMAIN listed'[q] \subseteq Jobs
    BY <1>3 DEF Answered, EndRequest, TypeOK, ListedInv
  <2> QED BY <1>3, <2>1, <2>2, <2>3, <2>4 DEF Answered, TypeOK
<1>4. CASE NoAnswer(r)
  <2>1. /\ shown' \in [Runs -> Terminal \cup {"IN_PROGRESS"}]
        /\ steps' \in [Runs -> [Jobs -> Terminal \cup {"IN_PROGRESS", "none"}]]
    BY <1>4, TakeTypes DEF NoAnswer
  <2>2. pc' \in [Runs -> Requests \cup Ends \cup
              {"offered", "prepare", "trigger", "find", "poll", "jobs", "finalJobs"}]
    BY <1>4, AfterTypes DEF NoAnswer, Transient, Raise, TypeOK, Requests, Reports, Ends
  <2>3. retries' \in [Runs -> 0..MaxRetries]
    <3>1. CASE retries[r] < MaxRetries /\ retries' = [retries EXCEPT ![r] = @ + 1]
      BY <3>1 DEF TypeOK
    <3>2. CASE Raise(r)
      BY <3>2 DEF Raise, EndRequest, TypeOK
    <3> QED BY <1>4, <3>1, <3>2 DEF NoAnswer, Transient
  <2>4. ListedInv' /\ \A q \in Runs : DOMAIN listed'[q] \subseteq Jobs
    <3>1. CASE UNCHANGED listed
      BY <3>1 DEF TypeOK, ListedInv
    <3>2. CASE Raise(r)
      BY <3>2 DEF Raise, EndRequest, TypeOK, ListedInv
    <3> QED BY <1>4, <3>1, <3>2 DEF NoAnswer, Transient
  <2>5. faulty' \in [Runs -> BOOLEAN]
    BY <1>4 DEF NoAnswer, TypeOK
  <2> QED BY <1>4, <2>1, <2>2, <2>3, <2>4, <2>5 DEF NoAnswer, TypeOK
<1>5. CASE Rejected(r)
  <2>1. pc' \in [Runs -> Requests \cup Ends \cup
              {"offered", "prepare", "trigger", "find", "poll", "jobs", "finalJobs"}]
    BY <1>5, AfterTypes DEF Rejected, Raise, TypeOK, Requests, Reports, Ends
  <2>2. retries' \in [Runs -> 0..MaxRetries]
    BY <1>5 DEF Rejected, Raise, EndRequest, TypeOK
  <2>3. ListedInv' /\ \A q \in Runs : DOMAIN listed'[q] \subseteq Jobs
    BY <1>5 DEF Rejected, Raise, EndRequest, TypeOK, ListedInv
  <2>4. faulty' \in [Runs -> BOOLEAN] /\ rejected' \in [Runs -> BOOLEAN]
    BY <1>5 DEF Rejected, TypeOK
  <2> QED BY <1>5, <2>1, <2>2, <2>3, <2>4 DEF Rejected, TypeOK
<1>6. CASE Prepare(r)
  BY <1>6 DEF Prepare, MayStart, TypeOK, ListedInv, Requests, Reports, Ends
<1>7. CASE PrepareFails(r)
  BY <1>7 DEF PrepareFails, MayStart, TypeOK, ListedInv, Requests, Reports, Ends
<1>8. CASE Trigger(r)
  <2>1. Len(workflows') = Len(workflows) + 1 /\ Len(workflows) \in Nat
    BY <1>8 DEF Trigger, FollowInv, WorkflowsInv
  <2>2. followed' \in [Runs -> 0..Len(workflows')]
    BY <1>8, <2>1 DEF Trigger, TriggeredId, TypeOK
  <2> QED BY <1>8, <2>2 DEF Trigger, TypeOK, ListedInv, Requests, Reports
<1>9. CASE TriggerRefused(r)
  BY <1>9 DEF TriggerRefused, MayStart, TypeOK, ListedInv, Requests, Reports, Ends
<1>10. CASE TriggerLost(r)
  BY <1>10 DEF TriggerLost, MayStart, TypeOK, ListedInv, Requests, Reports, Ends
<1>11. CASE Find(r)
  <2>1. PICK i \in DOMAIN workflows :
          /\ followed' = [followed EXCEPT ![r] = i]
          /\ known' = [known EXCEPT ![r] = workflows[i].result]
    BY <1>11 DEF Find
  <2>2. i \in 1..Len(workflows) /\ Len(workflows) \in Nat
    BY WorkflowFacts
  <2>3. workflows[i].result \in {"active", "success", "failure", "cancelled"}
    BY WorkflowFacts
  <2>4. followed' \in [Runs -> 0..Len(workflows)]
    BY <2>1, <2>2 DEF TypeOK
  <2>5. known' \in [Runs -> {"active", "success", "failure", "cancelled"}]
    BY <2>1, <2>3 DEF TypeOK
  <2> QED BY <1>11, <2>4, <2>5 DEF Find, TypeOK, ListedInv
<1>12. CASE FindNothing(r)
  <2>1. attempts[r] < MaxFind
    BY <1>12 DEF FindNothing, FollowInv, Follows
  <2> QED BY <1>12, <2>1 DEF FindNothing, TypeOK, ListedInv, Requests, Reports
<1>13. CASE PollEnds(r)
  BY <1>13 DEF PollEnds, MayStart, TypeOK, ListedInv, Requests, Reports, Ends
<1>14. CASE PollTimesOut(r)
  BY <1>14 DEF PollTimesOut, MayStart, TypeOK, ListedInv, Requests, Reports, Ends
<1>15. CASE Poll(r)
  <2>1. workflows[followed[r]].result \in {"active", "success", "failure", "cancelled"}
    BY <1>15, WorkflowFacts DEF Poll, FollowInv, Follows, Polling
  <2>2. known' \in [Runs -> {"active", "success", "failure", "cancelled"}]
    BY <1>15, <2>1 DEF Poll, TypeOK
  <2>3. faulty' \in [Runs -> BOOLEAN]
    BY <1>15 DEF Poll, TypeOK
  <2>4. pc' \in [Runs -> Requests \cup Ends \cup
              {"offered", "prepare", "trigger", "find", "poll", "jobs", "finalJobs"}]
    <3>1. Goto(r, "jobs") \/ UNCHANGED pc
      BY <1>15 DEF Poll
    <3> QED BY <3>1 DEF TypeOK
  <2> QED BY <1>15, <2>2, <2>3, <2>4 DEF Poll, TypeOK, ListedInv
<1>16. CASE ListJobs(r)
  <2>0. PICK page \in Pages(r, workflows[followed[r]].jobs) :
          LET updates == StepUpdates(r, page, workflows[followed[r]].jobs)
          IN  /\ seen' = [seen EXCEPT ![r] = @ \cup DOMAIN updates]
              /\ listed' = [listed EXCEPT ![r] = updates]
    BY <1>16 DEF ListJobs
  <2> DEFINE updates == StepUpdates(r, page, workflows[followed[r]].jobs)
  <2>1. /\ DOMAIN updates \subseteq Jobs
        /\ \A j \in DOMAIN updates : updates[j] \in Terminal \cup {"IN_PROGRESS"}
    BY StepStatusType DEF StepUpdates, NewOrUpdated
  <2>2. /\ seen' = [seen EXCEPT ![r] = @ \cup DOMAIN updates]
        /\ listed' = [listed EXCEPT ![r] = updates]
    BY <2>0
  <2>3. \E place \in {"poll", "reportJobs", "reportFinal", "reportFinalJobs"} : Goto(r, place)
    <3> HIDE DEF Goto
    <3> QED BY <1>16 DEF ListJobs
  <2> HIDE DEF updates
  <2>4. ListedInv' /\ \A q \in Runs : DOMAIN listed'[q] \subseteq Jobs
    BY <2>1, <2>2 DEF ListedInv, TypeOK
  <2>5. seen' \in [Runs -> SUBSET Jobs]
    BY <2>1, <2>2 DEF TypeOK
  <2>6. pc' \in [Runs -> Requests \cup Ends \cup
              {"offered", "prepare", "trigger", "find", "poll", "jobs", "finalJobs"}]
    BY <2>3 DEF TypeOK, Requests, Reports
  <2> QED BY <1>16, <2>4, <2>5, <2>6 DEF ListJobs, TypeOK
<1>17. CASE ListJobsFails(r)
  BY <1>17 DEF ListJobsFails, MayStart, TypeOK, ListedInv, Requests, Reports, Ends
<1>18. CASE Expire(r)
  BY <1>18 DEF Expire, MayStart, TypeOK, ListedInv, Requests, Reports, Ends
<1>19. CASE NewPod(r)
  BY <1>19 DEF NewPod, MayStart, TypeOK, ListedInv, Requests, Reports, Ends
<1> QED BY <1>1, <1>2, <1>3, <1>4, <1>5, <1>6, <1>7, <1>8, <1>9, <1>10, <1>11, <1>12, <1>13, <1>14, <1>15, <1>16, <1>17, <1>18, <1>19 DEF Process

-----------------------------------------------------------------------------
(* The pipelines.                                                          *)

\* How the pipelines change: new ones come, and what has ended stays.
Evolves ==
  /\ DOMAIN workflows \subseteq DOMAIN workflows'
  /\ \A i \in DOMAIN workflows :
       /\ workflows'[i].run = workflows[i].run
       /\ workflows'[i].provider = workflows[i].provider
       /\ workflows'[i].workflow = workflows[i].workflow
       /\ workflows[i].result # "active" => workflows'[i] = workflows[i]

\* A pipeline that is started is a new one.
LEMMA StartEvolves ==
  ASSUME TypeInv, NEW w \in Workflow, w.result = "active", workflows' = Append(workflows, w)
  PROVE  /\ WorkflowsInv' /\ Evolves
         /\ Len(workflows') = Len(workflows) + 1 /\ Len(workflows) + 1 \in DOMAIN workflows'
         /\ Len(workflows) \in Nat /\ Len(workflows) + 1 \notin DOMAIN workflows
         /\ \A i \in DOMAIN workflows : workflows'[i] = workflows[i]
         /\ workflows'[Len(workflows) + 1] = w
         /\ \A i \in DOMAIN workflows' : i \in DOMAIN workflows \/ i = Len(workflows) + 1
<1>1. workflows \in Seq(Workflow)
  BY DEF TypeInv, FollowInv, WorkflowsInv
<1>2. /\ workflows' \in Seq(Workflow)
      /\ Len(workflows') = Len(workflows) + 1
      /\ Len(workflows) \in Nat /\ Len(workflows) + 1 \notin DOMAIN workflows
      /\ \A i \in DOMAIN workflows : workflows'[i] = workflows[i]
      /\ workflows'[Len(workflows) + 1] = w
      /\ Len(workflows) + 1 \in DOMAIN workflows'
      /\ DOMAIN workflows \subseteq DOMAIN workflows'
      /\ \A i \in DOMAIN workflows' : i \in DOMAIN workflows \/ i = Len(workflows) + 1
  BY <1>1
<1>3. WorkflowsInv'
  BY <1>2 DEF TypeInv, FollowInv, WorkflowsInv
<1> QED BY <1>2, <1>3 DEF Evolves

\* What a trigger starts, or somebody else.
LEMMA NewWorkflowType ==
  ASSUME TypeInv, NEW r \in Runs
  PROVE  /\ NewWorkflow(r) \in Workflow /\ NewWorkflow(r).result = "active"
         /\ NewWorkflow(r).run = r
         /\ NewPipeline(Foreign, "github", impl[r].workflow) \in Workflow
         /\ NewPipeline(Foreign, "github", impl[r].workflow).result = "active"
         /\ NewPipeline(Foreign, "github", impl[r].workflow).run = Foreign
<1>1. impl[r].workflow \in STRING /\ impl[r].provider \in Providers
  BY ImplFacts DEF TypeInv
<1> QED BY <1>1 DEF NewWorkflow, NewPipeline, Workflow, Providers

\* A trigger adds a pipeline of the run.
LEMMA TriggerEvolves ==
  ASSUME TypeInv, NEW r \in Runs, workflows' = Append(workflows, NewWorkflow(r))
  PROVE  /\ WorkflowsInv' /\ Evolves
         /\ Len(workflows') = Len(workflows) + 1 /\ Len(workflows) + 1 \in DOMAIN workflows'
         /\ \A i \in DOMAIN workflows : workflows'[i] = workflows[i]
         /\ workflows'[Len(workflows) + 1] = NewWorkflow(r)
         /\ \A i \in DOMAIN workflows' : i \in DOMAIN workflows \/ i = Len(workflows) + 1
<1> HIDE DEF NewWorkflow
<1> QED BY NewWorkflowType, StartEvolves

\* A pipeline changes at the provider, while it is active.
LEMMA ProviderEvolves ==
  ASSUME TypeInv, NEW i \in DOMAIN workflows, WorkflowEnds(i) \/ \E j \in Jobs : JobAdvances(i, j)
  PROVE  /\ WorkflowsInv' /\ Evolves /\ Len(workflows') = Len(workflows)
         /\ DOMAIN workflows' = DOMAIN workflows
<1> USE DEF TypeInv
<1>1. workflows \in Seq(Workflow) /\ workflows[i] \in Workflow /\ workflows[i].result = "active"
  BY WorkflowFacts DEF FollowInv, WorkflowsInv, WorkflowEnds, JobAdvances
<1>2. ASSUME NEW w \in Workflow, workflows' = [workflows EXCEPT ![i] = w],
             w.run = workflows[i].run, w.provider = workflows[i].provider,
             w.workflow = workflows[i].workflow,
             w.result # "active" => \A j \in Jobs : w.jobs[j] \in Finished \cup {"absent"}
      PROVE  /\ WorkflowsInv' /\ Evolves /\ Len(workflows') = Len(workflows)
             /\ DOMAIN workflows' = DOMAIN workflows
  <2>1. /\ workflows' \in Seq(Workflow)
        /\ Len(workflows') = Len(workflows)
        /\ DOMAIN workflows' = DOMAIN workflows
        /\ workflows'[i] = w
        /\ \A k \in DOMAIN workflows \ {i} : workflows'[k] = workflows[k]
    BY <1>1, <1>2
  <2>3. WorkflowsInv'
    BY <1>2, <2>1 DEF FollowInv, WorkflowsInv
  <2> QED BY <1>1, <1>2, <2>1, <2>3 DEF Evolves
<1>3. CASE WorkflowEnds(i)
  <2>1. PICK x \in {"success", "failure", "cancelled"} : workflows' = [workflows EXCEPT ![i].result = x]
    BY <1>3 DEF WorkflowEnds
  <2> DEFINE w == [workflows[i] EXCEPT !.result = x]
  <2>2. w \in Workflow /\ w.run = workflows[i].run /\ w.workflow = workflows[i].workflow
          /\ w.provider = workflows[i].provider /\ w.jobs = workflows[i].jobs
    BY <1>1 DEF Workflow
  <2>3. workflows' = [workflows EXCEPT ![i] = w]
    BY <2>1
  <2>4. \A j \in Jobs : w.jobs[j] \in Finished \cup {"absent"}
    BY <1>3, <2>2 DEF WorkflowEnds
  <2> HIDE DEF w
  <2> QED BY <1>2, <2>2, <2>3, <2>4
<1>4. ASSUME NEW j \in Jobs, JobAdvances(i, j)
      PROVE  /\ WorkflowsInv' /\ Evolves /\ Len(workflows') = Len(workflows)
             /\ DOMAIN workflows' = DOMAIN workflows
  <2>1. PICK x \in Finished \cup {"active"} : workflows' = [workflows EXCEPT ![i].jobs[j] = x]
    BY <1>4 DEF JobAdvances, Results
  <2> DEFINE w == [workflows[i] EXCEPT !.jobs[j] = x]
  <2>2. w \in Workflow /\ w.run = workflows[i].run /\ w.workflow = workflows[i].workflow
          /\ w.provider = workflows[i].provider /\ w.result = workflows[i].result
    BY <1>1 DEF Workflow
  <2>3. workflows' = [workflows EXCEPT ![i] = w]
    BY <2>1
  <2> HIDE DEF w
  <2> QED BY <1>1, <1>2, <2>2, <2>3
<1> QED BY <1>3, <1>4

\* What happens without a runner.
Elsewhere ==
  \/ \E r \in Runs : ForeignStarts(r)
  \/ \E i \in DOMAIN workflows : WorkflowEnds(i) \/ \E j \in Jobs : JobAdvances(i, j)

\* It adds no pipeline of a run and does nothing else to the runs.
LEMMA ElsewhereEvolves ==
  ASSUME TypeInv, Elsewhere
  PROVE  /\ WorkflowsInv' /\ Evolves
         /\ Len(workflows) \in Nat /\ Len(workflows') \in Nat /\ Len(workflows) <= Len(workflows')
         /\ UNCHANGED <<impl, pc, local, pods, meshfed, rejected, faulty>>
         /\ \A q \in Runs : Own(q)' = Own(q)
<1>1. ASSUME NEW r \in Runs, ForeignStarts(r)
      PROVE  /\ WorkflowsInv' /\ Evolves
             /\ Len(workflows) \in Nat /\ Len(workflows') \in Nat /\ Len(workflows) <= Len(workflows')
             /\ \A q \in Runs : Own(q)' = Own(q)
  <2> DEFINE w == NewPipeline(Foreign, "github", impl[r].workflow)
  <2>1. w \in Workflow /\ w.result = "active" /\ w.run = Foreign
    BY NewWorkflowType
  <2>2. workflows' = Append(workflows, w)
    BY <1>1 DEF ForeignStarts
  <2> HIDE DEF w
  <2>3. /\ WorkflowsInv' /\ Evolves
        /\ Len(workflows') = Len(workflows) + 1 /\ Len(workflows) \in Nat
        /\ \A i \in DOMAIN workflows : workflows'[i] = workflows[i]
        /\ workflows'[Len(workflows) + 1] = w
        /\ \A i \in DOMAIN workflows' : i \in DOMAIN workflows \/ i = Len(workflows) + 1
    BY <2>1, <2>2, StartEvolves
  <2>4. DOMAIN workflows \subseteq DOMAIN workflows'
    BY <2>3 DEF Evolves
  <2>5. ASSUME NEW q \in Runs PROVE Own(q)' = Own(q)
    <3>1. q # Foreign
      BY LimitsAssumption
    <3> QED BY <2>1, <2>3, <2>4, <3>1 DEF Own
  <2> QED BY <2>3, <2>5
<1>2. ASSUME NEW i \in DOMAIN workflows, WorkflowEnds(i) \/ \E j \in Jobs : JobAdvances(i, j)
      PROVE  /\ WorkflowsInv' /\ Evolves
             /\ Len(workflows) \in Nat /\ Len(workflows') \in Nat /\ Len(workflows) <= Len(workflows')
             /\ \A q \in Runs : Own(q)' = Own(q)
  <2>1. /\ WorkflowsInv' /\ Evolves /\ Len(workflows') = Len(workflows)
        /\ DOMAIN workflows' = DOMAIN workflows
    BY <1>2, ProviderEvolves
  <2>2. Len(workflows) \in Nat
    BY DEF TypeInv, FollowInv, WorkflowsInv
  <2>3. ASSUME NEW q \in Runs PROVE Own(q)' = Own(q)
    BY <2>1 DEF Own, Evolves
  <2> QED BY <2>1, <2>2, <2>3
<1>3. UNCHANGED <<impl, pc, local, pods, meshfed, rejected, faulty>>
  BY DEF Elsewhere, ForeignStarts, WorkflowEnds, JobAdvances
<1> QED BY <1>1, <1>2, <1>3 DEF Elsewhere

-----------------------------------------------------------------------------
(* The pipeline that is followed.                                          *)

\* A run stays where it is while the pipelines go on.
LEMMA FollowsFrame ==
  ASSUME TypeInv, Evolves, NEW q \in Runs, impl' = impl, pc'[q] = pc[q],
         followed'[q] = followed[q], known'[q] = known[q], attempts'[q] = attempts[q]
  PROVE  Follows(q)'
<1>1. Follows(q)
  BY DEF TypeInv, FollowInv
<1>2. Is(q, "azure")' <=> Is(q, "azure")
  BY DEF Is
<1> QED BY <1>1, <1>2 DEF Follows, Evolves, Polling

\* A step of a run lets the pipelines evolve and leaves the other runs alone.
LEMMA ProcessEvolves ==
  ASSUME TypeInv, NEW r \in Runs, Process(r) \/ Expire(r) \/ NewPod(r)
  PROVE  /\ WorkflowsInv' /\ Evolves /\ impl' = impl
         /\ \A q \in Runs \ {r} : /\ pc'[q] = pc[q] /\ followed'[q] = followed[q]
                                  /\ known'[q] = known[q] /\ attempts'[q] = attempts[q]
                                  /\ retries'[q] = retries[q] /\ shown'[q] = shown[q]
                                  /\ steps'[q] = steps[q] /\ listed'[q] = listed[q]
                                  /\ faulty'[q] = faulty[q] /\ rejected'[q] = rejected[q]
<1> USE DEF TypeInv
<1>1. impl' = impl
  BY DEF Process, Start, StartFails, Answered, NoAnswer, Rejected, Prepare, PrepareFails, Trigger,
         TriggerRefused, TriggerLost, Find, FindNothing, PollEnds, PollTimesOut, Poll, ListJobs,
         ListJobsFails, Expire, NewPod
<1>2. WorkflowsInv' /\ Evolves
  <2>1. CASE Trigger(r) \/ TriggerLost(r)
    BY <1>1, <2>1, TriggerEvolves DEF Trigger, TriggerLost
  <2>2. CASE UNCHANGED workflows
    <3>1. WorkflowsInv
      BY DEF FollowInv
    <3> QED BY <1>1, <2>2, <3>1 DEF WorkflowsInv, Evolves
  <2> QED BY <2>1, <2>2
       DEF Process, Start, StartFails, Answered, NoAnswer, Rejected, Prepare, PrepareFails,
           TriggerRefused, Find, FindNothing, PollEnds, PollTimesOut, Poll, ListJobs,
           ListJobsFails, Expire, NewPod
<1>3. \A q \in Runs \ {r} : shown'[q] = shown[q] /\ steps'[q] = steps[q]
  <2>1. CASE Take(r) \/ UNCHANGED meshfed
    BY <2>1, TakeTypes
  <2> QED BY <2>1
       DEF Process, Start, StartFails, Answered, NoAnswer, Rejected, Prepare, PrepareFails, Trigger,
           TriggerRefused, TriggerLost, Find, FindNothing, PollEnds, PollTimesOut, Poll, ListJobs,
           ListJobsFails, Expire, NewPod
<1>4. \A q \in Runs \ {r} : /\ pc'[q] = pc[q] /\ followed'[q] = followed[q]
                            /\ known'[q] = known[q] /\ attempts'[q] = attempts[q]
                            /\ retries'[q] = retries[q] /\ listed'[q] = listed[q]
                            /\ faulty'[q] = faulty[q] /\ rejected'[q] = rejected[q]
  <2> USE DEF Goto, local, EndRequest, TypeOK, ListedInv
  <2>1. CASE Start(r) \/ StartFails(r) \/ Prepare(r) \/ PrepareFails(r) \/ TriggerRefused(r) \/ PollEnds(r) \/ PollTimesOut(r)
    BY <2>1 DEF Start, StartFails, Prepare, PrepareFails, TriggerRefused, PollEnds, PollTimesOut
  <2>2. CASE Answered(r)
    BY <2>2 DEF Answered
  <2>3. CASE NoAnswer(r)
    BY <2>3 DEF NoAnswer, Transient, Raise
  <2>4. CASE Rejected(r)
    BY <2>4 DEF Rejected, Raise
  <2>5. CASE Trigger(r)
    BY <2>5 DEF Trigger
  <2>6. CASE TriggerLost(r)
    BY <2>6 DEF TriggerLost
  <2>7. CASE Find(r)
    BY <2>7 DEF Find
  <2>8. CASE FindNothing(r)
    BY <2>8 DEF FindNothing
  <2>9. CASE Poll(r)
    BY <2>9 DEF Poll
  <2>10. CASE ListJobs(r)
    BY <2>10 DEF ListJobs
  <2>11. CASE ListJobsFails(r)
    BY <2>11 DEF ListJobsFails
  <2>12. CASE Expire(r)
    BY <2>12 DEF Expire
  <2>13. CASE NewPod(r)
    BY <2>13 DEF NewPod
  <2> QED BY <2>1, <2>2, <2>3, <2>4, <2>5, <2>6, <2>7, <2>8, <2>9, <2>10, <2>11, <2>12, <2>13 DEF Process
<1> QED BY <1>1, <1>2, <1>3, <1>4

\* A step of a run keeps what it follows.
LEMMA ProcessFollows ==
  ASSUME TypeInv, NEW r \in Runs, Process(r) \/ Expire(r) \/ NewPod(r)
  PROVE  FollowInv'
<1> SUFFICES Follows(r)'
  BY ProcessEvolves, FollowsFrame DEF FollowInv
<1> USE LimitsAssumption DEF Goto, local
<1>1. TypeOK /\ Follows(r) /\ WorkflowsInv
  BY DEF TypeInv, FollowInv
<1>2. Evolves /\ impl' = impl
  BY ProcessEvolves
<1>3. Is(r, "azure")' <=> Is(r, "azure")
  BY <1>2 DEF Is
<1>4. pc[r] \in Polling /\ known[r] # "active" =>
        followed[r] \in DOMAIN workflows' /\ workflows'[followed[r]].result = known[r]
  BY <1>1, <1>2 DEF Follows, Evolves
<1>5. followed[r] \in DOMAIN workflows => followed[r] \in DOMAIN workflows'
  BY <1>2 DEF Evolves
<1> USE DEF TypeOK
<1>6. CASE \/ Start(r) \/ StartFails(r) \/ Prepare(r) \/ PrepareFails(r) \/ TriggerRefused(r)
           \/ TriggerLost(r) \/ PollEnds(r) \/ PollTimesOut(r) \/ Expire(r)
  BY <1>1, <1>3, <1>4, <1>5, <1>6
     DEF Start, MayStart, StartFails, Prepare, PrepareFails, TriggerRefused, TriggerLost, PollEnds,
         PollTimesOut, Complete, Expire, Follows, Polling, Before
<1>7. CASE Answered(r)
  <2>1. /\ pc[r] = "register" => pc'[r] = "prepare"
        /\ pc[r] = "reportTrigger" => \/ pc'[r] \in {"done", "find"}
                                      \/ pc'[r] = "poll" /\ Is(r, "azure")
        /\ pc[r] = "reportJobs" => pc'[r] = "poll"
        /\ pc[r] = "reportFinalJobs" => pc'[r] = "reportFinal"
        /\ pc[r] \in SendsFinal => pc'[r] = "done"
    BY <1>1, <1>7, ImplFacts DEF SendsFinal, Answered, AfterRequest, AfterTrigger, Is, Providers
  <2> QED BY <1>1, <1>3, <1>4, <1>5, <1>7, <2>1
             DEF Answered, Requests, Reports, SendsFinal, Follows, Polling, Before
<1>8. CASE NoAnswer(r) \/ Rejected(r)
  <2>1. \/ pc'[r] = pc[r]
        \/ pc[r] = "reportJobs" /\ pc'[r] = "poll"
        \/ pc[r] = "reportFinalJobs" /\ pc'[r] = "reportFinal"
        \/ pc'[r] \in {"unknown", "reportFailed", "crashed"}
    <3>1. CASE UNCHANGED pc
      BY <3>1
    <3>2. CASE Raise(r)
      BY <1>1, <3>2 DEF Raise, AfterException, AfterUnknown, AfterRejected
    <3> QED BY <1>8, <3>1, <3>2 DEF NoAnswer, Rejected, Transient
  <2>2. UNCHANGED <<attempts, followed, known>>
    BY <1>8 DEF NoAnswer, Rejected
  <2> QED BY <1>1, <1>3, <1>4, <1>5, <2>1, <2>2 DEF Follows, Polling, Before
<1>9. CASE Trigger(r)
  <2>1. Len(workflows) + 1 \in DOMAIN workflows'
    BY <1>2, <1>9, TriggerEvolves DEF Trigger
  <2>2. Is(r, "azure") => followed'[r] = Len(workflows) + 1
    BY <1>1, <1>9 DEF Trigger, TriggeredId
  <2> QED BY <1>1, <1>3, <1>9, <2>1, <2>2 DEF Trigger, Follows, Polling, Before
<1>10. CASE Find(r)
  <2>1. PICK i \in DOMAIN workflows : followed'[r] = i /\ known'[r] = workflows[i].result
    BY <1>1, <1>10 DEF Find
  <2>2. UNCHANGED workflows /\ pc'[r] = "poll"
    BY <1>1, <1>10 DEF Find
  <2> QED BY <2>1, <2>2 DEF Follows, Polling, Before
<1>11. CASE FindNothing(r)
  BY <1>1, <1>3, <1>11 DEF FindNothing, Follows, Polling, Before
<1>12. CASE Poll(r)
  <2>1. pc'[r] \in {"poll", "jobs"} /\ UNCHANGED <<workflows, followed>> /\ pc[r] = "poll"
    BY <1>1, <1>12 DEF Poll
  <2>2. known'[r] = workflows[followed[r]].result \/ (pc'[r] = pc[r] /\ known'[r] = known[r])
    BY <1>1, <1>12 DEF Poll
  <2> QED BY <1>1, <2>1, <2>2 DEF Follows, Polling, Before
<1>13. CASE ListJobs(r)
  <2>1. \/ pc[r] = "jobs" /\ pc'[r] \in {"poll", "reportJobs"}
        \/ pc[r] = "finalJobs" /\ pc'[r] \in {"reportFinal", "reportFinalJobs"}
    <3>1. CASE pc[r] = "jobs"
      <4>1. \E place \in {"poll", "reportJobs"} : Goto(r, place)
        <5> HIDE DEF Goto, TypeOK
        <5> QED BY <1>13, <3>1 DEF ListJobs
      <4> QED BY <1>1, <3>1, <4>1
    <3>2. CASE pc[r] = "finalJobs"
      <4>1. \E place \in {"reportFinal", "reportFinalJobs"} : Goto(r, place)
        <5> HIDE DEF Goto, TypeOK
        <5> QED BY <1>13, <3>2 DEF ListJobs
      <4> QED BY <1>1, <3>2, <4>1
    <3> QED BY <1>13, <3>1, <3>2 DEF ListJobs
  <2> QED BY <1>1, <1>4, <1>5, <1>13, <2>1 DEF ListJobs, Follows, Polling, Before
<1>14. CASE ListJobsFails(r)
  <2>1. \/ pc[r] = "jobs" /\ pc'[r] \in {"poll", "reportJobs"}
        \/ pc[r] = "finalJobs" /\ pc'[r] = "reportFinal"
    <3>1. CASE pc[r] = "jobs"
      <4>1. \E place \in {"poll", "reportJobs"} : Goto(r, place)
        <5> HIDE DEF Goto, TypeOK
        <5> QED BY <1>14, <3>1 DEF ListJobsFails
      <4> QED BY <1>1, <3>1, <4>1
    <3>2. CASE pc[r] = "finalJobs"
      <4>1. \E place \in {"reportFinal"} : Goto(r, place)
        <5> HIDE DEF Goto, TypeOK
        <5> QED BY <1>14, <3>2 DEF ListJobsFails
      <4> QED BY <1>1, <3>2, <4>1
    <3> QED BY <1>14, <3>1, <3>2 DEF ListJobsFails
  <2> QED BY <1>1, <1>4, <1>5, <1>14, <2>1 DEF ListJobsFails, Follows, Polling, Before
<1>15. CASE NewPod(r)
  BY <1>1, <1>15 DEF NewPod, Follows, Polling, Before
<1> QED BY <1>6, <1>7, <1>8, <1>9, <1>10, <1>11, <1>12, <1>13, <1>14, <1>15 DEF Process

\* So do the pipelines themselves.
LEMMA TypesStep ==
  ASSUME TypeInv, [Next]_vars
  PROVE  TypeInv'
<1> TypeOK /\ ListedInv /\ FollowInv
  BY DEF TypeInv
<1>1. CASE UNCHANGED vars
  <2> USE <1>1 DEF vars, local, meshfed
  <2>1. TypeOK' /\ ListedInv'
    BY DEF TypeOK, ListedInv
  <2>2. Evolves
    BY DEF Evolves
  <2>3. WorkflowsInv'
    BY DEF FollowInv, WorkflowsInv
  <2> QED BY <2>1, <2>2, <2>3, FollowsFrame DEF TypeInv, FollowInv
<1>2. ASSUME NEW r \in Runs, Process(r) \/ Expire(r) \/ NewPod(r)
      PROVE  TypeInv'
  BY <1>2, ProcessTypes, ProcessFollows DEF TypeInv
<1>3. CASE Elsewhere
  <2>1. /\ WorkflowsInv' /\ Evolves
        /\ Len(workflows) \in Nat /\ Len(workflows') \in Nat /\ Len(workflows) <= Len(workflows')
    BY <1>3, ElsewhereEvolves
  <2>2. UNCHANGED <<impl, pc, local, pods, meshfed, rejected, faulty>>
    BY <1>3, ElsewhereEvolves
  <2>3. TypeOK' /\ ListedInv'
    BY <2>1, <2>2 DEF TypeOK, ListedInv, local, meshfed
  <2> QED BY <2>1, <2>2, <2>3, FollowsFrame DEF TypeInv, FollowInv, local
<1> QED BY <1>1, <1>2, <1>3 DEF Next, Idle, Elsewhere

\* The types hold throughout.
LEMMA TypesHold == Spec => []TypeInv
<1>1. Init => TypeInv
  <2> SUFFICES ASSUME Init PROVE TypeInv
    OBVIOUS
  <2> USE LimitsAssumption DEF Init
  <2>1. DOMAIN workflows = {} /\ Len(workflows) = 0 /\ workflows \in Seq(Workflow)
    OBVIOUS
  <2>2. \A r \in Runs : DOMAIN listed[r] = {}
    <3>1. \A r \in Runs : listed[r] = <<>>
      OBVIOUS
    <3>2. DOMAIN <<>> = {}
      OBVIOUS
    <3> HIDE DEF Init
    <3> QED BY <3>1, <3>2
  <2>3. expired \in [Runs -> BOOLEAN] /\ rejected \in [Runs -> BOOLEAN] /\ faulty \in [Runs -> BOOLEAN]
    <3>1. [r \in Runs |-> FALSE] \in [Runs -> BOOLEAN]
      BY Zenon
    <3> QED BY <3>1
  <2>4. TypeOK
    BY <2>1, <2>2, <2>3 DEF TypeOK, Terminal
  <2>5. ListedInv
    BY <2>2 DEF ListedInv
  <2>6. FollowInv
    BY <2>1 DEF FollowInv, WorkflowsInv, Follows, Polling, Before
  <2> QED BY <2>4, <2>5, <2>6 DEF TypeInv
<1>2. TypeInv /\ [Next]_vars => TypeInv'
  BY TypesStep
<1> QED BY <1>1, <1>2, PTL DEF Spec

-----------------------------------------------------------------------------
(* The final status.                                                       *)

\* What meshStack shows changes with a request that it takes.
LEMMA ShownStep ==
  ASSUME TypeInv, NEW r \in Runs, Process(r) \/ Expire(r) \/ NewPod(r)
  PROVE  \/ shown'[r] = shown[r]
         \/ /\ Answered(r) \/ NoAnswer(r)
            /\ pc[r] \in Reports
            /\ shown'[r] = Status(r)
<1>1. shown \in [Runs -> Terminal \cup {"IN_PROGRESS"}]
  BY DEF TypeInv, TypeOK
<1>2. CASE Answered(r) \/ NoAnswer(r)
  BY <1>1, <1>2 DEF Answered, NoAnswer, Take, meshfed
<1>3. CASE UNCHANGED meshfed
  BY <1>3 DEF meshfed
<1> QED BY <1>2, <1>3
     DEF Process, Start, StartFails, Rejected, Prepare, PrepareFails, Trigger, TriggerRefused,
         TriggerLost, Find, FindNothing, PollEnds, PollTimesOut, Poll, ListJobs, ListJobsFails,
         Expire, NewPod

\* An exception after a retry, and a rejection without one.
LEMMA ExceptionFacts ==
  ASSUME TypeInv, NEW r \in Runs, pc[r] \in SendsFinal, Raise(r)
  PROVE  IF retries[r] > 0 THEN pc'[r] = "unknown" ELSE pc'[r] \in {"reportFailed", "crashed"}
<1>1. pc'[r] = AfterException(r)
  BY DEF TypeInv, TypeOK, Raise, Goto
<1>2. AfterException(r) = IF retries[r] > 0 THEN "unknown" ELSE AfterRejected(r)
  BY DEF AfterException, OutcomeUnknown, AfterUnknown, Reports, SendsFinal
<1> QED BY <1>1, <1>2 DEF AfterRejected, SendsFinal

\* A step of a run keeps its final status in place.
LEMMA ProcessFinal ==
  ASSUME TypeInv, FinalInv, NEW r \in Runs, Process(r) \/ Expire(r) \/ NewPod(r)
  PROVE  /\ FinalInv'
         /\ \A q \in Runs : shown[q] \in Terminal => shown'[q] = shown[q]
<1>1. Final(r)
  BY DEF FinalInv
<1>2. shown[r] \in Terminal => shown'[r] = shown[r]
  BY <1>1, ShownStep DEF Final, SendsFinal, Reports, Requests, Answered, NoAnswer
<1>3. ASSUME NEW q \in Runs \ {r}
      PROVE  Final(q)' /\ shown'[q] = shown[q]
  <2>1. pc'[q] = pc[q] /\ retries'[q] = retries[q] /\ shown'[q] = shown[q] /\ known'[q] = known[q]
    BY ProcessEvolves
  <2>2. Status(q)' = Status(q)
    BY <2>1 DEF Status, FinalStatus
  <2> QED BY <2>1, <2>2 DEF FinalInv, Final
<1>4. Final(r)'
  <2> SUFFICES ASSUME shown'[r] \in Terminal
               PROVE  \/ pc'[r] \in {"done", "unknown"}
                      \/ /\ pc'[r] \in SendsFinal /\ retries'[r] > 0
                         /\ shown'[r] = Status(r)'
    BY DEF Final
  <2>1. Status(r) \in Terminal => pc[r] \in SendsFinal
    BY DEF Status, Terminal, SendsFinal
  <2>2. /\ pc \in [Runs -> Requests \cup Ends \cup
                    {"offered", "prepare", "trigger", "find", "poll", "jobs", "finalJobs"}]
        /\ retries \in [Runs -> 0..MaxRetries] /\ MaxRetries \in Nat \ {0}
    BY LimitsAssumption DEF TypeInv, TypeOK
  <2>3. CASE pc[r] \in SendsFinal /\ Answered(r)
    BY <2>2, <2>3 DEF Answered, Goto, AfterRequest, SendsFinal
  <2>4. CASE pc[r] \in SendsFinal /\ NoAnswer(r)
    <3>1. CASE Raise(r) /\ retries[r] > 0
      BY <2>4, <3>1, ExceptionFacts
    <3>2. CASE /\ retries' = [retries EXCEPT ![r] = @ + 1]
               /\ UNCHANGED pc
      <4>1. Status(r)' = Status(r)
        BY <2>4, <3>2 DEF Status, FinalStatus, NoAnswer
      <4>2. shown'[r] = Status(r)
        BY <1>1, <2>4, ShownStep DEF Final, SendsFinal
      <4> QED BY <2>2, <2>4, <3>2, <4>1, <4>2
    <3> QED BY <2>4, <3>1, <3>2 DEF NoAnswer, Transient
  <2>5. CASE pc[r] \in SendsFinal /\ Rejected(r)
    <3>1. shown'[r] = shown[r]
      BY <2>5 DEF Rejected, meshfed
    <3>2. retries[r] > 0
      BY <1>1, <2>5, <3>1 DEF Final, SendsFinal
    <3> QED BY <2>5, <3>2, ExceptionFacts DEF Rejected
  <2>6. CASE pc[r] \in SendsFinal /\ ~Answered(r) /\ ~NoAnswer(r) /\ ~Rejected(r)
    BY <2>6 DEF SendsFinal, Process, Start, StartFails, MayStart, Prepare, PrepareFails, Trigger, TriggerRefused,
         TriggerLost, Find, FindNothing, PollEnds, PollTimesOut, Poll, ListJobs, ListJobsFails,
         Expire, NewPod
  <2>7. CASE pc[r] \notin SendsFinal
    <3>1. shown[r] \in Terminal
      BY <2>1, <2>7, ShownStep
    <3>2. pc[r] \in {"done", "unknown"}
      BY <1>1, <2>7, <3>1 DEF Final
    <3> QED BY <3>2 DEF Process, Start, StartFails, MayStart, Answered, NoAnswer, Rejected, Requests,
         Reports, Prepare, PrepareFails, Trigger, TriggerRefused, TriggerLost, Find, FindNothing,
         PollEnds, PollTimesOut, Poll, ListJobs, ListJobsFails, Expire, NewPod
  <2> QED BY <2>3, <2>4, <2>5, <2>6, <2>7
<1> QED BY <1>2, <1>3, <1>4 DEF FinalInv

\* Every step does.
LEMMA FinalStep ==
  ASSUME TypeInv, FinalInv, [Next]_vars
  PROVE  /\ FinalInv'
         /\ \A q \in Runs : shown[q] \in Terminal => shown'[q] = shown[q]
<1>1. CASE UNCHANGED <<pc, local, shown>>
  BY <1>1 DEF FinalInv, Final, Status, FinalStatus, local
<1>2. ASSUME Elsewhere
      PROVE  UNCHANGED <<pc, local, shown>>
  BY <1>2, ElsewhereEvolves DEF meshfed
<1>3. CASE Idle \/ UNCHANGED vars
  BY <1>1, <1>3 DEF Idle, vars, meshfed
<1> QED BY <1>1, <1>2, <1>3, ProcessFinal DEF Next, Elsewhere

\* A final status stays, for any number of attempts and pods.
LEMMA FinalHolds == Spec => []FinalInv
<1>1. Init => FinalInv
  BY DEF Init, FinalInv, Final, Terminal
<1>2. TypeInv /\ FinalInv /\ [Next]_vars => FinalInv'
  BY FinalStep
<1> QED BY <1>1, <1>2, TypesHold, PTL DEF Spec

\* meshStack's final status of a run is never replaced, however many attempts
\* GIVE_UP_AFTER leaves room for and however many pods the run has
\* (MeshStackRetry, outcomeUnknownAfterRetry).
THEOREM FinalTheorem == Spec => FinalNotOverwritten
<1>1. TypeInv /\ FinalInv /\ [Next]_vars
        => [\A r \in Runs : shown[r] \in Terminal => shown'[r] = shown[r]]_vars
  BY FinalStep
<1> QED BY <1>1, TypesHold, FinalHolds, PTL DEF Spec, FinalNotOverwritten

-----------------------------------------------------------------------------
(* Triggered once.                                                         *)

\* The pipelines of a run: one more by its trigger, else the same.
LEMMA OwnStep ==
  ASSUME TypeInv, [Next]_vars, NEW q \in Runs
  PROVE  \/ Own(q)' = Own(q)
         \/ /\ Trigger(q) \/ TriggerLost(q)
            /\ Own(q)' = Own(q) \cup {Len(workflows) + 1}
            /\ Len(workflows) + 1 \notin DOMAIN workflows
<1>1. CASE UNCHANGED workflows
  BY <1>1 DEF Own
<1>2. ASSUME Elsewhere
      PROVE  Own(q)' = Own(q)
  BY <1>2, ElsewhereEvolves
<1>3. ASSUME NEW r \in Runs, Trigger(r) \/ TriggerLost(r)
      PROVE  \/ Own(q)' = Own(q)
             \/ /\ q = r
                /\ Own(q)' = Own(q) \cup {Len(workflows) + 1}
                /\ Len(workflows) + 1 \notin DOMAIN workflows
  <2>1. workflows' = Append(workflows, NewWorkflow(r)) /\ impl' = impl
    BY <1>3 DEF Trigger, TriggerLost
  <2>2. /\ \A i \in DOMAIN workflows : i \in DOMAIN workflows' /\ workflows'[i] = workflows[i]
        /\ workflows'[Len(workflows) + 1] = NewWorkflow(r)
        /\ \A i \in DOMAIN workflows' : i \in DOMAIN workflows \/ i = Len(workflows) + 1
        /\ Len(workflows) + 1 \in DOMAIN workflows'
    BY <2>1, TriggerEvolves DEF Evolves
  <2>3. Len(workflows) + 1 \notin DOMAIN workflows
    BY DEF TypeInv, FollowInv, WorkflowsInv
  <2>4. NewWorkflow(r).run = r
    BY NewWorkflowType
  <2>5. CASE q = r
    BY <2>2, <2>3, <2>4, <2>5 DEF Own
  <2>6. CASE q # r
    BY <2>2, <2>3, <2>4, <2>6 DEF Own
  <2> QED BY <2>5, <2>6
<1> QED BY <1>1, <1>2, <1>3
     DEF Next, Idle, Elsewhere, vars, Process, Start, StartFails, Answered, NoAnswer, Rejected, Prepare,
         PrepareFails, TriggerRefused, Find, FindNothing, PollEnds, PollTimesOut, Poll, ListJobs,
         ListJobsFails, Expire, NewPod

\* How a run gets to a place where a pod may still trigger its pipeline.
LEMMA UntriggeredStep ==
  ASSUME TypeInv, NEW r \in Runs, Process(r) \/ Expire(r) \/ NewPod(r),
         ~rejected'[r], pc'[r] \in Untriggered
  PROVE  pc[r] \in Untriggered /\ ~Trigger(r) /\ ~TriggerLost(r)
<1>1. TypeOK
  BY DEF TypeInv
<1> USE DEF Untriggered, Goto, local
<1>2. CASE \/ Start(r) \/ StartFails(r) \/ Prepare(r) \/ PrepareFails(r) \/ TriggerRefused(r)
           \/ Trigger(r) \/ TriggerLost(r) \/ PollEnds(r) \/ PollTimesOut(r) \/ Expire(r)
           \/ Find(r) \/ NewPod(r)
  BY <1>1, <1>2 DEF TypeOK, Start, MayStart, StartFails, Prepare, PrepareFails, TriggerRefused,
                    Trigger, TriggerLost, PollEnds, PollTimesOut, Expire, Find, NewPod
<1>3. CASE Answered(r)
  <2>1. pc'[r] = AfterRequest(r)
    BY <1>1, <1>3 DEF Answered, TypeOK
  <2>2. pc[r] = "register"
    BY <1>3, <2>1 DEF Answered, AfterRequest, AfterTrigger
  <2> QED BY <2>2, <1>3 DEF Trigger, TriggerLost
<1>4. CASE NoAnswer(r)
  <2>1. CASE UNCHANGED pc
    BY <1>4, <2>1 DEF NoAnswer, Requests, Reports, Trigger, TriggerLost
  <2>2. CASE Raise(r) /\ retries[r] > 0
    <3>1. pc'[r] = AfterException(r)
      BY <1>1, <2>2 DEF Raise, TypeOK
    <3>2. pc[r] = "register"
      BY <1>4, <2>2, <3>1 DEF NoAnswer, Requests, AfterException, OutcomeUnknown, AfterUnknown
    <3> QED BY <3>2 DEF Trigger, TriggerLost
  <2> QED BY <1>4, <2>1, <2>2 DEF NoAnswer, Transient
<1>5. CASE Rejected(r)
  BY <1>1, <1>5 DEF Rejected, TypeOK
<1>6. CASE FindNothing(r) \/ Poll(r)
  BY <1>1, <1>6 DEF FindNothing, Poll, TypeOK
<1>7. CASE ListJobs(r) \/ ListJobsFails(r)
  <2>1. \E place \in {"poll", "reportJobs", "reportFinal", "reportFinalJobs"} : Goto(r, place)
    <3> HIDE DEF Goto
    <3> QED BY <1>7 DEF ListJobs, ListJobsFails
  <2> QED BY <1>1, <2>1 DEF TypeOK
<1> QED BY <1>2, <1>3, <1>4, <1>5, <1>6, <1>7 DEF Process

\* A step keeps it at one pipeline.
LEMMA OnceStep ==
  ASSUME TypeInv, OnceInv, [Next]_vars
  PROVE  OnceInv'
<1> SUFFICES ASSUME NEW q \in Runs PROVE Once(q)'
  BY DEF OnceInv
<1>1. Once(q)
  BY DEF OnceInv
<1>2. rejected'[q] = rejected[q] \/ rejected'[q] = TRUE
  <2>1. CASE UNCHANGED rejected
    BY <2>1
  <2>2. ASSUME NEW r \in Runs, Rejected(r)
        PROVE  rejected'[q] = rejected[q] \/ rejected'[q] = TRUE
    BY <2>2 DEF Rejected, TypeInv, TypeOK
  <2> QED BY <2>1, <2>2
       DEF Next, Idle, vars, Process, Start, StartFails, Answered, NoAnswer, Prepare, PrepareFails,
           Trigger, TriggerRefused, TriggerLost, Find, FindNothing, PollEnds, PollTimesOut, Poll,
           ListJobs, ListJobsFails, Expire, NewPod, ForeignStarts, WorkflowEnds, JobAdvances
<1> SUFFICES ASSUME ~rejected'[q]
             PROVE  /\ pc'[q] \in Untriggered => Own(q)' = {}
                    /\ \A i, k \in Own(q)' : i = k
  BY DEF Once
<1>3. ~rejected[q]
  BY <1>2
<1>4. CASE Trigger(q) \/ TriggerLost(q)
  <2>1. Own(q) = {}
    BY <1>1, <1>3, <1>4 DEF Once, Untriggered, Trigger, TriggerLost
  <2>2. pc'[q] \notin Untriggered
    BY <1>4 DEF Trigger, TriggerLost, Goto, TypeInv, TypeOK, Untriggered
  <2> QED BY <2>1, <2>2, OwnStep
<1>5. CASE ~Trigger(q) /\ ~TriggerLost(q)
  <2>1. Own(q)' = Own(q)
    BY <1>5, OwnStep
  <2>2. pc'[q] \in Untriggered => pc[q] \in Untriggered
    <3>1. CASE Process(q) \/ Expire(q) \/ NewPod(q)
      BY <3>1, UntriggeredStep
    <3>2. ASSUME NEW r \in Runs \ {q}, Process(r) \/ Expire(r) \/ NewPod(r)
          PROVE  pc'[q] = pc[q]
      BY <3>2, ProcessEvolves
    <3> QED BY <3>1, <3>2 DEF Next, Idle, vars, ForeignStarts, WorkflowEnds, JobAdvances
  <2> QED BY <1>1, <1>3, <2>1, <2>2 DEF Once
<1> QED BY <1>4, <1>5

\* A pipeline is triggered once for a run, unless meshStack rejects a request:
\* whatever is lost or repeated, and however many pods there are
\* (SingleShotRunner.kt, MeshStackRetry).
THEOREM OnceTheorem == Spec => []TriggeredAgainOnlyIfRejected
<1>1. Init => OnceInv
  BY DEF Init, OnceInv, Once, Own
<1>2. TypeInv /\ OnceInv /\ [Next]_vars => OnceInv'
  BY OnceStep
<1>3. OnceInv => TriggeredAgainOnlyIfRejected
  BY DEF OnceInv, Once, TriggeredAgainOnlyIfRejected
<1> QED BY <1>1, <1>2, <1>3, TypesHold, PTL DEF Spec

-----------------------------------------------------------------------------
(* Nothing is withheld.                                                    *)

\* The steps of a run are those of the pipeline that it follows.
LEMMA StepsFrame ==
  ASSUME NEW q \in Runs, impl' = impl, workflows'[followed'[q]] = workflows[followed[q]]
  PROVE  Steps(q)' = Steps(q) /\ OnePage(q)' = OnePage(q)
<1>1. \A x : StepStatus(q, x)' = StepStatus(q, x)
  BY DEF StepStatus, Is
<1> QED BY <1>1 DEF Steps, OnePage, Present, Is

\* A run that does not move is told about as before.
LEMMA ToldFrame ==
  ASSUME TypeInv, Evolves, NEW q \in Runs, Told(q), impl' = impl, pc'[q] = pc[q],
         followed'[q] = followed[q], known'[q] = known[q], listed'[q] = listed[q],
         steps'[q] = steps[q], faulty'[q] = faulty[q]
  PROVE  Told(q)'
<1>1. Is(q, "github")' <=> Is(q, "github")
  BY DEF Is
<1>2. ASSUME pc[q] \in Polling, known[q] # "active"
      PROVE  ListedAll(q)' = ListedAll(q) /\ ShownAll(q)' = ShownAll(q)
  <2>1. workflows'[followed'[q]] = workflows[followed[q]]
    BY <1>2 DEF TypeInv, FollowInv, Follows, Evolves
  <2>2. Steps(q)' = Steps(q) /\ OnePage(q)' = OnePage(q)
    BY <2>1, StepsFrame
  <2> QED BY <2>2 DEF ListedAll, ShownAll
<1>3. pc[q] = "reportFinal" => known[q] # "active"
  BY DEF TypeInv, FollowInv, Follows
<1> QED BY <1>1, <1>2, <1>3 DEF Told, Polling

\* The jobs of a pipeline that has ended are all listed.
LEMMA ListsAll ==
  ASSUME TypeInv, NEW r \in Runs, ListJobs(r), known[r] # "active"
  PROVE  ListedAll(r)'
<1> DEFINE jobs == workflows[followed[r]].jobs
<1>1. UNCHANGED <<impl, workflows, followed>>
  BY DEF ListJobs
<1>2. Steps(r)' = Steps(r) /\ OnePage(r)' = OnePage(r)
  BY <1>1, StepsFrame
<1> SUFFICES ASSUME OnePage(r) PROVE listed'[r] = Steps(r)
  BY <1>2 DEF ListedAll
<1>3. Pages(r, jobs) = {Present(jobs)}
  BY DEF OnePage, Pages
<1>4. listed' = [listed EXCEPT ![r] = StepUpdates(r, Present(jobs), jobs)]
  <2>1. \E page \in Pages(r, jobs) : listed' = [listed EXCEPT ![r] = StepUpdates(r, page, jobs)]
    <3> HIDE DEF jobs
    <3> QED BY DEF ListJobs, jobs
  <2> HIDE DEF jobs
  <2> QED BY <1>3, <2>1
<1>5. \A j \in Jobs : jobs[j] \in Finished \cup {"absent"}
  BY DEF ListJobs, TypeInv, FollowInv, WorkflowsInv, Follows, Polling
<1>6. Present(jobs) \cap NewOrUpdated(r, jobs) = Present(jobs)
  BY <1>5 DEF NewOrUpdated, Present
<1>7. StepUpdates(r, Present(jobs), jobs) = Steps(r)
  BY <1>6 DEF StepUpdates, Steps
<1>8. r \in DOMAIN listed
  BY DEF TypeInv, ListedInv
<1> HIDE DEF jobs
<1> QED BY <1>4, <1>7, <1>8

\* What is listed is shown when meshStack has answered.
LEMMA ShowsAll ==
  ASSUME TypeInv, NEW r \in Runs, Answered(r), pc[r] \in {"reportJobs", "reportFinalJobs"},
         ListedAll(r)
  PROVE  ShownAll(r)'
<1>1. /\ steps' = [steps EXCEPT ![r] =
             [j \in Jobs |-> IF j \in DOMAIN listed[r] THEN listed[r][j] ELSE steps[r][j]]]
      /\ UNCHANGED <<impl, workflows, followed>>
  BY DEF Answered, Take, Reports, TypeInv, TypeOK
<1>2. r \in DOMAIN steps /\ DOMAIN listed[r] \subseteq Jobs
  BY DEF TypeInv, TypeOK
<1>3. \A j \in DOMAIN listed[r] : steps'[r][j] = listed[r][j]
  BY <1>1, <1>2
<1>4. Steps(r)' = Steps(r) /\ OnePage(r)' = OnePage(r)
  BY <1>1, StepsFrame
<1> QED BY <1>3, <1>4 DEF ListedAll, ShownAll

\* A step of a run withholds nothing.
LEMMA ProcessTold ==
  ASSUME TypeInv, ToldInv, NEW r \in Runs, Process(r) \/ Expire(r) \/ NewPod(r)
  PROVE  Told(r)'
<1>1. TypeOK /\ Told(r) /\ Follows(r)
  BY DEF TypeInv, ToldInv, FollowInv
<1>2. impl' = impl /\ Evolves
  BY ProcessEvolves
<1>3. Is(r, "github")' <=> Is(r, "github")
  BY <1>2 DEF Is
<1> USE DEF Goto, local
<1>4. CASE \/ Start(r) \/ StartFails(r) \/ Prepare(r) \/ PrepareFails(r) \/ TriggerRefused(r)
           \/ Trigger(r) \/ TriggerLost(r) \/ PollTimesOut(r) \/ NewPod(r)
  BY <1>1, <1>4 DEF TypeOK, Start, StartFails, Prepare, PrepareFails, TriggerRefused, Trigger,
                    TriggerLost, PollTimesOut, NewPod, Told
<1>5. CASE Answered(r)
  <2>1. pc'[r] = AfterRequest(r)
    BY <1>1, <1>5 DEF Answered, TypeOK
  <2>2. UNCHANGED <<known, faulty, followed>>
    BY <1>5 DEF Answered
  <2>3. CASE pc[r] = "reportTrigger"
    <3>1. known[r] = "active"
      BY <1>1, <2>3 DEF Follows, Before
    <3>2. pc'[r] \in {"done", "poll"} \/ (pc'[r] = "find" /\ Is(r, "github"))
      BY <2>1, <2>3 DEF AfterRequest, AfterTrigger
    <3> QED BY <1>3, <2>2, <3>1, <3>2 DEF Told
  <2>4. CASE pc[r] = "reportJobs"
    <3>1. pc'[r] = "poll"
      BY <2>1, <2>4 DEF AfterRequest
    <3> QED BY <1>1, <1>3, <1>5, <2>2, <2>4, <3>1, ShowsAll DEF Told
  <2>5. CASE pc[r] = "reportFinalJobs"
    <3>1. pc'[r] = "reportFinal" /\ known[r] # "active"
      BY <1>1, <2>1, <2>5 DEF AfterRequest, Follows
    <3> QED BY <1>1, <1>5, <2>2, <2>5, <3>1, ShowsAll DEF Told
  <2>6. CASE pc[r] = "register" \/ pc[r] \in SendsFinal
    <3>1. pc'[r] \in {"prepare", "done"}
      BY <2>1, <2>6 DEF AfterRequest, SendsFinal
    <3> QED BY <3>1 DEF Told
  <2> QED BY <1>5, <2>3, <2>4, <2>5, <2>6 DEF Answered, Requests, Reports, SendsFinal
<1>6. CASE NoAnswer(r) \/ Rejected(r) \/ ListJobsFails(r)
  <2>1. faulty'[r] = TRUE
    BY <1>1, <1>6 DEF NoAnswer, Rejected, ListJobsFails, TypeOK
  <2>2. pc'[r] # "find"
    <3>1. CASE UNCHANGED pc
      BY <1>6, <3>1 DEF NoAnswer, Rejected, ListJobsFails, Requests, Reports
    <3>2. CASE Raise(r) /\ pc[r] \in Requests
      BY <1>1, <3>2, AfterTypes DEF Raise, TypeOK
    <3>3. CASE ListJobsFails(r)
      BY <1>1, <3>3 DEF ListJobsFails, TypeOK
    <3> QED BY <1>6, <3>1, <3>2, <3>3 DEF NoAnswer, Rejected, Transient
  <2> QED BY <2>1, <2>2 DEF Told
<1>7. CASE Find(r)
  <2>1. pc[r] = "find" /\ pc'[r] = "poll"
    BY <1>1, <1>7 DEF Find, TypeOK
  <2> QED BY <1>1, <1>3, <2>1 DEF Told
<1>8. CASE FindNothing(r)
  <2>1. pc[r] = "find" /\ pc'[r] \in {"find", "reportFailure"}
    BY <1>1, <1>8 DEF FindNothing, TypeOK
  <2> QED BY <1>1, <1>3, <2>1 DEF Told
<1>9. CASE PollEnds(r)
  <2>1. /\ pc[r] = "poll" /\ known[r] # "active"
        /\ pc'[r] = IF Is(r, "github") THEN "finalJobs" ELSE "reportFinal"
        /\ UNCHANGED <<workflows, followed, steps, faulty>>
    BY <1>1, <1>9 DEF PollEnds, Complete, TypeOK, meshfed
  <2>2. ShownAll(r)' = ShownAll(r)
    BY <1>2, <2>1, StepsFrame DEF ShownAll
  <2> QED BY <1>1, <2>1, <2>2 DEF Told
<1>10. CASE Poll(r)
  <2>1. pc[r] = "poll" /\ known[r] = "active"
    BY <1>10 DEF Poll, Complete
  <2>2. pc'[r] = "jobs" \/ (pc'[r] = "poll" /\ known'[r] = known[r])
    BY <1>1, <1>10 DEF Poll, TypeOK
  <2> QED BY <2>1, <2>2 DEF Told
<1>11. CASE ListJobs(r)
  <2>0. PICK page \in Pages(r, workflows[followed[r]].jobs) :
          LET updates == StepUpdates(r, page, workflows[followed[r]].jobs)
              empty   == DOMAIN updates = {} /\ Is(r, "github")
          IN  /\ listed' = [listed EXCEPT ![r] = updates]
              /\ pc' = [pc EXCEPT ![r] =
                   IF pc[r] = "jobs" THEN IF empty THEN "poll" ELSE "reportJobs"
                   ELSE IF empty THEN "reportFinal" ELSE "reportFinalJobs"]
    BY <1>11 DEF ListJobs
  <2> DEFINE updates == StepUpdates(r, page, workflows[followed[r]].jobs)
             empty == DOMAIN updates = {} /\ Is(r, "github")
  <2>1. UNCHANGED <<known, faulty, followed, workflows, steps>>
    BY <1>11 DEF ListJobs, meshfed
  <2>2. \/ pc[r] = "jobs" /\ pc'[r] = "reportJobs"
        \/ pc[r] = "jobs" /\ pc'[r] = "poll" /\ Is(r, "github")
        \/ pc[r] = "finalJobs" /\ pc'[r] = "reportFinalJobs"
        \/ pc[r] = "finalJobs" /\ pc'[r] = "reportFinal" /\ listed'[r] = updates
             /\ DOMAIN updates = {}
    <3>1. /\ pc' = [pc EXCEPT ![r] =
                IF pc[r] = "jobs" THEN IF empty THEN "poll" ELSE "reportJobs"
                ELSE IF empty THEN "reportFinal" ELSE "reportFinalJobs"]
          /\ listed' = [listed EXCEPT ![r] = updates]
          /\ pc[r] \in {"jobs", "finalJobs"}
      BY <1>11, <2>0 DEF ListJobs
    <3> HIDE DEF updates
    <3> QED BY <1>1, <3>1 DEF TypeOK, TypeInv, ListedInv
  <2>3. pc[r] = "finalJobs" => known[r] # "active"
    BY <1>1 DEF Follows
  <2>4. known[r] # "active" => ListedAll(r)'
    BY <1>11, ListsAll
  <2> HIDE DEF updates
  <2>5. CASE pc[r] = "finalJobs" /\ listed'[r] = updates /\ DOMAIN updates = {}
    <3>1. ShownAll(r)'
      <4>1. OnePage(r)' => DOMAIN Steps(r)' = {}
        BY <2>3, <2>4, <2>5 DEF ListedAll
      <4> QED BY <4>1 DEF ShownAll
    <3> QED BY <2>2, <2>3, <2>4, <2>5, <3>1 DEF Told
  <2> QED BY <1>3, <2>1, <2>2, <2>3, <2>4, <2>5 DEF Told
<1>12. CASE Expire(r)
  BY <1>1, <1>2, <1>12, ToldFrame DEF Expire, meshfed
<1> QED BY <1>4, <1>5, <1>6, <1>7, <1>8, <1>9, <1>10, <1>11, <1>12 DEF Process

\* Every step does.
LEMMA ToldStep ==
  ASSUME TypeInv, ToldInv, [Next]_vars
  PROVE  ToldInv'
<1> SUFFICES ASSUME NEW q \in Runs PROVE Told(q)'
  BY DEF ToldInv
<1>1. CASE UNCHANGED vars
  <2>1. Evolves
    BY <1>1 DEF vars, Evolves
  <2> QED BY <1>1, <2>1, ToldFrame DEF vars, local, meshfed, ToldInv
<1>2. CASE Elsewhere
  BY <1>2, ElsewhereEvolves, ToldFrame DEF ToldInv, local, meshfed
<1>3. ASSUME NEW r \in Runs, Process(r) \/ Expire(r) \/ NewPod(r)
      PROVE  Told(q)'
  <2>1. CASE q = r
    BY <1>3, <2>1, ProcessTold
  <2>2. CASE q # r
    BY <1>3, <2>2, ProcessEvolves, ToldFrame DEF ToldInv
  <2> QED BY <2>1, <2>2
<1> QED BY <1>1, <1>2, <1>3 DEF Next, Idle, Elsewhere

\* A runner is done with an answer only: to its final status, or to its report of
\* a pipeline that reports for itself.
LEMMA DoneStep ==
  ASSUME TypeInv, FinalInv, DoneIsReported, [Next]_vars
  PROVE  DoneIsReported'
<1> SUFFICES ASSUME NEW q \in Runs, pc'[q] = "done", ~impl'[q].async, ~Is(q, "gitlab")'
             PROVE  shown'[q] \in Terminal
  BY DEF DoneIsReported
<1>1. TypeOK
  BY DEF TypeInv
<1>2. impl' = impl
  <2>1. ASSUME NEW r \in Runs, Process(r) \/ Expire(r) \/ NewPod(r)
        PROVE  impl' = impl
    BY <2>1, ProcessEvolves
  <2> QED BY <2>1 DEF Next, Idle, vars, ForeignStarts, WorkflowEnds, JobAdvances
<1>3. ~impl[q].async /\ ~Is(q, "gitlab")
  BY <1>2 DEF Is
<1>4. CASE pc[q] = "done"
  <2>1. shown[q] \in Terminal
    BY <1>3, <1>4 DEF DoneIsReported
  <2> QED BY <2>1, FinalStep
<1>5. CASE pc[q] # "done" /\ Answered(q)
  <2>1. AfterRequest(q) = "done" /\ pc[q] \in Requests
    BY <1>1, <1>5 DEF Answered, Goto, TypeOK
  <2>2. pc[q] \in SendsFinal
    BY <1>3, <2>1 DEF AfterRequest, AfterTrigger, Requests, Reports, SendsFinal
  <2>3. shown' = [shown EXCEPT ![q] = Status(q)]
    BY <1>5, <2>2 DEF Answered, Take, Reports, SendsFinal
  <2>4. Status(q) \in Terminal
    BY <2>2 DEF Status, FinalStatus, Terminal, SendsFinal
  <2> QED BY <1>1, <2>3, <2>4 DEF TypeOK
<1>6. CASE pc[q] # "done" /\ ~Answered(q)
  <2>1. ASSUME NEW r \in Runs \ {q}, Process(r) \/ Expire(r) \/ NewPod(r)
        PROVE  pc'[q] = pc[q]
    BY <2>1, ProcessEvolves
  <2>2. ASSUME Process(q) \/ Expire(q) \/ NewPod(q)
        PROVE  pc'[q] # "done"
    <3> USE DEF Goto, local
    <3>1. CASE NoAnswer(q) \/ Rejected(q)
      <4>1. UNCHANGED pc \/ (Raise(q) /\ pc[q] \in Requests)
        BY <3>1 DEF NoAnswer, Rejected, Transient
      <4>2. CASE Raise(q) /\ pc[q] \in Requests
        BY <1>1, <4>2, AfterTypes DEF Raise, TypeOK
      <4> QED BY <1>6, <4>1, <4>2
    <3>2. CASE ListJobs(q) \/ ListJobsFails(q)
      <4>1. \E place \in {"poll", "reportJobs", "reportFinal", "reportFinalJobs"} : Goto(q, place)
        <5> HIDE DEF Goto
        <5> QED BY <3>2 DEF ListJobs, ListJobsFails
      <4> QED BY <1>1, <4>1 DEF TypeOK
    <3>3. CASE FindNothing(q) \/ Poll(q) \/ Expire(q)
      BY <1>1, <1>6, <3>3 DEF FindNothing, Poll, Expire, TypeOK
    <3>4. CASE \/ Start(q) \/ StartFails(q) \/ Prepare(q) \/ PrepareFails(q) \/ TriggerRefused(q)
               \/ Trigger(q) \/ TriggerLost(q) \/ PollEnds(q) \/ PollTimesOut(q)
               \/ Find(q) \/ NewPod(q)
      BY <1>1, <3>4 DEF TypeOK, Start, StartFails, Prepare, PrepareFails, TriggerRefused,
                        Trigger, TriggerLost, PollEnds, PollTimesOut, Find, NewPod
    <3> QED BY <1>6, <2>2, <3>1, <3>2, <3>3, <3>4 DEF Process
  <2> QED BY <1>6, <2>1, <2>2 DEF Next, Idle, vars, ForeignStarts, WorkflowEnds, JobAdvances
<1> QED BY <1>4, <1>5, <1>6

\* When a runner is done with a run meshStack shows its final status, and unless
\* a request failed it has shown how every job ended before that, for any number
\* of jobs, polls and repeated requests: but for stages with issues, and for
\* GitHub's jobs where they do not fit into one page (updateJobStatuses,
\* updatePipelineAndStageStatuses).
THEOREM ReportsTheorem == Spec => []ReportsComplete
<1>1. Init => ToldInv /\ DoneIsReported
  BY DEF Init, ToldInv, Told, DoneIsReported
<1>2. TypeInv /\ FinalInv /\ ToldInv /\ DoneIsReported /\ [Next]_vars
        => ToldInv' /\ DoneIsReported'
  BY ToldStep, DoneStep
<1>3. TypeInv /\ ToldInv => JobsAreReported
  <2> SUFFICES ASSUME TypeInv, ToldInv, NEW r \in Runs, pc[r] = "reportFinal", ~faulty[r],
                      OnePage(r), NEW j \in Jobs, j \in Present(workflows[followed[r]].jobs),
                      workflows[followed[r]].jobs[j] # "issues"
               PROVE  steps[r][j] \in TellsEnd(workflows[followed[r]].jobs[j])
    BY DEF JobsAreReported, Present
  <2>1. followed[r] \in DOMAIN workflows /\ workflows[followed[r]].result # "active"
    BY DEF TypeInv, FollowInv, Follows, Polling
  <2>2. workflows[followed[r]].jobs[j] \in Finished \ {"issues"}
    BY <2>1 DEF TypeInv, FollowInv, WorkflowsInv, Present
  <2>3. steps[r][j] = StepStatus(r, workflows[followed[r]].jobs[j])
    BY DEF ToldInv, Told, ShownAll, Steps
  <2> QED BY <2>2, <2>3 DEF StepStatus, TellsEnd, Finished, Terminal
<1>4. TypeInv => TypeOK
  BY DEF TypeInv
<1>5. Spec => [](ToldInv /\ DoneIsReported)
  BY <1>1, <1>2, TypesHold, FinalHolds, PTL DEF Spec
<1>6. TypeInv /\ ToldInv /\ DoneIsReported => ReportsComplete
  BY <1>3, <1>4 DEF ReportsComplete
<1> QED BY <1>5, <1>6, TypesHold, PTL

-----------------------------------------------------------------------------
(* Succeeded is true.                                                      *)

\* A run polls a pipeline that may be taken for its own, and is shown as succeeded
\* only if one of those has succeeded.
FollowsCandidate(r) == followed[r] # 0 => followed[r] \in Candidates(r)
SucceededTrue(r) ==
  shown[r] = "SUCCEEDED" => \E i \in Candidates(r) : workflows[i].result = "success"
Truthful == \A r \in Runs : FollowsCandidate(r) /\ SucceededTrue(r)

\* These pipelines stay, with the results that they have.
LEMMA CandidatesKept ==
  ASSUME Evolves, impl' = impl, NEW q \in Runs, NEW i \in Candidates(q)
  PROVE  i \in Candidates(q)' /\ (workflows[i].result = "success" => workflows'[i].result = "success")
<1>1. Is(q, "github")' <=> Is(q, "github")
  BY DEF Is
<1> QED BY <1>1 DEF Candidates, Evolves

\* A run that does not move stays truthful.
LEMMA TruthfulFrame ==
  ASSUME Evolves, impl' = impl, Truthful, NEW q \in Runs
  PROVE  /\ followed'[q] = followed[q] => FollowsCandidate(q)'
         /\ shown'[q] = shown[q] => SucceededTrue(q)'
<1>1. FollowsCandidate(q) /\ SucceededTrue(q)
  BY DEF Truthful
<1>2. followed'[q] = followed[q] => FollowsCandidate(q)'
  BY <1>1, CandidatesKept DEF FollowsCandidate
<1>3. ASSUME shown'[q] = shown[q] PROVE SucceededTrue(q)'
  <2> SUFFICES ASSUME shown[q] = "SUCCEEDED"
               PROVE  \E i \in Candidates(q)' : workflows'[i].result = "success"
    BY <1>3 DEF SucceededTrue
  <2>1. PICK i \in Candidates(q) : workflows[i].result = "success"
    BY <1>1 DEF SucceededTrue
  <2>2. i \in Candidates(q)' /\ workflows'[i].result = "success"
    BY <2>1, CandidatesKept
  <2> QED BY <2>2
<1> QED BY <1>2, <1>3

\* A run follows its own pipeline, or at GitHub one of the same workflow.
LEMMA FollowsStep ==
  ASSUME TypeInv, ToldInv, Truthful, NEW r \in Runs, Process(r) \/ Expire(r) \/ NewPod(r)
  PROVE  FollowsCandidate(r)'
<1>1. TypeOK /\ Evolves /\ impl' = impl
  BY ProcessEvolves DEF TypeInv
<1>2. CASE followed'[r] = followed[r]
  BY <1>1, <1>2, TruthfulFrame
<1>3. CASE Trigger(r)
  <2>1. workflows' = Append(workflows, NewWorkflow(r))
    BY <1>3 DEF Trigger
  <2>2. /\ workflows'[Len(workflows) + 1] = NewWorkflow(r)
        /\ Len(workflows) + 1 \in DOMAIN workflows'
    BY <2>1, TriggerEvolves
  <2>3. followed'[r] = IF Is(r, "azure") THEN Len(workflows) + 1 ELSE 0
    BY <1>1, <1>3 DEF Trigger, TriggeredId, TypeOK
  <2>4. NewWorkflow(r).run = r
    BY NewWorkflowType
  <2>5. CASE Is(r, "azure")
    <3>1. ~Is(r, "github")'
      BY <1>1, <2>5 DEF Is
    <3>2. Len(workflows) + 1 \in Candidates(r)'
      BY <2>2, <2>4, <3>1 DEF Candidates
    <3> QED BY <2>3, <2>5, <3>2 DEF FollowsCandidate
  <2>6. CASE ~Is(r, "azure")
    BY <2>3, <2>6 DEF FollowsCandidate
  <2> QED BY <2>5, <2>6
<1>4. CASE Find(r)
  <2>1. PICK i \in DOMAIN workflows :
          /\ workflows[i].provider = "github"
          /\ workflows[i].workflow = impl[r].workflow
          /\ followed' = [followed EXCEPT ![r] = i]
    BY <1>4 DEF Find
  <2>2. Is(r, "github")
    BY <1>4 DEF Find, ToldInv, Told
  <2>3. i \in Candidates(r)
    BY <2>1, <2>2 DEF Candidates
  <2>4. followed'[r] = i
    BY <1>1, <2>1 DEF TypeOK
  <2> QED BY <1>1, <2>3, <2>4, CandidatesKept DEF FollowsCandidate
<1>5. CASE NewPod(r)
  BY <1>1, <1>5 DEF NewPod, TypeOK, FollowsCandidate
<1> QED BY <1>2, <1>3, <1>4, <1>5
     DEF Process, local, Start, StartFails, Answered, NoAnswer, Rejected, Prepare, PrepareFails,
         TriggerRefused, TriggerLost, FindNothing, PollEnds, PollTimesOut, Poll, ListJobs,
         ListJobsFails, Expire

\* A step stays truthful.
LEMMA TruthfulStep ==
  ASSUME TypeInv, ToldInv, Truthful, [Next]_vars
  PROVE  Truthful'
<1> SUFFICES ASSUME NEW q \in Runs
             PROVE  FollowsCandidate(q)' /\ SucceededTrue(q)'
  BY DEF Truthful
<1>1. impl' = impl /\ Evolves
  <2>1. CASE UNCHANGED vars
    BY <2>1 DEF vars, Evolves
  <2>2. CASE Elsewhere
    BY <2>2, ElsewhereEvolves
  <2>3. ASSUME NEW r \in Runs, Process(r) \/ Expire(r) \/ NewPod(r)
        PROVE  impl' = impl /\ Evolves
    BY <2>3, ProcessEvolves
  <2> QED BY <2>1, <2>2, <2>3 DEF Next, Idle, Elsewhere
<1>2. CASE UNCHANGED <<followed, shown>>
  BY <1>1, <1>2, TruthfulFrame
<1>3. ASSUME NEW r \in Runs \ {q}, Process(r) \/ Expire(r) \/ NewPod(r)
      PROVE  FollowsCandidate(q)' /\ SucceededTrue(q)'
  <2>1. followed'[q] = followed[q] /\ shown'[q] = shown[q]
    BY <1>3, ProcessEvolves
  <2> QED BY <1>1, <2>1, TruthfulFrame
<1>4. CASE Process(q) \/ Expire(q) \/ NewPod(q)
  <2>1. FollowsCandidate(q)'
    BY <1>4, FollowsStep
  <2>2. CASE shown'[q] = shown[q]
    BY <1>1, <2>1, <2>2, TruthfulFrame
  <2>3. CASE pc[q] \in Reports /\ shown'[q] = Status(q)
    <3> SUFFICES ASSUME shown'[q] = "SUCCEEDED"
                 PROVE  \E i \in Candidates(q)' : workflows'[i].result = "success"
      BY <2>1 DEF SucceededTrue
    <3>1. pc[q] = "reportFinal" /\ known[q] = "success"
      BY <2>3 DEF Status, FinalStatus
    <3>2. followed[q] \in DOMAIN workflows /\ workflows[followed[q]].result = "success"
      BY <3>1 DEF TypeInv, FollowInv, Follows, Polling
    <3>3. followed[q] # 0
      BY <3>2, WorkflowFacts DEF TypeInv
    <3>4. followed[q] \in Candidates(q)
      BY <3>3 DEF Truthful, FollowsCandidate
    <3>5. followed[q] \in Candidates(q)' /\ workflows'[followed[q]].result = "success"
      BY <1>1, <3>2, <3>4, CandidatesKept
    <3> QED BY <3>5
  <2> QED BY <1>4, <2>1, <2>2, <2>3, ShownStep
<1>5. CASE Elsewhere
  BY <1>2, <1>5, ElsewhereEvolves DEF local, meshfed
<1> QED BY <1>2, <1>3, <1>4, <1>5 DEF Next, Idle, Elsewhere, vars, local, meshfed

\* A run that meshStack shows as succeeded has a pipeline that has succeeded or, at
\* GitHub, its workflow has a run that has: for any number of runs of any
\* providers and of others' workflow runs, and whatever is lost, late or repeated.
\* More does not hold at GitHub (FollowsOwnWorkflow).
THEOREM SucceededTheorem == Spec => []SucceededIsTrue
<1>1. Init => ToldInv
  BY DEF Init, ToldInv, Told
<1>2. Init => Truthful
  BY DEF Init, Truthful, FollowsCandidate, SucceededTrue
<1>3. TypeInv /\ ToldInv /\ [Next]_vars => ToldInv'
  BY ToldStep
<1>4. TypeInv /\ ToldInv /\ Truthful /\ [Next]_vars => Truthful'
  BY TruthfulStep
<1>5. Truthful => SucceededIsTrue
  BY DEF Truthful, SucceededTrue, SucceededIsTrue
<1>6. Spec => []ToldInv
  BY <1>1, <1>3, TypesHold, PTL DEF Spec
<1>7. Spec => []Truthful
  BY <1>2, <1>4, <1>6, TypesHold, PTL DEF Spec
<1> QED BY <1>5, <1>7, PTL
=============================================================================
