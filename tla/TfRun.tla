------------------------------- MODULE TfRun -------------------------------
(***************************************************************************)
(* The execution of one run by tf-block-runner: Worker.tfExecution in      *)
(* polling mode and SingleRunWorker.ExecuteRun in a Kubernetes job or in   *)
(* the controller's process.  Two goroutines share a RunContextInfo:       *)
(*                                                                         *)
(*  - the work routine registers the run at meshfed and executes a tf      *)
(*    command, which edits runStatus and publishes copies of it;           *)
(*  - the observer reads only the published copy, reports it to meshfed    *)
(*    every ten seconds, learns from the answers that the run is to be     *)
(*    aborted, and sends the final status once the work routine has ended. *)
(*                                                                         *)
(* A tf command is a sequence of operations (the calls of its execute      *)
(* method, in order); tofu, git and the network are external: an operation *)
(* ends well or with an error.  meshfed is external too and modelled from  *)
(* how the runner uses it: it takes updates of a run that has not ended    *)
(* and refuses others, and any answer may be lost or late.                 *)
(***************************************************************************)
EXTENDS Integers, Sequences, FiniteSets

CONSTANTS RunConfigs,  \* the runs to consider, a subset of RunConfig
          MaxLog,      \* bound: log lines written by operations
          MaxRetries   \* bound: retries of the final status

\* behavior, and what the command's control depends on: async runs, a linked
\* predecessor plan, sources that get the generated http backend (so that no
\* workspace is used), a pre-run script, and polling or single-run mode.
RunConfig == [behavior: {"APPLY", "DETECT", "DESTROY"}, async: BOOLEAN,
              artifact: BOOLEAN, httpBackend: BOOLEAN, script: BOOLEAN,
              mode: {"polling", "single"}]

ASSUME RunConfigsAssumption == RunConfigs \subseteq RunConfig
ASSUME BoundsAssumption == MaxLog \in Nat /\ MaxRetries \in Nat

Terminal == {"SUCCEEDED", "FAILED", "ABORTED"}
isTerminalState(status) == status \in Terminal

VARIABLES
  run,            \* the run being executed
  \* the work routine
  pc,             \* where it is
  ip,             \* the next operation of the command
  runStatus,      \* RunContextInfo.runStatus: edited by the tf command only
  logSize,        \* logwrap.logSize
  callback,       \* assignOutput was called: log writes publish the status
  ctx,            \* the context of the command: alive, cancelled or expired
  \* the observer
  obs,            \* where it is
  reportStatus,   \* RunContextInfo.reportStatus: the published copy
  abortRequested, \* meshfed answered that the run is to be aborted
  sent,           \* the status carried by the update in flight, if any
  retries,        \* transient failures of the final update so far
  final,          \* how sending the final status ended
  \* external
  mesh,           \* meshfed's view of the run
  late,           \* a final update may still arrive after its attempt timed out
  uploaded        \* meshfed has stored the plan artifact

workVars == <<pc, ip, runStatus, logSize, callback, uploaded>>
obsVars  == <<obs, abortRequested, sent, retries, final>>
vars == <<run, workVars, ctx, obsVars, reportStatus, mesh, late>>

-----------------------------------------------------------------------------
(* Run status (runstatus.go).  Steps count from 1; cur = 0 means no step.  *)
(* A step's system message is the log between from and to, or the note     *)
(* that an earlier step failed (to = Skipped).                             *)

Skipped == -1
PendingStep == [status |-> "PENDING", from |-> 0, to |-> 0, user |-> "none",
                outputs |-> FALSE]

\* initRunContextInfo: IN_PROGRESS from the start, no steps yet.
InitialStatus == [status |-> "IN_PROGRESS", steps |-> <<>>, cur |-> 0,
                  changes |-> FALSE]

ApplySteps(r) ==
  IF r.async THEN <<"trigger">>
  ELSE <<"sources", "input", "init_tf", "pre_run_script", "execute_tf", "output">>
PlanSteps(r) ==
  IF r.async THEN <<"trigger">>
  ELSE <<"sources", "input", "init_tf", "pre_run_script", "execute_tf">>
DestroySteps(r) ==
  IF r.async THEN <<"trigger">>
  ELSE <<"sources", "input", "init_tf", "pre_run_script", "execute_tf", "output">>

\* tfCommand.initRunSteps() of the command that workRoutine chose.
initRunSteps(s, r) ==
  LET names == CASE r.behavior = "APPLY"   -> ApplySteps(r)
                 [] r.behavior = "DETECT"  -> PlanSteps(r)
                 [] r.behavior = "DESTROY" -> DestroySteps(r)
  IN [s EXCEPT !.steps = [i \in 1..Len(names) |-> PendingStep], !.cur = 1]

\* setCurrentStepMessage: the step's log so far and, if given, a user message.
setCurrentStepMessage(s, user, size) ==
  LET logged == [s EXCEPT !.steps[s.cur].to = size]
  IN IF user = "none" THEN logged ELSE [logged EXCEPT !.steps[s.cur].user = user]

\* nextStep: an async run stays in its only step.
nextStep_LogsRestart(s, r, size) ==
  IF r.async THEN s
  ELSE [s EXCEPT !.steps[s.cur].status = "SUCCEEDED",
                 !.steps[s.cur + 1].status = "IN_PROGRESS",
                 !.cur = @ + 1]
nextStep(s, r, size) ==
  IF r.async THEN s
  ELSE IF s.cur + 1 > Len(s.steps) THEN [s EXCEPT !.steps[s.cur].status = "SUCCEEDED"]
  ELSE [s EXCEPT !.steps[s.cur].status = "SUCCEEDED",
                 !.steps[s.cur + 1].status = "IN_PROGRESS",
                 !.steps[s.cur + 1].from = size,
                 !.cur = @ + 1]

\* failRunAndNotFinishedSteps
failRunAndNotFinishedSteps_All(s) ==
  [s EXCEPT !.status = "FAILED",
            !.steps = [i \in DOMAIN @ |-> [@[i] EXCEPT !.status = "FAILED"]]]
failRunAndNotFinishedSteps(s) ==
  [s EXCEPT !.status = "FAILED",
            !.steps = [i \in DOMAIN @ |->
              IF i < s.cur THEN @[i]
              ELSE IF i = s.cur THEN [@[i] EXCEPT !.status = "FAILED"]
              ELSE [@[i] EXCEPT !.status = "FAILED", !.to = Skipped]]]

\* completeRun's edits of the status
completeStatus(s, size) ==
  [setCurrentStepMessage(s, "none", size) EXCEPT
     !.steps[s.cur].status = "SUCCEEDED", !.status = "SUCCEEDED"]

-----------------------------------------------------------------------------
(* Operations of the tf commands.  ctx: it cannot end well once the        *)
(* context is done; logs: it may write update logs; fails: it may return   *)
(* an error, which makes the command fail.                                 *)

Op(name, onCtx, logs, fails) ==
  [name |-> name, ctx |-> onCtx, logs |-> logs, fails |-> fails]

\* git clone and checkout take no context
createFreshCommandWd == Op("createFreshCommandWd", FALSE, TRUE, TRUE)
\* an installed binary is found without the context; see also GetTFPanics
GetTF                == Op("GetTF", FALSE, FALSE, TRUE)
buildTfEnv           == Op("buildTfEnv", FALSE, TRUE, TRUE)
assignOutput         == Op("assignOutput", FALSE, FALSE, FALSE)
saveInputFiles       == Op("saveInputFiles", FALSE, TRUE, TRUE)
writeVars            == Op("vars", FALSE, TRUE, TRUE)
\* tofu init runs up to twice, both times under the context
initTf               == Op("init", TRUE, TRUE, TRUE)
\* without workspaces nothing is called
useWorkspaceIfNeeded(r) == Op("useWorkspaceIfNeeded", ~r.httpBackend, ~r.httpBackend, ~r.httpBackend)
\* without a script only a line is logged
runPreRunScript(r)   == Op("runPreRunScript", r.script, TRUE, r.script)
\* the artifact requests take no context
downloadPlan         == Op("download", FALSE, TRUE, TRUE)
tfApply              == Op("apply", TRUE, TRUE, TRUE)
tfPlan               == Op("plan", TRUE, TRUE, TRUE)
readPlan             == Op("readPlan", FALSE, FALSE, TRUE)
uploadArtifact       == Op("upload", FALSE, FALSE, TRUE)
tfDestroy            == Op("destroy", TRUE, TRUE, TRUE)
tfOutput             == Op("output", TRUE, TRUE, TRUE)
\* every error is only logged locally
deleteWorkspaceIfNeeded == Op("deleteWorkspace", FALSE, TRUE, FALSE)
advanceStep          == Op("advanceStep", FALSE, FALSE, FALSE)
completeRun          == Op("completeRun", FALSE, FALSE, FALSE)

\* The part all three execute methods share, up to the pre-run script.
Prologue(r) ==
  << createFreshCommandWd, GetTF, buildTfEnv, assignOutput, advanceStep,
     saveInputFiles, writeVars, advanceStep,
     initTf, useWorkspaceIfNeeded(r), advanceStep,
     runPreRunScript(r), advanceStep >>

\* A linked plan is applied as it is, never replaced by a fresh apply.
ApplyCommand(r) ==
  Prologue(r) \o (IF r.artifact THEN <<downloadPlan, tfApply>> ELSE <<tfApply>>)
              \o << advanceStep, tfOutput, completeRun >>

\* The plan is uploaded before the run completes.
PlanCommand_UploadLast(r) ==
  Prologue(r) \o << tfPlan, readPlan, completeRun, uploadArtifact >>
PlanCommand(r) ==
  Prologue(r) \o << tfPlan, readPlan, uploadArtifact, completeRun >>

\* An async destroy applies first.
DestroyCommand(r) ==
  Prologue(r) \o (IF r.async THEN <<tfApply>> ELSE <<>>)
              \o << tfDestroy, advanceStep, tfOutput, deleteWorkspaceIfNeeded,
                    completeRun >>

Command(r) == CASE r.behavior = "APPLY"   -> ApplyCommand(r)
                [] r.behavior = "DETECT"  -> PlanCommand(r)
                [] r.behavior = "DESTROY" -> DestroyCommand(r)

-----------------------------------------------------------------------------
Init ==
  /\ run \in RunConfigs
  /\ pc = "setup"
  /\ ip = 1
  /\ runStatus = InitialStatus
  /\ logSize = 0
  /\ callback = FALSE
  /\ ctx = "alive"
  /\ obs = "idle"
  /\ reportStatus = InitialStatus
  /\ abortRequested = FALSE
  /\ sent = "none"
  /\ retries = 0
  /\ final = "none"
  /\ mesh = [status |-> "IN_PROGRESS", by |-> "none", abort |-> FALSE]
  /\ late = FALSE
  /\ uploaded = FALSE

(* Preparing the working directory (tfExecution, ExecuteRun).              *)

\* The directories exist: both goroutines start, the steps are initialised.
SetUp ==
  /\ pc = "setup"
  /\ pc' = "registering"
  /\ runStatus' = initRunSteps(runStatus, run)
  /\ obs' = "select"
  /\ UNCHANGED <<run, ip, logSize, callback, uploaded, ctx, abortRequested, sent,
                 retries, final, reportStatus, mesh, late>>

\* The status sendInitFail sends: FAILED without steps.
InitFailStatus == [InitialStatus EXCEPT !.status = "FAILED"]

\* MkdirTemp or Mkdir failed: sendInitFail, and no goroutine is started.
SetUpFails ==
  /\ pc = "setup"
  /\ pc' = "notStarted"
  /\ obs' = "final"
  /\ sent' = InitFailStatus.status
  /\ UNCHANGED <<run, ip, runStatus, logSize, callback, uploaded, ctx,
                 abortRequested, retries, final, reportStatus, mesh, late>>

\* The run JSON cannot be converted, or ExecuteRun cannot create the worker
\* directory: nothing is reported.
StartFails ==
  /\ pc = "setup"
  /\ run.mode = "single"
  /\ pc' = "notStarted"
  /\ obs' = "ended"
  /\ final' = "unsent"
  /\ UNCHANGED <<run, ip, runStatus, logSize, callback, uploaded, ctx,
                 abortRequested, sent, retries, reportStatus, mesh, late>>

-----------------------------------------------------------------------------
(* The work routine.                                                       *)

\* Register succeeded (a conflict counts as success): execute starts with
\* startRun, which publishes the status with its steps.
Register ==
  /\ pc = "registering"
  /\ pc' = "executing"
  /\ reportStatus' = runStatus
  /\ UNCHANGED <<run, ip, runStatus, logSize, callback, uploaded, ctx, obsVars,
                 mesh, late>>

\* reportFailed: the published copy alone becomes FAILED.
reportFailed_Dropped == UNCHANGED reportStatus
reportFailed == reportStatus' = [reportStatus EXCEPT !.status = "FAILED"]

\* Register failed: the command is not executed.
RegisterFails ==
  /\ pc = "registering"
  /\ pc' = "signal"
  /\ reportFailed
  /\ UNCHANGED <<run, ip, runStatus, logSize, callback, uploaded, ctx, obsVars,
                 mesh, late>>

CurrentOp == Command(run)[ip]
Executing(names) == pc = "executing" /\ CurrentOp.name \in names
Performing == pc = "executing" /\ CurrentOp.name \notin {"advanceStep", "completeRun"}

\* logwrap.Write: tofu's output, or a line of the runner's own, is appended and
\* the callback, once assigned, publishes the current step's log.
WriteLog ==
  /\ Performing
  /\ CurrentOp.logs
  /\ logSize < MaxLog
  /\ logSize' = logSize + 1
  /\ IF callback
     THEN /\ runStatus' = setCurrentStepMessage(runStatus, "none", logSize')
          /\ reportStatus' = runStatus'
     ELSE UNCHANGED <<runStatus, reportStatus>>
  /\ UNCHANGED <<run, pc, ip, callback, uploaded, ctx, obsVars, mesh, late>>

\* An operation ends well.  tofu under a done context never does.
OpSucceeds ==
  /\ Performing
  /\ CurrentOp.ctx => ctx = "alive"
  /\ ip' = ip + 1
  /\ callback' = (callback \/ CurrentOp.name = "assignOutput")
  /\ uploaded' = (uploaded \/ CurrentOp.name = "upload")
  /\ runStatus' = CASE CurrentOp.name = "plan"   -> [runStatus EXCEPT !.changes = TRUE]
                    [] CurrentOp.name = "output" -> [runStatus EXCEPT !.steps[runStatus.cur].outputs = TRUE]
                    [] OTHER -> runStatus
  /\ UNCHANGED <<run, pc, logSize, ctx, obsVars, reportStatus, mesh, late>>

\* advanceStep, which takes over a message of the pre-run script.
StepMessages == IF ip > 1 /\ Command(run)[ip - 1].name = "runPreRunScript" /\ run.script
                THEN {"none", "script"} ELSE {"none"}

AdvanceStep ==
  /\ Executing({"advanceStep"})
  /\ \E user \in StepMessages :
       runStatus' = nextStep(setCurrentStepMessage(runStatus, user, logSize), run, logSize)
  /\ reportStatus' = runStatus'
  /\ ip' = ip + 1
  /\ UNCHANGED <<run, pc, logSize, callback, uploaded, ctx, obsVars, mesh, late>>

CompleteRun ==
  /\ Executing({"completeRun"})
  /\ runStatus' = completeStatus(runStatus, logSize)
  /\ reportStatus' = runStatus'
  /\ pc' = "signal"
  /\ UNCHANGED <<run, ip, logSize, callback, uploaded, ctx, obsVars, mesh, late>>

\* failWithUserMsg up to its first log line, whose callback publishes FAILED
\* before the user message is set.
OpFails ==
  /\ Performing
  /\ CurrentOp.fails
  /\ pc' = "failing"
  /\ logSize' = logSize + 1
  /\ LET failed == failRunAndNotFinishedSteps(runStatus)
     IN IF callback
        THEN /\ runStatus' = setCurrentStepMessage(failed, "none", logSize')
             /\ reportStatus' = runStatus'
        ELSE runStatus' = failed /\ UNCHANGED reportStatus
  /\ UNCHANGED <<run, ip, callback, uploaded, ctx, obsVars, mesh, late>>

\* GetTF panics on a version that cannot be parsed (version.Must): nothing is
\* edited or published any more, but the deferred done signal is still sent.
GetTFPanics ==
  /\ Executing({"GetTF"})
  /\ pc' = "panicking"
  /\ UNCHANGED <<run, ip, runStatus, logSize, callback, uploaded, ctx, obsVars,
                 reportStatus, mesh, late>>

\* The rest of failWithUserMsg: one more line if the context is done, the
\* message (the script's own or the error's), and the last commit.
FailMessages_Optional == IF CurrentOp.name = "runPreRunScript" THEN {"script"} ELSE {"none"}
FailMessages == IF CurrentOp.name = "runPreRunScript" THEN {"error", "script"} ELSE {"error"}

FailCommits ==
  /\ pc = "failing"
  /\ pc' = "signal"
  /\ logSize' = logSize + (IF ctx = "alive" THEN 0 ELSE 1)
  /\ \E user \in FailMessages : runStatus' = setCurrentStepMessage(runStatus, user, logSize')
  /\ reportStatus' = runStatus'
  /\ UNCHANGED <<run, ip, callback, uploaded, ctx, obsVars, mesh, late>>

\* The timeout of the run's context fires.
Timeout_RegisterOnly ==
  /\ pc = "registering"
  /\ ctx = "alive"
  /\ ctx' = "expired"
  /\ UNCHANGED <<run, workVars, obsVars, reportStatus, mesh, late>>
Timeout ==
  /\ pc \in {"registering", "executing", "failing"}
  /\ ctx = "alive"
  /\ ctx' = "expired"
  /\ UNCHANGED <<run, workVars, obsVars, reportStatus, mesh, late>>

-----------------------------------------------------------------------------
(* meshfed and the network (external).                                     *)

\* A status update is taken while the run has not ended.  The steps meshfed
\* shows are those of the last update it took: they matter once the run has
\* ended, and are then those of Report.
Take == IF mesh.status # "IN_PROGRESS" THEN mesh
        ELSE [mesh EXCEPT !.status = sent, !.by = "runner"]

\* What becomes of one request, and how UpdateState's error is classified
\* (isTransient, isClientError): answered, refused with 4xx, transient (the
\* update may have been taken, or the final one may still arrive), or any
\* other error (500, or an answer that cannot be read).
Exchange(answer) ==
  \/ /\ answer = "ok"
     /\ mesh.status = "IN_PROGRESS"
     /\ mesh' = Take /\ UNCHANGED late
  \/ /\ answer = "refused"
     /\ UNCHANGED <<mesh, late>>
  \/ /\ answer \in {"transient", "error"}
     /\ mesh' \in {mesh, Take} /\ UNCHANGED late
  \/ /\ answer = "transient"
     /\ obs = "final"
     /\ late' = TRUE /\ UNCHANGED mesh

\* A final update arrives after its sender stopped waiting for the answer.
LateArrival ==
  /\ late
  /\ late' = FALSE
  /\ mesh' = Take
  /\ UNCHANGED <<run, workVars, ctx, obsVars, reportStatus>>

\* A user aborts the run.  meshStack answers later updates with the abort flag,
\* or ends the run itself.
UserAborts ==
  /\ ~mesh.abort
  /\ mesh.status = "IN_PROGRESS"
  /\ mesh' \in {[mesh EXCEPT !.abort = TRUE],
                [mesh EXCEPT !.abort = TRUE, !.status = "ABORTED", !.by = "meshfed"]}
  /\ UNCHANGED <<run, workVars, ctx, obsVars, reportStatus, late>>

-----------------------------------------------------------------------------
(* The observer.                                                           *)

\* A tick: a published status that is not terminal is sent.
SendsPeriodically_Always(s) == TRUE
SendsPeriodically(s) == ~isTerminalState(s.status)

Tick ==
  /\ obs = "select"
  /\ SendsPeriodically(reportStatus)
  /\ obs' = "updating"
  /\ sent' = reportStatus.status
  /\ UNCHANGED <<run, workVars, ctx, abortRequested, retries, final,
                 reportStatus, mesh, late>>

\* The answer to a periodic update.  The abort flag cancels the context.
PeriodicAnswer ==
  /\ obs = "updating"
  /\ obs' = "select"
  /\ sent' = "none"
  /\ \E answer \in {"ok", "refused", "transient", "error"} :
       /\ Exchange(answer)
       /\ abortRequested' = (abortRequested \/ (answer = "ok" /\ mesh.abort))
       /\ ctx' = IF abortRequested' /\ ~abortRequested /\ ctx = "alive"
                 THEN "cancelled" ELSE ctx
  /\ UNCHANGED <<run, workVars, retries, final, reportStatus>>

\* sendFinalStatus: which status is sent.
FinalStatus_NoAsync(s) == IF abortRequested THEN "ABORTED" ELSE s.status
FinalStatus_Cancelled(s) == IF abortRequested THEN "CANCELLED" ELSE s.status
FinalStatus(s) ==
  CASE abortRequested -> "ABORTED"
    [] ~abortRequested /\ run.async /\ s.status = "SUCCEEDED" -> "IN_PROGRESS"
    [] OTHER -> s.status

\* The work routine's done signal on the unbuffered channel.  It is deferred, so
\* that a panic sends it too, before it ends the process.
Done ==
  /\ pc \in {"signal", "panicking"}
  /\ obs = "select"
  /\ pc' = IF pc = "signal" THEN "ended" ELSE "dying"
  /\ obs' = "final"
  /\ sent' = FinalStatus(reportStatus)
  /\ UNCHANGED <<run, ip, runStatus, logSize, callback, uploaded, ctx,
                 abortRequested, retries, final, reportStatus, mesh, late>>

\* One attempt of updateStateWithRetry: a transient error is retried, every
\* other error is permanent.
FinalAttempt ==
  /\ obs = "final"
  /\ \/ /\ Exchange("ok")
        /\ obs' = "ended" /\ final' = "delivered" /\ UNCHANGED retries
     \/ /\ Exchange("refused")
        /\ obs' = "ended" /\ final' = "refused" /\ UNCHANGED retries
     \/ /\ Exchange("error")
        /\ obs' = "ended" /\ final' = "failed" /\ UNCHANGED retries
     \/ /\ retries < MaxRetries
        /\ Exchange("transient")
        /\ retries' = retries + 1 /\ UNCHANGED <<obs, final>>
  /\ UNCHANGED <<run, workVars, ctx, abortRequested, sent, reportStatus>>

\* giveUpAfter has passed while attempts kept failing.
GiveUp ==
  /\ obs = "final"
  /\ retries > 0
  /\ obs' = "ended"
  /\ final' = "gaveUp"
  /\ UNCHANGED <<run, workVars, ctx, abortRequested, sent, retries, reportStatus,
                 mesh, late>>

\* The panic ends the process, whatever the observer is doing: an attempt that is
\* on its way may be taken, now or later, or not.
ProcessDies ==
  /\ pc = "dying"
  /\ pc' = "dead"
  /\ obs' = "ended"
  /\ IF obs = "final" THEN Exchange("transient") /\ final' = "cut"
                      ELSE UNCHANGED <<mesh, late, final>>
  /\ UNCHANGED <<run, ip, runStatus, logSize, callback, uploaded, ctx,
                 abortRequested, sent, retries, reportStatus>>

-----------------------------------------------------------------------------
Ended == pc \in {"ended", "notStarted", "dead"} /\ obs = "ended"

\* wg.Wait has returned, or the process is gone.
Returned == Ended /\ UNCHANGED vars

Work == SetUp \/ SetUpFails \/ StartFails \/ Register \/ RegisterFails
        \/ WriteLog \/ OpSucceeds \/ AdvanceStep \/ CompleteRun \/ OpFails
        \/ FailCommits \/ GetTFPanics
Observe == Tick \/ PeriodicAnswer \/ Done \/ FinalAttempt \/ GiveUp

Next == Work \/ Observe \/ ProcessDies \/ Timeout \/ LateArrival \/ UserAborts \/ Returned

\* The operations that no deadline ends: cloning the sources, downloading tofu
\* (context.Background), the artifact requests (http.Client without timeout),
\* and a pre-run script, which is killed but waited for until every child that
\* inherited its output has ended.
Unbounded == \/ CurrentOp.name \in {"createFreshCommandWd", "GetTF", "download", "upload"}
             \/ CurrentOp.name = "runPreRunScript" /\ run.script

\* Goroutines are scheduled and timers fire.  tofu may run for ever, but ends
\* once its context is done; status updates are answered or time out.  The
\* observer's select chooses at random between a tick and the done signal, so
\* that a pending signal is taken in the end (strong fairness).  Nothing is
\* assumed of the unbounded operations, nor of the register request.
OpEnds == OpSucceeds \/ OpFails
LocalOpEnds == OpEnds /\ ~CurrentOp.ctx /\ ~Unbounded
KilledOpFails == OpFails /\ ctx # "alive" /\ ~Unbounded

Fairness ==
  /\ WF_vars(SetUp \/ SetUpFails)
  /\ WF_vars(LocalOpEnds) /\ WF_vars(KilledOpFails)
  /\ WF_vars(AdvanceStep \/ CompleteRun \/ FailCommits)
  /\ WF_vars(Timeout) /\ SF_vars(Done) /\ WF_vars(PeriodicAnswer)
  /\ WF_vars(FinalAttempt) /\ WF_vars(GiveUp) /\ WF_vars(ProcessDies)

Spec == Init /\ [][Next]_vars /\ Fairness

-----------------------------------------------------------------------------
(* Properties.                                                             *)

StepRecord == [status: {"PENDING", "IN_PROGRESS", "SUCCEEDED", "FAILED"},
               from: Nat, to: Nat \cup {Skipped},
               user: {"none", "script", "error"}, outputs: BOOLEAN]
StatusRecord == [status: {"IN_PROGRESS"} \cup Terminal, steps: Seq(StepRecord),
                 cur: Nat, changes: BOOLEAN]

\* Type invariant.
TypeOK ==
  /\ run \in RunConfigs
  /\ pc \in {"setup", "registering", "executing", "failing", "signal", "ended",
             "notStarted", "panicking", "dying", "dead"}
  /\ ip \in 1..Len(Command(run))
  /\ runStatus \in StatusRecord /\ reportStatus \in StatusRecord
  /\ sent \in {"none", "IN_PROGRESS"} \cup Terminal
  /\ logSize \in Nat
  /\ callback \in BOOLEAN /\ uploaded \in BOOLEAN
  /\ abortRequested \in BOOLEAN /\ late \in BOOLEAN
  /\ ctx \in {"alive", "cancelled", "expired"}
  /\ obs \in {"idle", "select", "updating", "final", "ended"}
  /\ retries \in 0..MaxRetries
  /\ final \in {"none", "unsent", "delivered", "refused", "failed", "gaveUp", "cut"}
  /\ mesh \in [status: {"IN_PROGRESS"} \cup Terminal,
               by: {"none", "runner", "meshfed"}, abort: BOOLEAN]

\* The final report but for its status: nothing publishes once the work routine
\* has ended, so it is the published copy, or what sendInitFail built.
Report == IF pc = "notStarted" THEN InitFailStatus ELSE reportStatus

Working == pc \in {"setup", "registering", "executing", "failing", "signal", "panicking"}
Panicked == pc \in {"dying", "dead"}

\* While tofu may still run, and save its state with the run's key, no update
\* that ends the run has been sent (worker.go, sendFinalStatus).
NoEarlyEnd == Working => ~isTerminalState(sent) /\
                         (mesh.by = "runner" => ~isTerminalState(mesh.status))

\* However the run ends, the last status it sends ends the run, unless it is an
\* async run that the external pipeline finishes (worker.go, workRoutine: "IN_PROGRESS
\* would be sent as the final status, leaving the run stuck"), or GetTF panicked:
\* nothing marks that run as failed, so that the observer, woken by the deferred
\* signal, sends IN_PROGRESS as its last status while the process dies.
FinalEndsRun == obs \in {"final", "ended"} /\ final # "unsent" =>
                  \/ isTerminalState(sent)
                  \/ run.async /\ reportStatus.status = "SUCCEEDED"
                  \/ Panicked

\* A run that meshfed shows as SUCCEEDED has finished every step, and what its
\* followers need is stored: the outputs, or the plan that the follow-up APPLY
\* replays (tfplan.go: upload before completeRun).
SuccessIsComplete ==
  mesh.status = "SUCCEEDED" =>
    /\ \A i \in DOMAIN Report.steps : Report.steps[i].status = "SUCCEEDED"
    /\ IF run.behavior = "DETECT" THEN uploaded /\ Report.changes
       ELSE Report.steps[Len(Report.steps)].outputs

\* The final report of a command that returned attributes every log line to
\* exactly one step: the steps up to the current one cut the log into
\* consecutive parts, and the last part reaches the end of the log.
LogsPartitioned ==
  pc = "ended" /\ Report.steps # <<>> =>
    /\ Report.steps[1].from = 0
    /\ \A i \in 1..Report.cur - 1 : Report.steps[i].to = Report.steps[i + 1].from
    /\ Report.steps[Report.cur].to = logSize

\* A failure that is reported with steps tells the user why: the failed step
\* carries a message although the first commit of failWithUserMsg did not.  A
\* failure without steps comes only from a run of which nothing was executed or
\* logged: sendInitFail, which sends a summary, and a refused registration
\* (reportFailed), which sends no reason at all.
FailureExplained ==
  obs \in {"final", "ended"} /\ Report.status = "FAILED" =>
    IF Report.steps = <<>> THEN ip = 1 /\ logSize = 0
    ELSE Report.steps[Report.cur].user # "none"

Rank == [PENDING |-> 0, IN_PROGRESS |-> 1, SUCCEEDED |-> 2, FAILED |-> 2]

\* What is published for the observer, and so what is reported, never goes back:
\* a step that was published as finished keeps its result, and no step falls
\* back to an earlier state.
StepsNeverRegress ==
  [][\A i \in DOMAIN reportStatus.steps :
        /\ i \in DOMAIN reportStatus'.steps
        /\ Rank[reportStatus.steps[i].status] <= Rank[reportStatus'.steps[i].status]
        /\ Rank[reportStatus.steps[i].status] = 2 =>
             reportStatus'.steps[i].status = reportStatus.steps[i].status]_reportStatus

\* Both goroutines end and the worker is free again, unless the run hangs for
\* ever in one of the calls that no deadline ends: tofu, the status updates and
\* the signal between the goroutines cannot keep the worker.
Hangs == pc = "registering" \/ (pc = "executing" /\ Unbounded)
Terminates == <>Ended \/ <>[]Hangs

\* What meshfed is told of a run that ended is true and complete: SUCCEEDED only
\* when all that the run was to do is done, FAILED only with a reason that the
\* user can read or, without steps and then not always with a reason, for a run
\* of which nothing was executed (worker.go, tfcmd.go, tfplan.go).
ReportIsTrue == TypeOK /\ SuccessIsComplete /\ FailureExplained

\* The outcome of the work; a panic counts as a failure, which nobody reports.
Result == IF Working THEN "none" ELSE IF Panicked THEN "FAILED" ELSE Report.status

\* The runner keeps its promise to meshStack (module RunReport).
RR == INSTANCE RunReport WITH
        async  <- run.async,
        result <- Result,
        abort  <- mesh.abort,
        seen   <- abortRequested,
        shown  <- mesh.status
ImplementsRunReport == RR!Spec
=============================================================================
