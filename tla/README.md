# Verification of the building block runners

TLA+ modules, TLC runs and TLAPS proofs about the programs of this repository:
processes that claim building block runs at meshStack (`meshfed`), execute them
and report what became of them. `PROJECT.json` maps every definition to the
source lines that it models.

## The system

| Part | State | Operations | Where it gets hard |
|---|---|---|---|
| `tf-block-runner`, polling mode (`manager.go`, `worker.go`) | two channels of capacity 1, `shutdown`, the run token | claim, execute, hand out a token with a delay, stop | stop racing a timer, a lost token, a stale run token |
| execution of a tf run (`worker.go`, `singlerunworker.go`, `statusupdate.go`, `runcontextinfo.go`, `runstatus.go`) | run status, its published copy, log, context, abort flag | register, publish, report every 10 s, final status with retries | two goroutines, aborts and timeouts at any moment, lost and late answers |
| tf commands (`tfcmd.go`, `tfapply.go`, `tfplan.go`, `tfdestroy.go`) | working directory, current step, log offset; tofu's state in a workspace of a backend, over all runs of a block | sources, variables, init, workspace, script, apply/plan/destroy, outputs | every operation can fail; order of upload and completion; calls without deadline; many writers of one directory; a state that must be found again |
| git and ssh (`gitsource.go`, `git.go`, `authSsh.go`) | key and known hosts in the working directory, temporary clone | prepare, clone, check out, move | name clashes, ambiguous references, files needed after the clean-up |
| tofu binaries (`tfbinaries.go`) | directory of installed versions, mutex | find or install | partial installation, download under the mutex |
| `run-controller` (`controller.go`) | capacity and count of the current drain | count, claim, decrypt, dispatch, report a failure | values computed once and used later, signals, crashes |
| Kubernetes dispatcher (`kubernetes.go`, `wiftoken.go`) | jobs, secrets and owner references in the cluster | ten requests per dispatch | each may fail or take effect unseen; runs are dispatched again |
| in-process dispatcher (`inprocess`), registration, `main` | counter of active runs, wait group, the binaries of all runs | register, dispatch, count, wait | panics, end of the process, runs that share a mutex and files |
| Keycloak issuer (`keycloakwif`) | cached administrator token; one Keycloak client per token while it is issued | login, create client, remove scopes, fetch token, check claims, delete client | a cached token that expires within the call, clients left behind |
| `manual-block-runner` | the run at hand | claim, register, report success | signals between claim and report, hanging connections, large numbers |
| `go-meshapi-client` | cached API token | requests, refresh | expiry during a slow login, withdrawn tokens |
| `block-runner-core` and the GitHub, GitLab and Azure DevOps runners (JVM) | current run, pipeline that is polled, jobs seen | claim, register, trigger, find, poll, report | retries of requests that had their effect, pods that are replaced, runs of the same workflow, polling time-outs |

The parts meet at meshfed: a run is *offered*, *claimed* by one runner, and ends
with a status that its runner, or a controller that cannot dispatch it, reports.
The controller and a tf run meet in a job: the controller creates secrets and
job, the pod reads the run from the secret and executes it in single-run mode.

What makes the parts correct: a claimed run is executed at most by one worker
and ends with a truthful status; nothing is claimed after a stop; the number of
jobs stays within the limit; secrets of a run live as long as its job; and every
process comes to an end when it should.

## Modules

| Module | Models |
|---|---|
| `RunManager` | `DefaultRunManager` and its `Worker`; the execution of a run is one step |
| `RunManagerProofs` | proofs about it |
| `RunReport` | abstract: what any runner promises meshStack about one run |
| `TfRun` | execution and reporting of one tf run, by a `Worker` or a `SingleRunWorker` |
| `MCTfRun` | the run configurations that TLC checks |
| `TfRunProofs` | proofs about it |
| `RunController` | the controller's loop and its Kubernetes dispatcher, with the jobs, pods and secrets of the cluster |
| `MCRunController` | the constant for an unlimited controller |
| `RunControllerProofs` | proofs about it |
| `InProcess` | the controller from start to exit with its in-process dispatcher, and the binaries that its runs share |
| `MCInProcess` | the versions that the runs ask for |
| `InProcessProofs` | proofs about it |
| `ManualRunner` | `manual-block-runner`, polling or with one run, and `ApiKeyAuth` |
| `ManualRunnerProofs` | proofs about it |
| `TfDirectory` | the directory that the runs of one building block give to tofu, and the state they keep |
| `MCTfDirectory` | the building blocks that TLC checks |
| `TfDirectoryProofs` | proofs about it |
| `KeycloakIssuer` | `keycloakwif.Issuer`, with the time that its requests take |
| `KeycloakIssuerProofs` | proofs about it |
| `PipelineRunner` | `block-runner-core` with the GitHub, GitLab and Azure DevOps services |
| `MCPipelineRunner` | the implementations of the runs that TLC checks |
| `PipelineRunnerProofs` | proofs about it |

An operator whose name ends in `_Something` (`HandoutToken_NoRecheck`) is a wrong
variant of the definition that follows it. No specification uses it; it documents
a mistake that a property would catch.

### RunManager

`workerIn` and `managerIn` are the two channels, `handouts` counts the goroutines
of `handoutWorkerToken` by where they are: in the first `select` (`delaying`),
between the two (`deciding`), or about to send. Splitting the goroutine at these
points is what makes the race between the timer and `Stop` visible. `worker`,
`out` and `current` are the program counter and locals of `Worker.work`, and
`runToken` is the field of `runApiAuth`, set when a run is fetched
(`SetRunToken`) and cleared after its execution (`ClearRunToken`). Lengths of delays are not modelled.
`lateFetches` is history.

### TfRun

A tf command is a sequence of operations, the calls that `execute` makes in order
(`Prologue`, `ApplyCommand`, `PlanCommand`, `DestroyCommand`). An operation may
write log lines, ends well or fails, and cannot end well once its context is done
if it runs tofu under that context. `runStatus` is the status that the command
edits and `reportStatus` the copy that `publishStatus` makes for the observer.
The two commits of `failWithUserMsg` are two actions, since the observer may look
in between. The observer's select, a request in flight and its answer are
separate steps. `GetTF` may also panic: the deferred signal still reaches the
observer, which races the end of the process with a final update (`GetTFPanics`,
`Done`, `ProcessDies`). Steps record where their part of the log starts and ends, which
is what the text they carry is cut from.

External: meshfed takes updates of a run in progress and refuses others; an
answer may be lost, a final update may arrive late, a user may abort. A
meshStack that ends aborted runs itself is included (`sendFinalStatus` knows it).

Left out: contents (variables, outputs, log text), the second `init` of a run
whose first one failed (one operation), retry delays.

### RunController

`ctl` is the place in `Run`, `drainRuns`, `processNextRun`, `CreateRunnerJob` and
`reportRunFailure`; there is one action per request. `capacity`, `dispatched`,
`cur` and `token` are their locals. `jobs` and `secrets` are the objects in the
cluster: a job has the number of the claim that made it as UID and the claim
whose token secret it mounts; a secret knows the claim that made it and its
owner. `faulty` is history: it is set when a request fails for a reason that the
code cannot rule out, or the controller dies. Properties that the code can only
keep when nothing fails say so by `~faulty`; a run that cannot be decrypted, has
no handler, is too large, is refused by a quota or gets no token does *not*
count as a fault, nor does a stop.

External: jobs start when their secrets exist, fail, end and expire; secrets
whose owner is gone are collected; meshfed may offer a claimed run again, which
the comments in `wiftoken.go` reckon with.

### KeycloakIssuer

`pc` is the request that `Issue` waits for. `now` is a clock: `Tick` cannot pass
the deadline of the request in flight (`start + IssueTimeout`, or for the
deletion `sentAt + DeleteTimeout`), so every request takes any time that the code
allows it. `adminExpiry` is what the issuer believes, `validUntil` what Keycloak
enforces; they differ since a token is made some time before its answer arrives.
A client is the number of the call that made it and the kinds of scopes it still
has. `faulty` is history: an answer or a deletion was lost, or the process died.
Left out: claims, beyond whether the client's scopes and the realm let them pass.

### PipelineRunner

`pc[r]` is the place of run `r` in `processBlock`. A request to meshStack is a
place (`register`, `reportTrigger`, ...) at which `MeshStackRetry.call` makes its
attempts: `Answered`, `NoAnswer` (it may have had its effect) and `Rejected`.
`AfterRequest`, `AfterException`, `AfterUnknown` and `AfterRejected` are where the
`try` and `catch` of the three services lead. A run ends as `done`, `unknown`
(exit code 0), `crashed` (exit code 1) or `dropped` (it could not be read).
`reportFailure` is a FAILED that is sent where its exception is caught, and then
sent once more (`reportFailed`). `workflows` is what the providers have been told
to do, by the runs or, at GitHub, by others (`ForeignStarts`); `followed[r]` is the
one that is polled, `known[r]` what was last heard of it. A job succeeds, is
skipped, fails, or as a stage of Azure DevOps succeeds with issues; a listing of
GitHub's jobs has `PageSize` of them (`Pages`). The providers differ only
where their services do: `AfterTrigger`, `AfterRejected`, `Find`, `PollEnds`,
`StepStatus`, `Pages` and `ListJobsFails`.

External: meshStack takes updates also of a run that has ended (the comment at
`MeshStackRequestExceptions.kt:11` reckons with it) or rejects them; a listing of
workflow runs may lag; the Job controller replaces a failed pod once. The status
that an asynchronous pipeline reports for itself belongs to another source and is
left out, as are a pod that is killed and the connection retries of OkHttp.
`FinalNotOverwritten` rests on two things assumed of meshStack, which the code
cannot check: an answer that is neither a success nor transient means that the
request had no effect, and a timed-out attempt has none after the next request.

### InProcess

`ctl` is the place of the main goroutine in `main`, `registerController` and
`Controller.Run`; `pc[r]` that of the goroutine of run `r`, from `Dispatch` to the
deferred decrement of `active`. A run passes through `GetTF`, where `lock` is the
mutex and `disk` the file `terraform` of each version: missing, being written,
written without the link `tofu`, or complete. `Reset` is where `version.Must` may
panic, and where an empty version removes all versions. The rest of a run (module TfRun) is a step before `GetTF` and one after
it, either of which may take for ever. `broken`, `faulty` and `unstarted` are
history. Left out: runs that cannot be decrypted (in RunController, which has the
same loop), a configuration that ends the process at its start, and what `ExactVersion.Install`
writes step by step: an installation of terraform is a write, like that of tofu.

### ManualRunner

`pc` is the request under way. Times are relative: `left` is what `ApiKeyAuth`
believes is left of its token, `valid` what meshStack grants, `age` how long the
request has taken, which cannot pass `Timeout`. `input` and `output` are the
integers of the runs; `Float64` is what becomes of a number that `encoding/json`
reads into an `any`, which `decryptRunDetails` does for runs that come in a file
and `parseRun` avoids. A mantissa of few bits stands for the 53 of a float64. A
fetch or an update may have had its effect though its answer is lost.

### TfDirectory

`dir` is the working directory, name to file; a file is who wrote it, the
variables it declares, whether it has a backend, and whether it can be parsed.
The actions are the calls of `execute` in order, as far as they write files or
choose a state: the files of the authentication, clone, checkout, move, file
inputs, variables, backend, init, workspace, the command, the deletion of the
workspace. Each may fail, upon which the directory goes and the state stays.
`suggested` is the workspace name of the run, one of several that end in the id
of the block; `workspaces` are those in the block's backend; `holds` is history:
the states in which resources of the block were made; a local state, of a block
with neither backend nor fallback, is gone with its directory and not counted.
`env` says who has set a variable of the environment, an input or the runner
(`TF_HTTP_USERNAME` and `TF_HTTP_PASSWORD`, set last). tofu is external: what it
reads (`Read`: `.tf` and `.tofu`, of which the runner parses the first only, and no
`.tf` file beside a `.tofu` file of the same name), accepts (`Valid`), lists and
creates. Left out: subdirectories, text of values
and of HCL, the pre-run script, trust in hosts (a clone that fails).

## Runs

Where several invariants answer one question, a run checks their conjunction;
its parts are named invariants of the module:

| Checked | Parts |
|---|---|
| `ReportIsTrue` (TfRun) | `TypeOK`, `SuccessIsComplete`, `FailureExplained` |
| `ClaimsSound` (RunController) | `TypeOK`, `StopsClaiming`, `DecryptedAreAnswered` |
| `PodsGetTheirSecrets` (RunController) | `MountsOwnToken`, `JobsCanStart`, `MissingTokenIsTold` |
| `ClientsSound` (KeycloakIssuer) | `NoClientLeft`, `ScopesRemoved` |
| `ReportsComplete` (PipelineRunner) | `TypeOK`, `DoneIsReported`, `JobsAreReported` |
| `ExitSound` (InProcess) | `TypeOK`, `ExitAfterRuns` |
| `ComesToAnEnd` (InProcess) | `RegistrationEnds`, `StopCompletes` |
| `ReportsSound` (ManualRunner) | `TypeOK`, `ClaimedIsReported`, `IntegersComeBack` |
| `DirectorySound` (TfDirectory) | `TypeOK`, `SourcesArrive`, `KeyForModules`, `ConfigurationKept`, `InputsReachTofu` |

| Run | States | Question and answer |
|---|---|---|
| `RunManager` | 3 466 | Does the token survive every order of fetches, runs and stop? `TokenConservation`, `StopsClaiming`, `ExecutesWithOwnToken`, `StopCompletes` and `KeepsPolling` hold, up to a fetch or a run that never ends, and no fetch carries the token of a run that was executed (`FetchCarriesNoUsedToken`). |
| `TfRun` | 219 132 | Is what meshfed is told about a run right, whatever happens? Does it end? `NoEarlyEnd`, `FinalEndsRun`, `ReportIsTrue`, `LogsPartitioned` and `StepsNeverRegress` hold and `RunReport` is implemented; a run ends, or hangs for ever in one of the calls that `Hangs` names (`Terminates`). |
| `RunController` | 309 348 | Do limit, stop, answers and the queue hold with two runs for one slot, one without handler, one that cannot be decrypted, faults and a restart? Yes: `CapacityRespected`, `ClaimsSound`, and every offered run is claimed unless something fails, the controller is stopped, a request is never answered or jobs that never end fill the limit (`OffersAreClaimed`). |
| `RunControllerSecrets` | 2 277 758 | Are the secrets of up to three dispatches of one run kept apart and cleaned up? Yes, as far as nothing fails (`FailedRunsHaveNoJob`, `SecretsAreOwned`, `PodsGetTheirSecrets`). |
| `KeycloakIssuer` | 558 255 | Does the cached token last, and is every client removed, however slow requests are? `SentWhileValid` and `ClientsSound` hold. |
| `PipelineRunner` | 3 891 709 | Is what meshStack is told of a pipeline true, final and complete, in one pod and its replacement, while others may start the same workflow? `SucceededIsTrue`, `FinalNotOverwritten`, `ReportsComplete` hold; `TriggeredAgainOnlyIfRejected` says when a pipeline is triggered twice. |
| `PipelineRunnerLive` | 1 619 315 | Does every run come to an end in one process? Yes (`RunsEnd`). |
| `PipelineRunnerFollow` | violation | Is the workflow that is polled the run's own? No: see findings. |
| `InProcess` | 258 702 | Do four runs in one process respect the limit, each other's binaries and a stop? Yes (`CapacityRespected`, `BinariesSound`, `ExitSound`); registration, runs and stop come to an end unless a named call hangs (`ComesToAnEnd`, `RunsEnd`). |
| `InProcessPanic` | violation | Does a panic end only its run? No: see findings. |
| `ManualRunner` | 54 708 | Is the token valid when it is used, is every offered run claimed and every claimed run reported, and are integers kept? Yes (`SentWhileValid`, `OffersAreClaimed`, `ReportsSound`), with the exceptions that the properties state; a stop always ends (`StopCompletes`). |
| `TfDirectory` | 247 938 | Does tofu get the sources, key, inputs and values it should, and does a block keep one state over its runs? Yes (`DirectorySound`, `ReplayHasSameValues`, `OneState`), with the exceptions that the properties state. |

**Bounds.** `RunManager`: three runs, so that one can be executed, one be
refused and one be pending; there is one worker, so more runs repeat the same
states. `TfRun`: six configurations in which every branch of the three commands
and both modes occur; two log lines let a line fall into two different steps or
two into one; one retry lets an attempt be lost, arrive late and be repeated.
`RunController`: one slot and two runs make the limit bite, and both kinds of
refused run queue beside them (without identity tokens, which are the question of
`RunControllerSecrets`); there, three claims of one run give an earlier, a current
and a later dispatch of it; one restart lets every prefix of a dispatch be cut off.

`KeycloakIssuer`: the times keep the order of the code's 15 s, 10 s, 30 s and
Keycloak's 60 s; two calls, so that the second uses the cache of the first; 16
ticks, longer than the lifetime of a token. `PipelineRunner`: two jobs, so that
one can be new when the other has ended; one retry, so that an attempt can be
lost and the next be answered, rejected or given up; two pods; pages of one job, so
that pipelines with one job fit and those with two do not; one workflow run of
somebody else, so that it can be taken for the run's own. `MCWatched` leaves out
orders in which a pipeline that no run is about to look at progresses, and lets
one pipeline at a time have jobs. Two searches, and runs that share a workflow, are
in the other two runs. In `PipelineRunnerLive` pipelines have no jobs: polling and
reporting do not depend on them.
`InProcess`: two slots and two runs of the same version, so that one can find what
the other installs; a malformed version, which is empty, and a run without executor
beside them.
`ManualRunner`: two runs, so that one is fetched after another; lifetimes below
and above the buffer; one withdrawn token; one restart. `TfDirectory`: three runs
make a plan, its replay and a run after them, or a workspace, its loss and a
later run, and two names let the suggested one change; the blocks vary sources,
inputs, reference and backend, two of them at a time; there is a `.tofu` file with
and without a `.tf` file that it hides, and an input `TF_HTTP_PASSWORD`.

**Fairness.** Goroutines are scheduled, timers fire and requests with a deadline
end (weak fairness of the code's own steps). tofu needs to end only once its
context is done. Nothing is assumed of calls without a deadline, of failures,
of signals or of users. The HTTP client of the Go runners has no timeout and its
requests no context, so this covers every fetch, registration and failure report
of `tf-block-runner` and `run-controller`, and the requests to Kubernetes; the
properties name the calls that may last for ever: `Terminates` (by `Hangs`),
`StopCompletes` and `KeepsPolling` of `RunManager` (fetch and execution),
`OffersAreClaimed` of `RunController` (every request, and jobs, which have no
`activeDeadlineSeconds`), `ComesToAnEnd` (registration, fetch, report, and runs). In
`TfRun` the observer's `select` takes the done signal in the end (strong fairness of
`Done`: Go chooses among ready cases at random).
`PipelineRunner` assumes that threads run, that time passes (`Expire`) and that
failed pods are replaced; pipelines may run for ever.
`InProcess`: the main goroutine, outside its requests, and some goroutine that is
not in a call without deadline proceed, and the ten minutes pass; a `select` that finds its context
done again and again takes that case in the end (strong fairness of `GiveUp` and
`StopLoop`: Go chooses among ready cases at random). `ManualRunner`: the goroutine
runs, time passes, timeouts end requests; and for `OffersAreClaimed` logins and
fetches that are repeated for ever do not all fail. `TfDirectory` has no liveness.

Deadlock is checked everywhere: ended processes stutter by an action of their
own (`Exited`, `Returned`).

## Findings

Two are shown by runs of their own:

1. *Foreign workflow* (`GitHubBlockRunnerService.kt:252`, run `PipelineRunnerFollow`).
   Among the listed runs of the workflow the newest one is polled, whoever
   triggered it: another building block run within 30 seconds, or somebody by hand
   or by a push. The run then reports the result of a workflow run that is not
   its own; `SucceededIsTrue` says that it is at least one of the same workflow.
2. *A panic that is not recovered* (`tfbinaries.go:116`, run `InProcessPanic`).
   `version.Must` panics for a malformed version, on the goroutine that
   `ExecuteRun` starts. The `recover` of the in-process dispatcher is on another
   one, so the controller ends with all its runs; the test
   `Test_PanickingRun_IsRecoveredAndNoLongerActive` panics on the right goroutine.

The others are exceptions that the properties state:

| Where | What the code does | Property, or part of one, that excepts it |
|---|---|---|
| `runapi.go:106` | The run token is stored before the run is converted; if that fails the next fetch carries it, against the comment at `worker.go:57`. | `FetchCarriesNoUsedToken` is about executed runs |
| `controller.go:124` | A run that cannot be decrypted stays claimed without a status, which the comment at line 89 wants to rule out; `decryptRunDetails` checks the type too, so the report at line 130 is never reached. | `DecryptedAreAnswered` |
| `kubernetes.go:193` | Every error of `Create` deletes the secrets ("because the Job was not created"), also when the job exists; its pod then never starts and counts against the limit. | `JobsCanStart`, `FailedRunsHaveNoJob` |
| `AzureDevOpsBlockRunnerService.kt:59`, `GitLabBlockRunnerService.kt:68` | A rejected update after the trigger ends the pod with 1 and its successor triggers again, which `SingleShotRunner.kt:46` avoids for lost answers only. | `TriggeredAgainOnlyIfRejected` |
| `GitHubBlockRunnerService.kt:252` | The success that is reported may be that of another run of the workflow (finding 1). | `SucceededIsTrue` |
| `GitHubClient.kt:363` | "Lists all jobs for a workflow run" (line 357), but the request has no `per_page` and reads one page: jobs beyond it are never shown. | `JobsAreReported` |
| `AzureDevOpsStatusMapper.kt:44` | A stage that succeeded with issues stays IN_PROGRESS. | `JobsAreReported` |
| `GitHubBlockRunnerService.kt:366` | A job of GitHub that was skipped is shown as FAILED; Azure DevOps' are shown as SUCCEEDED. | `JobsAreReported` takes either |
| `tfbinaries.go:116` | Besides ending the process (finding 2) the panic runs the deferred done signal (`worker.go:141`, `singlerunworker.go:124`): the observer may send IN_PROGRESS as the final status, and nobody reports the failure. | `FinalEndsRun` |
| `worker.go:174`, `singlerunworker.go:153` | A run whose registration is refused is FAILED without steps and without a reason. | `FailureExplained` |
| `tfbinaries.go:106` | For an empty version `RemoveAll` removes the whole install directory, while other runs may use what is in it, before the panic. | `BinariesSound` |
| `tfbinaries.go:98` | What a failed installation left is taken for an installed binary. | `BinariesSound` |
| `singlerunworker.go:79` | A run that cannot be started is only logged. | `ExitAfterRuns` |
| `decryption.go:21` | An integer beyond 2^53 is rounded when run-controller decrypts a run, before the manual runner, which takes care of it (`run.go:102`), sees it. | `IntegersComeBack` |
| `tfcmd.go:244` | The error of `WorkspaceSelect` is dropped: a second workspace, thus a second state, is made when the identifiers have changed. | `OneState` |
| `tfcmd.go:588` | A `.json` file that is not tofu's and cannot be parsed hides all declarations, and those of meshStack's variables are repeated; tofu refuses them. One that can be parsed and seems to declare a variable of meshStack keeps the runner from declaring it. `.tofu` files are not parsed (`tfconfig_parse.go:47`): the runner repeats a declaration or a backend that one has, and misses that one hides a `.tf` file. | `ConfigurationKept` |
| `tfcmd.go:513` | With the fallback `TF_HTTP_USERNAME` and `TF_HTTP_PASSWORD` overwrite environment inputs of these names, also for a block that has an http backend of its own. | `InputsReachTofu` |
| `tfcmd.go:605` | `TF_VAR_x` is dropped when an input `x` exists, even if that one is no variable (environment or file). An input with the name of one of meshStack's variables is overwritten by it. | `InputsReachTofu` |
| `git.go:212` | A reference that is a branch and a tag is resolved by git at Azure DevOps and by `checkoutRef` elsewhere. | `SourcesArrive` |
| `gitsource.go:99` | The comment has `auth.done` clean up "to avoid naming clashes"; it must not and does not, as tofu needs the key. | `KeyForModules` |

Met while modelling, without a document that says otherwise: a run whose trigger's
answer is lost is FAILED while its pipeline executes.

## Proofs

Every invariant and every action property that a passing run checks is a theorem
as well, for every value of the constants: any set of runs, versions, building
blocks and implementations, any limit, any number of retries, log lines, claims,
pods and restarts. So is the refinement of `RunReport` by `TfRun`. Only liveness
is left to TLC.

A `Proofs` module has the same shape throughout: an inductive invariant with a
comment on why the property is not inductive by itself, lemmas on what the
model's operators return, lemmas on what groups of actions leave alone, one step
per action, and a temporal step that puts them together. `TypeInv` is `TypeOK`
with the facts about types that depend on the place.

**RunManagerProofs.** `TypeCorrect`; `TokenIsConserved` and `ClaimingStops` from
`TokenInv`. `TokenConservation` alone is not inductive: one has to know that a
worker exits only with the token "stopped", which is then the one in flight, and
that a work token under way after `Stop` uses up the one late claim.
`OwnTokenWhileExecuting` needs that a run is "executing" at meshfed only while the
worker executes it; this and that a token in place while nothing is executed
belongs to a run that was not (`OwnInv`) give `UsedTokensAreCleared`.

**TfRunProofs.** `NoEarlyEndTheorem` and `FinalEndsRunTheorem` from `EndInv`, which
says what the published status can be at each place of the work routine (FAILED
from the first commit of a failure on, terminal when it signals unless it
panicked), and that what is sent in the select loop is never terminal.

`RefinementTheorem`: initial states map to initial states of `RunReport` and every
step to one of its steps or to a stutter. `RefInv` has what that needs of the
update in flight: a periodic one carries IN_PROGRESS, the last one, also when it
arrives late, carries the result of the work (`Result`, by which a panic is a
failure that is never reported).

`ReportTheorem`, `LogsTheorem` and `RegressTheorem` are about the contents of the
status and need `StatusInv`, which ties it to the position of the command.
`Schedule` is the lemma behind it: for each of the three commands and its
options, which operation is at which position, and after which one the step
advances (`StepAt`, `AdvanceAt`, `CompleteAt`). `EditInv` says that the status under
edit agrees with that position: the steps before the current one have succeeded,
those after it have not begun (`Proceeds`), the steps cut the log into consecutive
parts (`Cuts`), and what the operations so far store is stored (`Stored`).
`PublishInv` says that the published copy is one from which the edited one can
still follow (`Leads`), and that at the end both are equal, or the run failed
before it had steps. `ShownInv` carries it over to meshfed.

**RunControllerProofs.** `CapacityTheorem` from `CapInv`. The limit alone is not
inductive, since `capacity` is computed once: while a drain runs, the active jobs
and the claims still allowed together stay within the limit. It rests on the
assumption that the limit is not 0, which `ReadConfig` replaces by its default.

`ClaimsTheorem` needs that a claimed run has its job or is the one being
processed, at a place from which it still gets a job or a report (`AnsweredInv`),
and that a stop during a fetch has not used up the late claim (`StopInv`).
`FailedTheorem`: from the check that a run has no job to the creation, and from a
failed creation to the report, it has none (`FailedInv`). `SecretsTheorem`: a secret
without owner belongs to the dispatch under way, which has still to give it one or
to delete it (`OwnedInv`). `PodsTheorem`: secrets and jobs carry numbers of claims
that were made (`DispatchInv`); the first dispatch of a run finds no secrets, and
those it makes have no owner that could take them away (`StartInv`).

**KeycloakIssuerProofs.** `TypeCorrect`, and `SentWhileValidTheorem` for all times
with 2 * `IssueTimeout` <= `Margin` and `IssueTimeout` < `AdminLifetime`. `ValidInv`
says that a call sends its requests within `IssueTimeout` of its start, and that a
cached token may be one `IssueTimeout` older than its answer. The margin must pay
for both: the slow login and the slow call, hence the factor 2. The code's 15 and
30 seconds just meet it. `ClientsTheorem` from `ClientInv`: unless something was
lost, the only client is that of the current call, and the number of a new call is
not in use.

**InProcessProofs.** `TypeCorrect` (of `TypeInv`). `BinariesTheorem` from `BinInv`: only the holder of the
mutex is within `GetTF`, its place there says what its file looks like, and a file
that is not complete is being written or was left by a failed installation.
`CapacityTheorem` from `CountInv`: `active` is the number of goroutines, and the limit
has room for the runs that the drain may still dispatch. `ExitTheorem` from
`ExitInv`: unless a request failed, a claimed run has a goroutine that still has to
report it, could not be started, or is the one whose failure is being reported.

**ManualRunnerProofs.** `TypeCorrect` (of `TypeInv`). `SentWhileValidTheorem`, for all `Timeout` <=
`tokenExpiryBuffer` (the code's 30 s and 30 s), from `TokenInv`: an issued token is
at most as old as the login, and what is believed to be left of the cached one
is left. `ReportsTheorem` from `ClaimInv`: unless a request failed, a claimed run is
refused, at hand, or the run of a file whose process is to be started again.

**TfDirectoryProofs.** `StageInv` gives the directory, the environment and the values
at every place, as what the steps so far have written, in their order. From it
follow `DirectoryTheorem` (with facts about what overriding files does to
declarations and backends) and, with `PlanInv` (a plan that is kept has the values
that belong to no run), `ReplayTheorem`. `OneStateTheorem` needs `WorkspaceInv` (which
backend and workspace are used follows from the block, but for the file of
meshStack's backend before tofu has refused it beside a backend in a `.tofu` file)
and `StateInv`: unless a
selection has failed, the backend has at most one workspace of the block and none
when one is made, and a state is in the block's backend. Assumptions on the
blocks: file names of the runner do not clash with those of the authentication,
names of inputs that differ also differ without their prefix, a repository has a
commit, a file input is the user's, and no `.tofu` file is named like a file of the
runner (`HidesAssumption`).

**PipelineRunnerProofs.** `FinalTheorem` from `FinalInv`: a final status that
meshStack has taken belongs to a request that is being retried with the same
status, or the runner has ended. `OnceTheorem` from `OnceInv`: without a rejection, a
pod that is replaced has triggered nothing. `ReportsTheorem` from `ToldInv`: the last
listing of the jobs comes after the result and, where it is one page, reaches
meshStack before the final status, with the `StepStatus` of each job; that this
tells how the job ended is then checked against `TellsEnd`, which does not use the
code's mapping. `SucceededTheorem` from `Truthful`: a run follows a pipeline that was
triggered for it or, at GitHub, some run of its workflow (`Candidates`). It holds
for runs that share a workflow and for workflow runs of others; that the
pipeline is the run's own does not (finding 1). `Elsewhere` are the steps without a
runner, which add no pipeline of a run.

Proving found what the instances did not contain, and the models were corrected:
the file of meshStack's backend must be new (`tfcmd.go:302`); a `.json` file that is not tofu's may *declare* a
variable of meshStack and an input may have the name of one, both of which the
properties now except; only pipelines of GitHub are in GitHub's listing.

**Only model-checked.** The liveness properties (`StopCompletes`, `KeepsPolling`,
`Terminates`, `OffersAreClaimed`, `RunsEnd`, `ComesToAnEnd`): they need fairness and
`ENABLED`, which are out of the prover's reach. That rounding (`Float64`) agrees with the
arithmetic of IEEE 754 beyond 2^`Precision` is not stated; the theorem needs only
that it is exact below.

## Not modelled, and the plan

`PROJECT.json` lists every part with its status. Left out for good:

- controller configuration, metrics and the pod specification: data without
  behaviour over time; defaults enter as assumptions on constants;
- cryptography: functions of libraries without state; that decryption fails is a
  constant or an action;
- conversion of runs and encoding of values as HCL: text; that it fails, and
  which inputs become which variables, is modelled;
- trust in hosts (`known_hosts`): a clone that may fail;
- the immediate retry and `ApiKeyAuthInterceptor` of the JVM runners, which
  change when a run is claimed and repeat what `ApiKeyAuth` does.

Next: lemmas that several modules repeat (sums of cardinalities in the two
controllers, the buffer of the two token caches) in one place; a refinement of
`RunReport` by `PipelineRunner`, whose promises differ in what a lost trigger means;
and shorter proofs of `StatusInv`.
