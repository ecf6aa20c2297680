--------------------------- MODULE RunController ---------------------------
(***************************************************************************)
(* run-controller with its Kubernetes dispatcher.  On every tick the       *)
(* controller counts its unfinished jobs and claims runs at meshfed while  *)
(* it has capacity; for every claimed run it creates the secrets and the   *)
(* job that executes it, or reports the run as FAILED.                     *)
(*                                                                         *)
(* Every request to Kubernetes or meshfed is a step of its own: between    *)
(* two of them jobs start, end and are deleted, signals arrive and the     *)
(* controller may crash.  A request may fail, and may have had its effect  *)
(* although the controller sees an error.  Kubernetes and meshfed are      *)
(* external and modelled from how the controller uses them; what runs in a *)
(* job is module TfRun.                                                    *)
(***************************************************************************)
EXTENDS Integers, FiniteSets

CONSTANTS
  Runs,               \* the runs meshfed offers
  NoRun,              \* no run
  NoHandler,          \* runs of a type without configured implementation
  Undecryptable,      \* runs that decryptRunDetails refuses
  Federated,          \* runs that get an identity token of the Keycloak issuer
  MaxConcurrentJobs,  \* AppConfig.MaxConcurrentJobs; negative: unlimited
  MaxClaims,          \* bound: how often meshfed offers the same run
  MaxRestarts         \* bound: restarts of the controller

ASSUME RunsAssumption == /\ IsFiniteSet(Runs)
                         /\ NoRun \notin Runs
                         /\ NoHandler \subseteq Runs
                         /\ Undecryptable \subseteq Runs
                         /\ Federated \subseteq Runs
\* ReadConfig replaces 0 by a default.
ASSUME BoundsAssumption == /\ MaxConcurrentJobs \in Int \ {0}
                           /\ MaxClaims \in Nat \ {0}
                           /\ MaxRestarts \in Nat

VARIABLES
  ctl,        \* where the controller is
  capacity,   \* drainRuns: capacity
  dispatched, \* drainRuns: dispatched
  cur,        \* the run being dispatched
  token,      \* wifTokenSecretName: the claim that made the secret, 0 for ""
  stopping,   \* the context of the signals is done
  \* external
  mesh,       \* meshfed's view of every run
  claims,     \* how often a run was claimed; numbers its dispatches
  warned,     \* runs with a step that tells of the missing identity token
  jobs,       \* the job runner-<uuid> of every run
  secrets,    \* the secrets in the namespace
  \* history
  faulty,     \* a request failed or the controller crashed
  restarts,   \* restarts so far
  lateClaims  \* claims since the controller was told to stop

locals  == <<capacity, dispatched, cur, token>>
cluster == <<jobs, secrets>>
meshfed == <<mesh, claims, warned>>
history == <<faulty, restarts, lateClaims>>
vars == <<ctl, locals, stopping, meshfed, cluster, history>>

NoJob == [state |-> "none", uid |-> 0, token |-> 0, retried |-> FALSE]
\* A new secret has no owner: the job whose UID the owner needs comes later.
Secret_OwnedEarly(kind, r, by) == [kind |-> kind, run |-> r, by |-> by, owner |-> by]
Secret(kind, r, by) == [kind |-> kind, run |-> r, by |-> by, owner |-> 0]
JsonSecrets(r) == {s \in secrets : s.kind = "json" /\ s.run = r}
TokenSecrets(r, by) == {s \in secrets : s.kind = "token" /\ s.run = r /\ s.by = by}
JobExists(r) == jobs[r].state # "none"

Init ==
  /\ ctl = "select"
  /\ capacity = 0
  /\ dispatched = 0
  /\ cur = NoRun
  /\ token = 0
  /\ stopping = FALSE
  /\ mesh = [r \in Runs |-> "offered"]
  /\ claims = [r \in Runs |-> 0]
  /\ warned = {}
  /\ jobs = [r \in Runs |-> NoJob]
  /\ secrets = {}
  /\ faulty = FALSE
  /\ restarts = 0
  /\ lateClaims = 0

-----------------------------------------------------------------------------
(* The poll loop (controller.go).                                          *)

\* CountActiveJobs: isJobFinished excludes the jobs that wait for their TTL.
ActiveJobs == {r \in Runs : jobs[r].state \in {"pending", "running"}}

maxDrainPerCycleUnlimited == 10

availableCapacity_OffByOne ==
  IF MaxConcurrentJobs < 0 THEN maxDrainPerCycleUnlimited
  ELSE IF MaxConcurrentJobs > Cardinality(ActiveJobs) + 1
       THEN MaxConcurrentJobs - Cardinality(ActiveJobs) - 1 ELSE 0
availableCapacity ==
  IF MaxConcurrentJobs < 0 THEN maxDrainPerCycleUnlimited
  ELSE IF MaxConcurrentJobs > Cardinality(ActiveJobs)
       THEN MaxConcurrentJobs - Cardinality(ActiveJobs) ELSE 0

\* A tick: drainRuns counts.
StartDrain ==
  /\ ctl = "select"
  /\ availableCapacity > 0
  /\ ctl' = "drain"
  /\ capacity' = availableCapacity
  /\ dispatched' = 0
  /\ UNCHANGED <<cur, token, stopping, meshfed, cluster, history>>

\* drainRuns returns: the limit is reached, or processNextRun did not return
\* runProcessed.  Its locals are gone.
EndDrain == ctl' = "select" /\ capacity' = 0 /\ dispatched' = 0 /\ cur' = NoRun /\ token' = 0

\* The loop condition of drainRuns.
DrainContinues_IgnoresStop == dispatched < capacity
DrainContinues_NoLimit == ~stopping
DrainContinues == dispatched < capacity /\ ~stopping

DrainLoop ==
  /\ ctl = "drain"
  /\ IF DrainContinues THEN ctl' = "fetch" /\ UNCHANGED locals ELSE EndDrain
  /\ UNCHANGED <<stopping, meshfed, cluster, history>>

\* The select takes ctx.Done: Run returns, Wait has nothing to wait for.
StopLoop ==
  /\ ctl = "select"
  /\ stopping
  /\ ctl' = "exited"
  /\ UNCHANGED <<locals, stopping, meshfed, cluster, history>>

\* processNextRun returns runProcessed.
RunProcessed == /\ ctl' = "drain" /\ cur' = NoRun /\ token' = 0
                /\ dispatched' = dispatched + 1
                /\ UNCHANGED capacity

\* meshfed hands out a run, which is claimed from now on.
Claim(r) ==
  /\ mesh[r] = "offered"
  /\ mesh' = [mesh EXCEPT ![r] = "claimed"]
  /\ claims' = [claims EXCEPT ![r] = @ + 1]
  /\ lateClaims' = IF stopping THEN lateClaims + 1 ELSE lateClaims
  /\ UNCHANGED warned

\* 404: there is no run.
FetchNothing ==
  /\ ctl = "fetch"
  /\ \A r \in Runs : mesh[r] # "offered"
  /\ EndDrain
  /\ UNCHANGED <<stopping, meshfed, cluster, history>>

\* Another error; the run of a lost answer stays claimed.
FetchFails ==
  /\ ctl = "fetch"
  /\ EndDrain
  /\ faulty' = TRUE
  /\ \/ UNCHANGED <<meshfed, lateClaims>>
     \/ \E r \in Runs : Claim(r)
  /\ UNCHANGED <<stopping, cluster, restarts>>

\* A claimed run that cannot be decrypted ends the drain and is not reported.
\* decryptRunDetails checks the implementation type as well, so that the
\* check after it never fails.
FetchUndecryptable(r) ==
  /\ ctl = "fetch"
  /\ r \in Undecryptable
  /\ Claim(r)
  /\ EndDrain
  /\ UNCHANGED <<stopping, cluster, faulty, restarts>>

\* A claimed run goes to Dispatch, which needs an implementation of its type.
FetchRun(r) ==
  /\ ctl = "fetch"
  /\ r \notin Undecryptable
  /\ Claim(r)
  /\ cur' = r
  /\ ctl' = IF r \in NoHandler THEN "register" ELSE "getJob"
  /\ UNCHANGED <<capacity, dispatched, token, stopping, cluster, faulty, restarts>>

-----------------------------------------------------------------------------
(* CreateRunnerJob (kubernetes.go), one step per request.                  *)

\* An existing job is left to do its work.
GetJobExists ==
  /\ ctl = "getJob"
  /\ JobExists(cur)
  /\ RunProcessed
  /\ UNCHANGED <<stopping, meshfed, cluster, history>>

\* Every error, NotFound or not, means that there is no job.
GetJobMissing_Unchecked ==
  /\ ctl = "getJob"
  /\ ctl' = "jsonSecret"
  /\ UNCHANGED <<locals, stopping, meshfed, cluster, history>>
GetJobMissing ==
  /\ ctl = "getJob"
  /\ ctl' = "jsonSecret"
  /\ faulty' = (faulty \/ JobExists(cur))
  /\ UNCHANGED <<locals, stopping, meshfed, cluster, restarts, lateClaims>>

\* The run is too large, or its service account cannot be created.
PrepareFails ==
  /\ ctl = "jsonSecret"
  /\ ctl' = "register"
  /\ UNCHANGED <<locals, stopping, meshfed, cluster, history>>

\* createRunJsonSecret: a secret that exists is kept as it is.
JsonSecret ==
  /\ ctl = "jsonSecret"
  /\ ctl' = "tokenSecret"
  /\ secrets' = IF JsonSecrets(cur) # {} THEN secrets
                ELSE secrets \cup {Secret("json", cur, claims[cur])}
  /\ UNCHANGED <<locals, stopping, meshfed, jobs, history>>

\* The request fails, possibly after the secret was created.
JsonSecretFails ==
  /\ ctl = "jsonSecret"
  /\ ctl' = "register"
  /\ faulty' = TRUE
  /\ \/ UNCHANGED secrets
     \/ /\ JsonSecrets(cur) = {}
        /\ secrets' = secrets \cup {Secret("json", cur, claims[cur])}
  /\ UNCHANGED <<locals, stopping, meshfed, jobs, restarts, lateClaims>>

\* createTokenSecret: GenerateName makes a new name for every dispatch.
createTokenSecret_FixedName(r) ==
  IF \E by \in 1..MaxClaims : TokenSecrets(r, by) # {}
  THEN CHOOSE by \in 1..MaxClaims : TokenSecrets(r, by) # {} ELSE claims[r]
createTokenSecret(r) == claims[r]

TokenSecret ==
  /\ ctl = "tokenSecret"
  /\ cur \in Federated
  /\ ctl' = "createJob"
  /\ token' = createTokenSecret(cur)
  /\ secrets' = IF TokenSecrets(cur, token') # {} THEN secrets
                ELSE secrets \cup {Secret("token", cur, token')}
  /\ UNCHANGED <<capacity, dispatched, cur, stopping, meshfed, jobs, history>>

\* Without a Keycloak issuer, and for runs that are not Terraform's.
NoToken ==
  /\ ctl = "tokenSecret"
  /\ cur \notin Federated
  /\ ctl' = "createJob"
  /\ UNCHANGED <<locals, stopping, meshfed, cluster, history>>

\* The token is not issued or its secret is refused: the run goes on without,
\* but is told.
AfterTokenFails_Silent == "createJob"
AfterTokenFails == "warn"

TokenFails ==
  /\ ctl = "tokenSecret"
  /\ cur \in Federated
  /\ ctl' = AfterTokenFails
  /\ UNCHANGED <<locals, stopping, meshfed, cluster, history>>

\* The secret was created, but the answer is lost.
TokenSecretLost ==
  /\ ctl = "tokenSecret"
  /\ cur \in Federated
  /\ ctl' = AfterTokenFails
  /\ faulty' = TRUE
  /\ secrets' = secrets \cup {Secret("token", cur, claims[cur])}
  /\ UNCHANGED <<locals, stopping, meshfed, jobs, restarts, lateClaims>>

\* ReportWifTokenMissing: a failed step under a source of its own, which leaves
\* the status of the run alone.  An error is only logged.
Warn ==
  /\ ctl = "warn"
  /\ ctl' = "createJob"
  /\ \/ warned' = warned \cup {cur} /\ UNCHANGED faulty
     \/ warned' \in {warned, warned \cup {cur}} /\ faulty' = TRUE
  /\ UNCHANGED <<locals, stopping, mesh, claims, cluster, restarts, lateClaims>>

NewJob == [state |-> "pending", uid |-> claims[cur], token |-> token, retried |-> FALSE]

CreateJob ==
  /\ ctl = "createJob"
  /\ ~JobExists(cur)
  /\ jobs' = [jobs EXCEPT ![cur] = NewJob]
  /\ ctl' = "ownJson"
  /\ UNCHANGED <<locals, stopping, meshfed, secrets, history>>

\* Refused, by the quota or because the job exists.
CreateJobRefused ==
  /\ ctl = "createJob"
  /\ ctl' = "dropJson"
  /\ UNCHANGED <<locals, stopping, meshfed, cluster, history>>

\* The job was created, but the answer is lost.
CreateJobLost ==
  /\ ctl = "createJob"
  /\ ~JobExists(cur)
  /\ jobs' = [jobs EXCEPT ![cur] = NewJob]
  /\ ctl' = "dropJson"
  /\ faulty' = TRUE
  /\ UNCHANGED <<locals, stopping, meshfed, secrets, restarts, lateClaims>>

\* After an error the secrets of the dispatch are deleted, errors ignored.
AfterDropJson_JsonOnly == "register"
AfterDropJson == IF token # 0 THEN "dropToken" ELSE "register"

DropSecret(kind, found, next) ==
  /\ ctl = kind
  /\ ctl' = next
  /\ \/ secrets' = secrets \ found /\ UNCHANGED faulty
     \/ faulty' = TRUE /\ UNCHANGED secrets
  /\ UNCHANGED <<locals, stopping, meshfed, jobs, restarts, lateClaims>>

DropJson  == DropSecret("dropJson", JsonSecrets(cur), AfterDropJson)
DropToken == DropSecret("dropToken", TokenSecrets(cur, token), "register")

\* setSecretOwnerReference: read and update; an error only leaves a warning.
OwnSecret(found) ==
  \/ /\ secrets' = {IF s \in found THEN [s EXCEPT !.owner = claims[cur]] ELSE s : s \in secrets}
     /\ UNCHANGED faulty
  \/ faulty' = TRUE /\ UNCHANGED secrets

OwnJson ==
  /\ ctl = "ownJson"
  /\ OwnSecret(JsonSecrets(cur))
  /\ IF token # 0 THEN ctl' = "ownToken" /\ UNCHANGED locals ELSE RunProcessed
  /\ UNCHANGED <<stopping, meshfed, jobs, restarts, lateClaims>>

OwnToken ==
  /\ ctl = "ownToken"
  /\ OwnSecret(TokenSecrets(cur, token))
  /\ RunProcessed
  /\ UNCHANGED <<stopping, meshfed, jobs, restarts, lateClaims>>

-----------------------------------------------------------------------------
(* reportRunFailure: register, then one update, neither repeated.          *)

Register ==
  /\ ctl = "register"
  /\ ctl' = "update"
  /\ UNCHANGED <<locals, stopping, meshfed, cluster, history>>

RegisterFails ==
  /\ ctl = "register"
  /\ EndDrain
  /\ faulty' = TRUE
  /\ UNCHANGED <<stopping, meshfed, cluster, restarts, lateClaims>>

reportedStatus_Misspelt == "ERROR"
reportedStatus == "FAILED"
TakeFailed == mesh' = [mesh EXCEPT ![cur] = IF @ = "claimed" THEN reportedStatus ELSE @]

\* The request does not end with the context of the signals (WithoutCancel).
UpdateRunStatus_Cancelled ==
  /\ ctl = "update"
  /\ IF stopping THEN UNCHANGED mesh ELSE TakeFailed
  /\ EndDrain
  /\ UNCHANGED <<stopping, claims, warned, cluster, history>>
UpdateRunStatus ==
  /\ ctl = "update"
  /\ TakeFailed
  /\ EndDrain
  /\ UNCHANGED <<stopping, claims, warned, cluster, history>>

UpdateRunStatusFails ==
  /\ ctl = "update"
  /\ UNCHANGED mesh \/ TakeFailed
  /\ faulty' = TRUE
  /\ EndDrain
  /\ UNCHANGED <<stopping, claims, warned, cluster, restarts, lateClaims>>

-----------------------------------------------------------------------------
(* Signals, crashes and restarts.                                          *)

Signal ==
  /\ ~stopping
  /\ ctl # "exited"
  /\ stopping' = TRUE
  /\ UNCHANGED <<ctl, locals, meshfed, cluster, history>>

\* The process dies, or has ended, and Kubernetes starts it again.
Restart ==
  /\ restarts < MaxRestarts
  /\ restarts' = restarts + 1
  /\ faulty' = (faulty \/ ctl # "exited")
  /\ ctl' = "select"
  /\ capacity' = 0 /\ dispatched' = 0 /\ cur' = NoRun /\ token' = 0
  /\ stopping' = FALSE
  /\ lateClaims' = 0
  /\ UNCHANGED <<meshfed, cluster>>

-----------------------------------------------------------------------------
(* Kubernetes and meshfed (external).                                      *)

\* A pod starts once the secrets that it mounts exist.
PodStarts(r) ==
  /\ jobs[r].state = "pending"
  /\ JsonSecrets(r) # {}
  /\ jobs[r].token # 0 => TokenSecrets(r, jobs[r].token) # {}
  /\ jobs' = [jobs EXCEPT ![r].state = "running"]
  /\ UNCHANGED <<ctl, locals, stopping, meshfed, secrets, history>>

\* BackoffLimit 1: a pod that fails is replaced once.
PodFails(r) ==
  /\ jobs[r].state = "running"
  /\ ~jobs[r].retried
  /\ jobs' = [jobs EXCEPT ![r].state = "pending", ![r].retried = TRUE]
  /\ UNCHANGED <<ctl, locals, stopping, meshfed, secrets, history>>

\* The runner has reported the end of the run, or could not.
JobEnds(r) ==
  /\ jobs[r].state = "running"
  /\ jobs' = [jobs EXCEPT ![r].state = "finished"]
  /\ \/ mesh' = [mesh EXCEPT ![r] = IF @ \in {"claimed", "offered"} THEN "ended" ELSE @]
        /\ UNCHANGED faulty
     \/ faulty' = TRUE /\ UNCHANGED mesh
  /\ UNCHANGED <<ctl, locals, stopping, claims, warned, secrets, restarts, lateClaims>>

\* TTLSecondsAfterFinished.
JobExpires(r) ==
  /\ jobs[r].state = "finished"
  /\ jobs' = [jobs EXCEPT ![r] = NoJob]
  /\ UNCHANGED <<ctl, locals, stopping, meshfed, secrets, history>>

\* The garbage collector removes a secret whose owner is gone.
CollectSecret ==
  /\ \E s \in secrets : /\ s.owner # 0
                        /\ jobs[s.run].uid # s.owner
                        /\ secrets' = secrets \ {s}
  /\ UNCHANGED <<ctl, locals, stopping, meshfed, jobs, history>>

\* meshfed offers a claimed run again ("an earlier dispatch of the same run").
OfferAgain(r) ==
  /\ mesh[r] = "claimed"
  /\ claims[r] < MaxClaims
  /\ mesh' = [mesh EXCEPT ![r] = "offered"]
  /\ UNCHANGED <<ctl, locals, stopping, claims, warned, cluster, history>>

\* A controller that is not started again has ended.
Exited == ctl = "exited" /\ UNCHANGED vars

-----------------------------------------------------------------------------
Fetch == FetchNothing \/ FetchFails \/ \E r \in Runs : FetchRun(r) \/ FetchUndecryptable(r)
Dispatch == GetJobExists \/ GetJobMissing \/ PrepareFails \/ JsonSecret \/ JsonSecretFails
            \/ TokenSecret \/ NoToken \/ TokenFails \/ TokenSecretLost \/ Warn
            \/ CreateJob \/ CreateJobRefused \/ CreateJobLost
            \/ DropJson \/ DropToken \/ OwnJson \/ OwnToken
Report == Register \/ RegisterFails \/ UpdateRunStatus \/ UpdateRunStatusFails
Controller == StartDrain \/ DrainLoop \/ Fetch \/ Dispatch \/ Report
Environment == CollectSecret \/ \E r \in Runs :
                 \/ PodStarts(r) \/ PodFails(r) \/ JobEnds(r) \/ JobExpires(r)
                 \/ OfferAgain(r)

Next == Controller \/ StopLoop \/ Signal \/ Restart \/ Environment \/ Exited

\* The controller's goroutine is scheduled and its ticker fires.  Nothing is
\* assumed of its requests to meshfed and to Kubernetes, which have no deadline,
\* nor of pods and runners, which may wait or run for ever (a job has no
\* activeDeadlineSeconds, and see TfRun!Hangs).
Fairness == WF_vars(StartDrain \/ DrainLoop) /\ WF_vars(StopLoop)

Spec == Init /\ [][Next]_vars /\ Fairness

-----------------------------------------------------------------------------
(* Properties.                                                             *)

Dispatching == {"getJob", "jsonSecret", "tokenSecret", "warn", "createJob",
                "dropJson", "dropToken", "ownJson", "ownToken"}
Idle == {"select", "exited"}

\* Type invariant.
TypeOK ==
  /\ ctl \in Dispatching \cup Idle \cup {"drain", "fetch", "register", "update"}
  /\ capacity \in Nat
  /\ dispatched \in 0..capacity
  /\ cur \in Runs \cup {NoRun}
  /\ token \in 0..MaxClaims
  /\ stopping \in BOOLEAN
  /\ mesh \in [Runs -> {"offered", "claimed", "FAILED", "ended"}]
  /\ claims \in [Runs -> 0..MaxClaims]
  /\ warned \subseteq Runs
  /\ jobs \in [Runs -> [state: {"none", "pending", "running", "finished"},
                        uid: 0..MaxClaims, token: 0..MaxClaims, retried: BOOLEAN]]
  /\ secrets \subseteq [kind: {"json", "token"}, run: Runs, by: 1..MaxClaims,
                        owner: 0..MaxClaims]
  /\ faulty \in BOOLEAN
  /\ restarts \in 0..MaxRestarts
  /\ lateClaims \in Nat

\* There are never more unfinished jobs than configured, whatever fails or
\* restarts: jobs created since the count are covered by the loop's limit
\* (config.go: "caps how many runs the controller claims").
CapacityRespected == MaxConcurrentJobs > 0 => Cardinality(ActiveJobs) <= MaxConcurrentJobs

\* After a signal at most the claim that was already being made is made.
StopsClaiming == lateClaims <= 1

\* If nothing fails, every claimed run ends up with a job or a status, also
\* when the controller is told to stop meanwhile (controller.go: "Shutdown must
\* not cut off a claim or a failure report, or the run stays claimed without a
\* status"), runs without a configured implementation included.  Runs that
\* cannot be decrypted are excepted: processNextRun drops them without a status.
DecryptedAreAnswered ==
  ctl \in Idle /\ ~faulty =>
    \A r \in Runs \ Undecryptable : mesh[r] = "claimed" => JobExists(r)

\* If nothing fails, a run that the controller reports as FAILED is not
\* executed: no job of it exists, so that no pod can start later.
FailedRunsHaveNoJob ==
  ~faulty => \A r \in Runs : mesh[r] = "FAILED" => ~JobExists(r)

\* If nothing fails, no decrypted run and no identity token outlives its job:
\* between dispatches every secret has an owner that deletes it.
SecretsAreOwned ==
  ctl \notin Dispatching /\ ~faulty => \A s \in secrets : s.owner # 0

\* A job mounts the identity token of its own dispatch or none, also when an
\* earlier dispatch of the run left one (wiftoken.go: "a dispatch never mounts
\* the token of an earlier dispatch of the same run").
MountsOwnToken == \A r \in Runs : jobs[r].token \in {0, jobs[r].uid}

\* If nothing fails, no run is left without its identity token silently: a job
\* that mounts none was preceded by the step that tells the user (runapi.go,
\* ReportWifTokenMissing).
MissingTokenIsTold ==
  ~faulty => \A r \in Federated : JobExists(r) => jobs[r].token # 0 \/ r \in warned

\* If nothing fails, the pod of a run that was claimed once finds its secrets:
\* no job waits for ever, counting against the capacity.
JobsCanStart ==
  ~faulty => \A r \in ActiveJobs : claims[r] = 1 =>
    /\ JsonSecrets(r) # {}
    /\ jobs[r].token # 0 => TokenSecrets(r, jobs[r].token) # {}

\* The places where the controller waits for the answer to a request.
Requests == Dispatching \cup {"fetch", "register", "update"}

\* Every offered run is claimed, unless something fails, the controller is told
\* to stop, one of its requests is never answered, or jobs that never end take
\* up the capacity: finished jobs, refused runs and runs without a job do not
\* block the queue.
OffersAreClaimed ==
  \/ \A r \in Runs : mesh[r] = "offered" ~> (mesh[r] # "offered" \/ faulty \/ stopping)
  \/ <>[](ctl \in Requests)
  \/ <>[](MaxConcurrentJobs > 0 /\ Cardinality(ActiveJobs) = MaxConcurrentJobs)

\* Claims are sound: at most one is made after a stop, and every claim of a run
\* that can be decrypted is answered by a job or a status, whatever the signals
\* interrupt (processNextRun, reportRunFailure).
ClaimsSound == TypeOK /\ StopsClaiming /\ DecryptedAreAnswered

\* A pod gets the secrets of its own dispatch and can start with them, and a run
\* that goes without its token is told so (createWifTokenSecret, CreateRunnerJob).
PodsGetTheirSecrets == MountsOwnToken /\ JobsCanStart /\ MissingTokenIsTold
=============================================================================
