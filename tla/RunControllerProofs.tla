------------------------ MODULE RunControllerProofs ------------------------
(***************************************************************************)
(* Proofs about RunController, for any number of runs and any configured   *)
(* limit, and however often requests fail, runs are offered again and the  *)
(* controller restarts: the number of unfinished jobs stays within the     *)
(* limit, claims are answered, secrets have owners and pods get their own. *)
(***************************************************************************)
EXTENDS RunController, FiniteSetTheorems, TLAPS

NActive == Cardinality(ActiveJobs)

JobStates == {"none", "pending", "running", "finished"}

\* The part of the types that counting needs.
CountTypes ==
  /\ capacity \in Nat /\ dispatched \in Nat /\ token \in Nat
  /\ claims \in [Runs -> Nat]
  /\ jobs \in [Runs -> [state: JobStates, uid: Nat, token: Nat, retried: BOOLEAN]]
  /\ ctl \in Dispatching \cup {"register", "update"} => cur \in Runs

\* Before the next job is created, the limit has room for every run that the
\* drain may still claim.
Room ==
  /\ ctl = "drain" => NActive + capacity - dispatched <= MaxConcurrentJobs
  /\ ctl \in {"fetch", "getJob", "jsonSecret", "tokenSecret", "warn", "createJob"} =>
       dispatched < capacity /\ NActive + capacity - dispatched <= MaxConcurrentJobs
  /\ ctl \in {"ownJson", "ownToken"} =>
       NActive + capacity - dispatched - 1 <= MaxConcurrentJobs

\* The inductive invariant: CapacityRespected alone is not, because capacity is
\* computed once and used after other steps.
CapInv == CountTypes /\ (MaxConcurrentJobs > 0 => NActive <= MaxConcurrentJobs /\ Room)

-----------------------------------------------------------------------------
\* A smaller count leaves at least as much room.
LEMMA RoomMonotone ==
  ASSUME NEW n \in Nat, NEW k \in Nat, NEW c \in Nat, NEW d \in Nat, NEW m \in Int, k <= n
  PROVE  /\ n <= m => k <= m
         /\ n + c - d <= m => k + c - d <= m
         /\ n + c - d - 1 <= m => k + c - d - 1 <= m
  OBVIOUS

\* One more job fits where the drain may go on.
LEMMA RoomForOne ==
  ASSUME NEW n \in Nat, NEW k \in Nat, NEW c \in Nat, NEW d \in Nat, NEW m \in Int,
         k <= n + 1, d < c, n + c - d <= m
  PROVE  k <= m /\ k + c - d - 1 <= m
  OBVIOUS

\* The count is a number.
LEMMA ActiveNat == NActive \in Nat /\ IsFiniteSet(ActiveJobs)
<1>1. ActiveJobs \subseteq Runs
  BY DEF ActiveJobs
<1>2. QED
  BY <1>1, RunsAssumption, FS_Subset, FS_CardinalityType DEF NActive

\* So is the next one.
LEMMA ActiveNatNext == NActive' \in Nat /\ IsFiniteSet(ActiveJobs')
<1>1. ActiveJobs' \subseteq Runs
  BY DEF ActiveJobs
<1>2. QED
  BY <1>1, RunsAssumption, FS_Subset, FS_CardinalityType DEF NActive

\* Fewer active jobs count less.
LEMMA ActiveShrinks ==
  ASSUME ActiveJobs' \subseteq ActiveJobs
  PROVE  NActive' <= NActive
  BY ActiveNat, FS_Subset DEF NActive

\* A created job counts one.
LEMMA ActiveGrows ==
  ASSUME NEW r, ActiveJobs' = ActiveJobs \cup {r}
  PROVE  NActive' <= NActive + 1
<1>1. Cardinality(ActiveJobs \cup {r}) <= Cardinality(ActiveJobs) + 1
  BY ActiveNat, FS_AddElement DEF NActive
<1>2. QED
  BY <1>1 DEF NActive

\* Without a change of the jobs the count stays.
LEMMA ActiveSame ==
  ASSUME UNCHANGED jobs
  PROVE  NActive' = NActive
  BY DEF NActive, ActiveJobs

\* availableCapacity leaves room for what it returns.
LEMMA CapacityLeavesRoom ==
  /\ availableCapacity \in Nat
  /\ MaxConcurrentJobs > 0 /\ availableCapacity > 0 =>
       NActive + availableCapacity <= MaxConcurrentJobs
  BY ActiveNat, BoundsAssumption DEF availableCapacity, NActive, maxDrainPerCycleUnlimited

-----------------------------------------------------------------------------
\* The controller starts with the invariant.
LEMMA CapInvInit == Init => CapInv
<1> SUFFICES ASSUME Init PROVE CapInv
  OBVIOUS
<1>1. CountTypes
  BY DEF Init, CountTypes, Dispatching, NoJob, JobStates
<1>2. NActive = 0
  <2>1. ActiveJobs = {}
    BY DEF Init, ActiveJobs, NoJob
  <2>2. QED
    BY <2>1, FS_EmptySet DEF NActive
<1>3. QED
  BY <1>1, <1>2, BoundsAssumption DEF Init, CapInv, Room

\* The poll loop keeps it.
LEMMA CapInvLoop == CapInv /\ (StartDrain \/ DrainLoop \/ Fetch \/ StopLoop) => CapInv'
<1> SUFFICES ASSUME CapInv, StartDrain \/ DrainLoop \/ Fetch \/ StopLoop PROVE CapInv'
  OBVIOUS
<1> USE BoundsAssumption, ActiveNat DEF CapInv, Room, CountTypes, Dispatching, locals, cluster, meshfed
<1>0. NActive' = NActive
  BY ActiveSame DEF StartDrain, DrainLoop, Fetch, StopLoop, FetchNothing, FetchFails,
     FetchRun, FetchUndecryptable
<1>1. CASE StartDrain
  BY <1>0, <1>1, CapacityLeavesRoom DEF StartDrain
<1>2. CASE DrainLoop
  BY <1>0, <1>2 DEF DrainLoop, DrainContinues, EndDrain
<1>3. CASE StopLoop
  BY <1>0, <1>3 DEF StopLoop
<1>4. CASE FetchNothing
  BY <1>0, <1>4 DEF FetchNothing, EndDrain
<1>5. CASE FetchFails
  BY <1>0, <1>5 DEF FetchFails, EndDrain, Claim
<1>6. ASSUME NEW r \in Runs, FetchUndecryptable(r) PROVE CapInv'
  BY <1>0, <1>6 DEF FetchUndecryptable, EndDrain, Claim
<1>7. ASSUME NEW r \in Runs, FetchRun(r) PROVE CapInv'
  BY <1>0, <1>7 DEF FetchRun, Claim
<1>8. QED
  BY <1>1, <1>2, <1>3, <1>4, <1>5, <1>6, <1>7 DEF Fetch

\* Dispatching keeps it: the only steps that add a job are those of "createJob",
\* where the room is at least one.
LEMMA CapInvDispatch == CapInv /\ Dispatch => CapInv'
<1> SUFFICES ASSUME CapInv, Dispatch PROVE CapInv'
  OBVIOUS
<1> USE BoundsAssumption, ActiveNat, ActiveNatNext
    DEF CapInv, Room, CountTypes, Dispatching, locals, cluster, meshfed
<1>1. CASE GetJobExists
  BY <1>1, ActiveSame DEF GetJobExists, RunProcessed
<1>2. CASE GetJobMissing
  BY <1>2, ActiveSame DEF GetJobMissing
<1>3. CASE PrepareFails
  BY <1>3, ActiveSame DEF PrepareFails
<1>4. CASE JsonSecret
  BY <1>4, ActiveSame DEF JsonSecret
<1>5. CASE JsonSecretFails
  BY <1>5, ActiveSame DEF JsonSecretFails
<1>6. CASE TokenSecret
  BY <1>6, ActiveSame DEF TokenSecret, createTokenSecret
<1>7. CASE NoToken
  BY <1>7, ActiveSame DEF NoToken
<1>8. CASE TokenFails \/ TokenSecretLost \/ Warn
  BY <1>8, ActiveSame DEF TokenFails, TokenSecretLost, Warn, AfterTokenFails
<1>9. CASE CreateJob \/ CreateJobLost
  <2>1. cur \in Runs /\ NewJob \in [state: JobStates, uid: Nat, token: Nat, retried: BOOLEAN]
        /\ NewJob.state = "pending"
    BY <1>9 DEF CreateJob, CreateJobLost, NewJob, JobStates
  <2>2. jobs' = [jobs EXCEPT ![cur] = NewJob]
    BY <1>9 DEF CreateJob, CreateJobLost
  <2>3. ActiveJobs' = ActiveJobs \cup {cur}
    <3>1. jobs'[cur].state = "pending"
      BY <2>1, <2>2
    <3>2. \A r \in Runs \ {cur} : jobs'[r] = jobs[r]
      BY <2>2
    <3>3. QED
      BY <2>1, <3>1, <3>2 DEF ActiveJobs
  <2>4. NActive' <= NActive + 1
    BY <2>3, ActiveGrows
  <2>5. CountTypes'
    BY <1>9, <2>1, <2>2 DEF CreateJob, CreateJobLost
  <2>6. ASSUME MaxConcurrentJobs > 0
        PROVE  /\ NActive' <= MaxConcurrentJobs
               /\ NActive' + capacity - dispatched - 1 <= MaxConcurrentJobs
    <3>1. dispatched < capacity /\ NActive + capacity - dispatched <= MaxConcurrentJobs
      BY <1>9, <2>6 DEF CreateJob, CreateJobLost
    <3>2. NActive \in Nat /\ NActive' \in Nat /\ capacity \in Nat /\ dispatched \in Nat
          /\ MaxConcurrentJobs \in Int
      OBVIOUS
    <3>3. QED
      BY <2>4, <3>1, <3>2, RoomForOne
  <2>7. UNCHANGED <<capacity, dispatched>> /\ ctl' \in {"ownJson", "dropJson"}
    BY <1>9 DEF CreateJob, CreateJobLost
  <2>8. QED
    BY <2>5, <2>6, <2>7
<1>10. CASE CreateJobRefused
  BY <1>10, ActiveSame DEF CreateJobRefused
<1>11. CASE DropJson
  BY <1>11, ActiveSame DEF DropJson, DropSecret, AfterDropJson
<1>12. CASE DropToken
  BY <1>12, ActiveSame DEF DropToken, DropSecret
<1>13. CASE OwnJson
  BY <1>13, ActiveSame DEF OwnJson, RunProcessed
<1>14. CASE OwnToken
  BY <1>14, ActiveSame DEF OwnToken, RunProcessed
<1>15. QED
  BY <1>1, <1>2, <1>3, <1>4, <1>5, <1>6, <1>7, <1>8, <1>9, <1>10, <1>11, <1>12,
     <1>13, <1>14 DEF Dispatch

\* Reporting a failure keeps it.
LEMMA CapInvReport == CapInv /\ Report => CapInv'
<1> SUFFICES ASSUME CapInv, Report PROVE CapInv'
  OBVIOUS
<1> USE BoundsAssumption, ActiveNat, ActiveSame
    DEF CapInv, Room, CountTypes, Dispatching, locals, cluster, meshfed
<1>1. CASE Register
  BY <1>1 DEF Register
<1>2. CASE RegisterFails
  BY <1>2 DEF RegisterFails, EndDrain
<1>3. CASE UpdateRunStatus
  BY <1>3 DEF UpdateRunStatus, EndDrain
<1>4. CASE UpdateRunStatusFails
  BY <1>4 DEF UpdateRunStatusFails, EndDrain
<1>5. QED
  BY <1>1, <1>2, <1>3, <1>4 DEF Report

\* Kubernetes and meshfed keep it: jobs end at any time, none appears.
LEMMA CapInvEnvironment == CapInv /\ Environment => CapInv'
<1> SUFFICES ASSUME CapInv, Environment PROVE CapInv'
  OBVIOUS
<1> USE DEF locals, cluster, meshfed
<1>1. /\ ctl' = ctl /\ UNCHANGED locals /\ UNCHANGED claims
      /\ jobs' \in [Runs -> [state: JobStates, uid: Nat, token: Nat, retried: BOOLEAN]]
      /\ ActiveJobs' \subseteq ActiveJobs
  <2> USE DEF CapInv, CountTypes, ActiveJobs, JobStates
  <2>1. CASE CollectSecret
    BY <2>1 DEF CollectSecret
  <2>2. ASSUME NEW r \in Runs, PodStarts(r) PROVE <1>1!:
    BY <2>2 DEF PodStarts
  <2>3. ASSUME NEW r \in Runs, PodFails(r) PROVE <1>1!:
    BY <2>3 DEF PodFails
  <2>4. ASSUME NEW r \in Runs, JobEnds(r) PROVE <1>1!:
    BY <2>4 DEF JobEnds
  <2>5. ASSUME NEW r \in Runs, JobExpires(r) PROVE <1>1!:
    BY <2>5 DEF JobExpires, NoJob
  <2>6. ASSUME NEW r \in Runs, OfferAgain(r) PROVE <1>1!:
    BY <2>6 DEF OfferAgain
  <2>7. QED
    BY <2>1, <2>2, <2>3, <2>4, <2>5, <2>6 DEF Environment
<1>2. NActive' <= NActive
  BY <1>1, ActiveShrinks
<1>3. CountTypes'
  BY <1>1 DEF CapInv, CountTypes
<1>4. NActive \in Nat /\ NActive' \in Nat /\ capacity \in Nat /\ dispatched \in Nat
      /\ MaxConcurrentJobs \in Int
  BY ActiveNat, ActiveNatNext, BoundsAssumption DEF CapInv, CountTypes
<1>5. /\ NActive <= MaxConcurrentJobs => NActive' <= MaxConcurrentJobs
      /\ NActive + capacity - dispatched <= MaxConcurrentJobs =>
           NActive' + capacity - dispatched <= MaxConcurrentJobs
      /\ NActive + capacity - dispatched - 1 <= MaxConcurrentJobs =>
           NActive' + capacity - dispatched - 1 <= MaxConcurrentJobs
  BY <1>2, <1>4, RoomMonotone
<1>6. UNCHANGED <<ctl, capacity, dispatched>>
  BY <1>1
<1>7. QED
  BY <1>3, <1>5, <1>6 DEF CapInv, Room

\* Every step keeps it.
LEMMA CapInvNext == CapInv /\ [Next]_vars => CapInv'
<1> SUFFICES ASSUME CapInv, [Next]_vars PROVE CapInv'
  OBVIOUS
<1>1. CASE Controller \/ StopLoop
  BY <1>1, CapInvLoop, CapInvDispatch, CapInvReport DEF Controller
<1>2. CASE Environment
  BY <1>2, CapInvEnvironment
<1>3. CASE Signal
  BY <1>3, ActiveSame DEF Signal, CapInv, Room, CountTypes, Dispatching, locals, cluster, meshfed
<1>4. CASE Restart
  BY <1>4, ActiveSame DEF Restart, CapInv, Room, CountTypes, Dispatching, cluster, meshfed
<1>5. CASE Exited \/ UNCHANGED vars
  BY <1>5, ActiveSame DEF Exited, vars, CapInv, Room, CountTypes, locals, cluster, meshfed
<1>6. QED
  BY <1>1, <1>2, <1>3, <1>4, <1>5 DEF Next

\* The number of unfinished jobs never exceeds maxConcurrentJobs (drainRuns,
\* availableCapacity), for every limit, any number of runs and any failures.
THEOREM CapacityTheorem == Spec => []CapacityRespected
<1>1. CapInv => CapacityRespected
  BY DEF CapInv, CapacityRespected, NActive
<1>2. QED
  BY <1>1, CapInvInit, CapInvNext, PTL DEF Spec

-----------------------------------------------------------------------------
(* Types.                                                                  *)

\* Between the claim of a run and the end of its processing.
Processing == Dispatching \cup {"register", "update"}
\* While the drain may still count the run.
Counting == {"fetch", "getJob", "jsonSecret", "tokenSecret", "warn", "createJob",
             "ownJson", "ownToken"}

\* Numbers of claims: a run in process has one, and one that is offered has one
\* left.
NumbersInv ==
  /\ ctl \in Processing => cur \in Runs /\ claims[cur] >= 1
  /\ ctl \in Counting => dispatched < capacity
  /\ \A r \in Runs : mesh[r] = "offered" => claims[r] < MaxClaims

TypeInv == TypeOK /\ NumbersInv

\* The initial state has the types.
LEMMA TypesInit == Init => TypeInv
<1> SUFFICES ASSUME Init PROVE TypeInv
  OBVIOUS
<1>1. stopping \in BOOLEAN /\ faulty \in BOOLEAN
  BY Zenon DEF Init
<1>2. jobs \in [Runs -> [state: {"none", "pending", "running", "finished"},
                        uid: 0..MaxClaims, token: 0..MaxClaims, retried: BOOLEAN]]
  BY BoundsAssumption DEF Init, NoJob
<1> QED
  BY <1>1, <1>2, BoundsAssumption
     DEF Init, TypeInv, TypeOK, NumbersInv, Processing, Counting, Dispatching, Idle

\* A claim is counted, within the bound.
LEMMA ClaimTypes ==
  ASSUME TypeInv, NEW r \in Runs, Claim(r)
  PROVE  /\ mesh' \in [Runs -> {"offered", "claimed", "FAILED", "ended"}]
         /\ claims' \in [Runs -> 0..MaxClaims] /\ claims'[r] >= 1
         /\ lateClaims' \in Nat /\ warned' = warned
         /\ \A q \in Runs : mesh'[q] = "offered" => claims'[q] < MaxClaims
         /\ \A q \in Runs : claims[q] <= claims'[q]
  BY BoundsAssumption DEF TypeInv, TypeOK, NumbersInv, Claim

\* A new secret is one.
LEMMA SecretTypes ==
  ASSUME TypeInv, ctl \in Processing
  PROVE  /\ Secret("json", cur, claims[cur]) \in
              [kind: {"json", "token"}, run: Runs, by: 1..MaxClaims, owner: 0..MaxClaims]
         /\ Secret("token", cur, claims[cur]) \in
              [kind: {"json", "token"}, run: Runs, by: 1..MaxClaims, owner: 0..MaxClaims]
         /\ claims[cur] \in 1..MaxClaims /\ cur \in Runs
<1>1. claims[cur] \in 1..MaxClaims /\ cur \in Runs
  BY BoundsAssumption DEF TypeInv, TypeOK, NumbersInv
<1> QED BY <1>1, BoundsAssumption DEF Secret

\* A secret with an owner is one.
LEMMA OwnTypes ==
  ASSUME TypeInv, ctl \in Processing, NEW found, OwnSecret(found)
  PROVE  /\ secrets' \subseteq
              [kind: {"json", "token"}, run: Runs, by: 1..MaxClaims, owner: 0..MaxClaims]
         /\ faulty' \in BOOLEAN
<1>1. claims[cur] \in 0..MaxClaims
  BY SecretTypes
<1>2. CASE /\ secrets' = {IF s \in found THEN [s EXCEPT !.owner = claims[cur]] ELSE s : s \in secrets}
           /\ UNCHANGED faulty
  <2>1. \A s \in secrets : /\ s \in [kind: {"json", "token"}, run: Runs, by: 1..MaxClaims,
                                     owner: 0..MaxClaims]
                           /\ [s EXCEPT !.owner = claims[cur]] \in
                                [kind: {"json", "token"}, run: Runs, by: 1..MaxClaims,
                                 owner: 0..MaxClaims]
    BY <1>1 DEF TypeInv, TypeOK
  <2> QED BY <1>2, <2>1 DEF TypeInv, TypeOK
<1>3. CASE faulty' = TRUE /\ UNCHANGED secrets
  BY <1>3 DEF TypeInv, TypeOK
<1> QED BY <1>2, <1>3 DEF OwnSecret

\* The poll loop keeps the types.
LEMMA TypesLoop ==
  ASSUME TypeInv, StartDrain \/ DrainLoop \/ Fetch \/ StopLoop
  PROVE  TypeInv'
<1> USE BoundsAssumption DEF TypeInv, TypeOK, NumbersInv, Processing, Counting, Dispatching, Idle,
                             locals, cluster, meshfed, history
<1>1. CASE StartDrain
  BY <1>1, CapacityLeavesRoom DEF StartDrain
<1>2. CASE DrainLoop
  BY <1>2 DEF DrainLoop, DrainContinues, EndDrain
<1>3. CASE StopLoop
  BY <1>3 DEF StopLoop
<1>4. CASE FetchNothing
  BY <1>4 DEF FetchNothing, EndDrain
<1>5. CASE FetchFails
  <2>1. /\ ctl' = "select" /\ capacity' = 0 /\ dispatched' = 0 /\ cur' = NoRun /\ token' = 0
        /\ UNCHANGED <<stopping, jobs, secrets, restarts>>
    BY <1>5 DEF FetchFails, EndDrain
  <2>2. faulty' \in BOOLEAN
    BY <1>5 DEF FetchFails
  <2>3. CASE UNCHANGED <<meshfed, lateClaims>>
    BY <2>1, <2>2, <2>3
  <2>4. ASSUME NEW r \in Runs, Claim(r) PROVE TypeInv'
    <3>1. /\ mesh' \in [Runs -> {"offered", "claimed", "FAILED", "ended"}]
          /\ claims' \in [Runs -> 0..MaxClaims] /\ lateClaims' \in Nat /\ warned' = warned
          /\ \A q \in Runs : mesh'[q] = "offered" => claims'[q] < MaxClaims
      BY <2>4, ClaimTypes
    <3> QED BY <2>1, <2>2, <3>1
  <2> QED BY <1>5, <2>3, <2>4 DEF FetchFails
<1>6. ASSUME NEW r \in Runs, FetchUndecryptable(r) PROVE TypeInv'
  <2>1. /\ mesh' \in [Runs -> {"offered", "claimed", "FAILED", "ended"}]
        /\ claims' \in [Runs -> 0..MaxClaims] /\ lateClaims' \in Nat /\ warned' = warned
        /\ \A q \in Runs : mesh'[q] = "offered" => claims'[q] < MaxClaims
    BY <1>6, ClaimTypes DEF FetchUndecryptable
  <2> QED BY <1>6, <2>1 DEF FetchUndecryptable, EndDrain
<1>7. ASSUME NEW r \in Runs, FetchRun(r) PROVE TypeInv'
  <2>1. /\ mesh' \in [Runs -> {"offered", "claimed", "FAILED", "ended"}]
        /\ claims' \in [Runs -> 0..MaxClaims] /\ lateClaims' \in Nat /\ warned' = warned
        /\ \A q \in Runs : mesh'[q] = "offered" => claims'[q] < MaxClaims
        /\ claims'[r] >= 1
    BY <1>7, ClaimTypes DEF FetchRun
  <2> QED BY <1>7, <2>1 DEF FetchRun
<1> QED BY <1>1, <1>2, <1>3, <1>4, <1>5, <1>6, <1>7 DEF Fetch

\* So does a dispatch.
LEMMA TypesDispatch ==
  ASSUME TypeInv, Dispatch
  PROVE  TypeInv'
<1> USE BoundsAssumption DEF TypeInv, TypeOK, NumbersInv, Processing, Counting, Dispatching, Idle,
                             locals, cluster, meshfed, history
<1>0. ctl \in Processing
  BY DEF Dispatch, GetJobExists, GetJobMissing, PrepareFails, JsonSecret, JsonSecretFails,
         TokenSecret, NoToken, TokenFails, TokenSecretLost, Warn, CreateJob, CreateJobRefused,
         CreateJobLost, DropJson, DropToken, DropSecret, OwnJson, OwnToken
<1>1. CASE GetJobExists
  BY <1>1 DEF GetJobExists, RunProcessed
<1>2. CASE GetJobMissing
  <2>1. faulty' \in BOOLEAN
    BY <1>2 DEF GetJobMissing, JobExists
  <2> QED BY <1>2, <2>1 DEF GetJobMissing
<1>3. CASE PrepareFails
  BY <1>3 DEF PrepareFails
<1>4. CASE JsonSecret
  BY <1>0, <1>4, SecretTypes DEF JsonSecret
<1>5. CASE JsonSecretFails
  BY <1>0, <1>5, SecretTypes DEF JsonSecretFails
<1>6. CASE TokenSecret
  BY <1>0, <1>6, SecretTypes DEF TokenSecret, createTokenSecret
<1>7. CASE NoToken
  BY <1>7 DEF NoToken
<1>8. CASE TokenFails
  BY <1>8 DEF TokenFails, AfterTokenFails
<1>9. CASE TokenSecretLost
  BY <1>0, <1>9, SecretTypes DEF TokenSecretLost, AfterTokenFails
<1>10. CASE Warn
  BY <1>10 DEF Warn
<1>11. CASE CreateJob \/ CreateJobLost
  <2>1. cur \in Runs /\ NewJob \in [state: {"none", "pending", "running", "finished"},
                        uid: 0..MaxClaims, token: 0..MaxClaims, retried: BOOLEAN]
    BY <1>0, SecretTypes DEF NewJob
  <2>2. jobs' = [jobs EXCEPT ![cur] = NewJob]
    BY <1>11 DEF CreateJob, CreateJobLost
  <2>3. jobs' \in [Runs -> [state: {"none", "pending", "running", "finished"},
                        uid: 0..MaxClaims, token: 0..MaxClaims, retried: BOOLEAN]]
    BY <2>1, <2>2
  <2>4. faulty' \in BOOLEAN
    BY <1>11 DEF CreateJob, CreateJobLost
  <2> QED BY <1>11, <2>3, <2>4 DEF CreateJob, CreateJobLost
<1>12. CASE CreateJobRefused
  BY <1>12 DEF CreateJobRefused
<1>13. CASE DropJson
  BY <1>13 DEF DropJson, DropSecret, AfterDropJson
<1>14. CASE DropToken
  BY <1>14 DEF DropToken, DropSecret
<1>15. CASE OwnJson
  <2>1. /\ secrets' \subseteq
             [kind: {"json", "token"}, run: Runs, by: 1..MaxClaims, owner: 0..MaxClaims]
        /\ faulty' \in BOOLEAN
    BY <1>0, <1>15, OwnTypes DEF OwnJson
  <2> QED BY <1>15, <2>1 DEF OwnJson, RunProcessed
<1>16. CASE OwnToken
  <2>1. /\ secrets' \subseteq
             [kind: {"json", "token"}, run: Runs, by: 1..MaxClaims, owner: 0..MaxClaims]
        /\ faulty' \in BOOLEAN
    BY <1>0, <1>16, OwnTypes DEF OwnToken
  <2> QED BY <1>16, <2>1 DEF OwnToken, RunProcessed
<1> QED
  BY <1>1, <1>2, <1>3, <1>4, <1>5, <1>6, <1>7, <1>8, <1>9, <1>10, <1>11, <1>12,
     <1>13, <1>14, <1>15, <1>16 DEF Dispatch

\* So does everything else.
LEMMA TypesStep ==
  ASSUME TypeInv, [Next]_vars
  PROVE  TypeInv'
<1> USE BoundsAssumption DEF TypeInv, TypeOK, NumbersInv, Processing, Counting, Dispatching, Idle,
                             locals, cluster, meshfed, history
<1>1. CASE StartDrain \/ DrainLoop \/ Fetch \/ StopLoop
  BY <1>1, TypesLoop
<1>2. CASE Dispatch
  BY <1>2, TypesDispatch
<1>3. CASE Register
  BY <1>3 DEF Register
<1>4. CASE RegisterFails
  BY <1>4 DEF RegisterFails, EndDrain
<1>5. CASE UpdateRunStatus
  BY <1>5 DEF UpdateRunStatus, EndDrain, TakeFailed, reportedStatus
<1>6. CASE UpdateRunStatusFails
  BY <1>6 DEF UpdateRunStatusFails, EndDrain, TakeFailed, reportedStatus
<1>7. CASE Signal
  BY <1>7 DEF Signal
<1>8. CASE Restart
  <2>1. stopping' \in BOOLEAN /\ faulty' \in BOOLEAN
    BY <1>8 DEF Restart
  <2> QED BY <1>8, <2>1 DEF Restart
<1>9. CASE CollectSecret
  BY <1>9 DEF CollectSecret
<1>10. ASSUME NEW r \in Runs, PodStarts(r) PROVE TypeInv'
  BY <1>10 DEF PodStarts
<1>11. ASSUME NEW r \in Runs, PodFails(r) PROVE TypeInv'
  <2>1. jobs' \in [Runs -> [state: {"none", "pending", "running", "finished"},
                        uid: 0..MaxClaims, token: 0..MaxClaims, retried: BOOLEAN]]
    BY <1>11 DEF PodFails
  <2> QED BY <1>11, <2>1 DEF PodFails
<1>12. ASSUME NEW r \in Runs, JobEnds(r) PROVE TypeInv'
  <2>1. faulty' \in BOOLEAN
    BY <1>12 DEF JobEnds
  <2> QED BY <1>12, <2>1 DEF JobEnds
<1>13. ASSUME NEW r \in Runs, JobExpires(r) PROVE TypeInv'
  BY <1>13 DEF JobExpires, NoJob
<1>14. ASSUME NEW r \in Runs, OfferAgain(r) PROVE TypeInv'
  BY <1>14 DEF OfferAgain
<1>15. CASE Exited \/ UNCHANGED vars
  BY <1>15 DEF Exited, vars
<1> QED
  BY <1>1, <1>2, <1>3, <1>4, <1>5, <1>6, <1>7, <1>8, <1>9, <1>10, <1>11, <1>12, <1>13,
     <1>14, <1>15 DEF Next, Controller, Report, Environment

\* The controller, its requests, Kubernetes and meshfed keep to the types.
LEMMA TypesHold == Spec => []TypeInv
  BY TypesInit, TypesStep, PTL DEF Spec

-----------------------------------------------------------------------------
(* Claims are answered.                                                    *)

\* A stop leaves at most the claim that is being made.
StopInv ==
  /\ ~stopping \/ ctl = "fetch" => lateClaims = 0
  /\ StopsClaiming

\* Every claim that was taken has its job or is being processed and may still get
\* one, and a job that has ended has told meshfed.
Unanswered == Processing \ {"ownJson", "ownToken"}
AnsweredInv ==
  ~faulty =>
    /\ \A r \in Runs \ Undecryptable :
         mesh[r] = "claimed" => JobExists(r) \/ (ctl \in Unanswered /\ cur = r)
    /\ \A r \in Runs : jobs[r].state = "finished" => mesh[r] \notin {"offered", "claimed"}

\* From the check that there is no job to its creation, and from there to the
\* report of a failure, the run has none.
Jobless == {"jsonSecret", "tokenSecret", "warn", "createJob", "dropJson", "dropToken",
            "register", "update"}
FailedInv ==
  /\ ctl \in Dispatching => cur \notin NoHandler
  /\ ctl \in Processing => mesh[cur] # "FAILED"
  /\ \A r \in NoHandler : ~JobExists(r)
  /\ ~faulty => /\ ctl \in Jobless => ~JobExists(cur)
                /\ \A r \in Runs : mesh[r] = "FAILED" => ~JobExists(r)

-----------------------------------------------------------------------------
(* Secrets.                                                                *)

\* Jobs and secrets carry the number of a claim that was made, and a dispatch has
\* the token of its own claim or none.
DispatchInv ==
  /\ \A s \in secrets : s.by <= claims[s.run] /\ s.owner <= claims[s.run]
  /\ \A r \in Runs : JobExists(r) => 1 <= jobs[r].uid /\ jobs[r].uid <= claims[r]
  /\ token # 0 => /\ ctl \in {"createJob", "dropJson", "dropToken", "ownJson", "ownToken",
                              "register", "update"}
                  /\ token = claims[cur]
  /\ MountsOwnToken

\* A secret without an owner belongs to the current dispatch, which has still to
\* give it one or to delete it.
OwnedInv ==
  ~faulty => \A s \in secrets : s.owner = 0 =>
    /\ s.run = cur
    /\ \/ s.kind = "json" /\ ctl \in {"tokenSecret", "warn", "createJob", "dropJson", "ownJson"}
       \/ /\ s.kind = "token" /\ s.by = token
          /\ ctl \in {"createJob", "dropJson", "dropToken", "ownJson", "ownToken"}

\* No job is created without its token unless the run was told.
ToldInv ==
  /\ ~faulty /\ ctl = "createJob" /\ cur \in Federated => token # 0 \/ cur \in warned
  /\ MissingTokenIsTold

\* The first dispatch of a run finds no secret, and makes those that its job
\* mounts.  They have no owner yet, so that nothing collects them.
StartInv ==
  /\ ctl \in {"getJob", "jsonSecret"} /\ claims[cur] = 1 => \A s \in secrets : s.run # cur
  /\ ctl \in {"tokenSecret", "warn", "createJob"} /\ claims[cur] = 1 =>
       /\ \A s \in secrets : s.run = cur => s.owner = 0
       /\ JsonSecrets(cur) # {}
       /\ token # 0 => TokenSecrets(cur, token) # {}
  /\ JobsCanStart

-----------------------------------------------------------------------------
(* What the parts of the system leave alone.                               *)

\* A dispatch claims nothing and changes no status.
LEMMA DispatchFrame ==
  ASSUME Dispatch
  PROVE  /\ UNCHANGED <<stopping, mesh, claims, restarts, lateClaims, capacity>>
         /\ ctl \in Dispatching /\ ctl' \in Dispatching \cup {"register", "drain"}
         /\ ctl' \in Processing => cur' = cur
  BY DEF Dispatch, GetJobExists, GetJobMissing, PrepareFails, JsonSecret, JsonSecretFails,
         TokenSecret, NoToken, TokenFails, TokenSecretLost, Warn, CreateJob, CreateJobRefused,
         CreateJobLost, DropJson, DropToken, DropSecret, OwnJson, OwnToken, RunProcessed,
         AfterTokenFails, AfterDropJson, Dispatching, Processing, locals, meshfed, history

\* A report touches meshfed only.
LEMMA ReportFrame ==
  ASSUME Report
  PROVE  /\ UNCHANGED <<stopping, claims, warned, jobs, secrets, restarts, lateClaims>>
         /\ ctl \in {"register", "update"} /\ ctl' \in {"update", "select"}
         /\ ctl' = "update" => UNCHANGED <<cur, token, mesh>>
         /\ ctl' = "select" => cur' = NoRun /\ token' = 0
  BY DEF Report, Register, RegisterFails, UpdateRunStatus, UpdateRunStatusFails, EndDrain,
         locals, meshfed, cluster, history

\* Kubernetes and meshfed leave the controller alone, and claim nothing.
LEMMA EnvironmentFrame ==
  ASSUME Environment
  PROVE  /\ UNCHANGED <<ctl, capacity, dispatched, cur, token, stopping, claims, warned,
                        restarts, lateClaims>>
         /\ UNCHANGED secrets \/ UNCHANGED <<mesh, jobs>>
  BY DEF Environment, CollectSecret, PodStarts, PodFails, JobEnds, JobExpires, OfferAgain,
         locals, meshfed, cluster, history

\* The poll loop leaves the cluster alone.
LEMMA LoopFrame ==
  ASSUME StartDrain \/ DrainLoop \/ StopLoop \/ Fetch
  PROVE  /\ UNCHANGED <<stopping, warned, jobs, secrets, restarts>>
         /\ ctl \notin Processing
         /\ UNCHANGED token \/ token' = 0
  BY DEF StartDrain, DrainLoop, StopLoop, Fetch, FetchNothing, FetchFails, FetchUndecryptable,
         FetchRun, EndDrain, Claim, Processing, Dispatching, locals, meshfed, cluster, history

\* What has failed has failed.
LEMMA FaultyStays ==
  ASSUME [Next]_vars, faulty
  PROVE  faulty'
<1>1. CASE Dispatch
  BY <1>1 DEF Dispatch, GetJobExists, GetJobMissing, PrepareFails, JsonSecret, JsonSecretFails,
         TokenSecret, NoToken, TokenFails, TokenSecretLost, Warn, CreateJob, CreateJobRefused,
         CreateJobLost, DropJson, DropToken, DropSecret, OwnJson, OwnToken, OwnSecret, history
<1>2. CASE StartDrain \/ DrainLoop \/ StopLoop \/ Fetch \/ Report
  BY <1>2 DEF StartDrain, DrainLoop, StopLoop, Fetch, FetchNothing, FetchFails, FetchRun,
         FetchUndecryptable, Report, Register, RegisterFails, UpdateRunStatus,
         UpdateRunStatusFails, history
<1>3. CASE Environment
  BY <1>3 DEF Environment, CollectSecret, PodStarts, PodFails, JobEnds, JobExpires, OfferAgain,
         history
<1> QED BY <1>1, <1>2, <1>3 DEF Next, Controller, Signal, Restart, Exited, vars, history

\* Every step keeps StopInv: a claim is made at "fetch" only, which is not reached
\* after a stop.
LEMMA StopStep ==
  ASSUME TypeInv, StopInv, [Next]_vars
  PROVE  StopInv'
<1>1. lateClaims \in Nat /\ stopping \in BOOLEAN
  BY DEF TypeInv, TypeOK
<1> USE DEF StopInv, StopsClaiming, history
<1>2. CASE Dispatch
  BY <1>2, DispatchFrame DEF Dispatching
<1>3. CASE Report
  BY <1>3, ReportFrame
<1>4. CASE Environment
  BY <1>4, EnvironmentFrame
<1>5. CASE StartDrain \/ StopLoop \/ FetchNothing
  BY <1>5 DEF StartDrain, StopLoop, FetchNothing, EndDrain
<1>6. CASE DrainLoop
  BY <1>6 DEF DrainLoop, DrainContinues, EndDrain
<1>7. CASE FetchFails
  BY <1>1, <1>7 DEF FetchFails, EndDrain, Claim
<1>8. ASSUME NEW r \in Runs, FetchRun(r) \/ FetchUndecryptable(r)
      PROVE  StopInv'
  BY <1>1, <1>8 DEF FetchRun, FetchUndecryptable, EndDrain, Claim
<1>9. CASE Signal
  BY <1>9 DEF Signal
<1>10. CASE Restart
  BY <1>10 DEF Restart
<1>11. CASE Exited \/ UNCHANGED vars
  BY <1>11 DEF Exited, vars
<1> QED
  BY <1>2, <1>3, <1>4, <1>5, <1>6, <1>7, <1>8, <1>9, <1>10, <1>11 DEF Next, Controller, Fetch

\* Every step keeps AnsweredInv.
LEMMA AnsweredStep ==
  ASSUME TypeInv, AnsweredInv, [Next]_vars
  PROVE  AnsweredInv'
<1> SUFFICES ASSUME ~faulty'
             PROVE  /\ \A r \in Runs \ Undecryptable :
                         mesh'[r] = "claimed" => JobExists(r)' \/ (ctl' \in Unanswered /\ cur' = r)
                    /\ \A r \in Runs : jobs'[r].state = "finished" =>
                         mesh'[r] \notin {"offered", "claimed"}
  BY DEF AnsweredInv
<1>1. /\ \A r \in Runs \ Undecryptable :
           mesh[r] = "claimed" => JobExists(r) \/ (ctl \in Unanswered /\ cur = r)
      /\ \A r \in Runs : jobs[r].state = "finished" => mesh[r] \notin {"offered", "claimed"}
  BY FaultyStays DEF AnsweredInv
<1>2. TypeOK /\ (ctl \in Processing => cur \in Runs)
  BY DEF TypeInv, NumbersInv
<1> USE DEF JobExists, history
<1>3. CASE Dispatch
  <2>1. UNCHANGED mesh /\ ctl \in Processing
    BY <1>3, DispatchFrame DEF Processing
  <2>2. CASE CreateJob
    <3>1. jobs' = [jobs EXCEPT ![cur] = NewJob] /\ NewJob.state = "pending" /\ cur \in Runs
      BY <1>2, <2>1, <2>2 DEF CreateJob, NewJob
    <3>2. /\ jobs'[cur].state = "pending"
          /\ \A r \in Runs \ {cur} : jobs'[r] = jobs[r]
      BY <1>2, <3>1 DEF TypeOK
    <3> QED BY <1>1, <2>1, <3>2
  <2>3. CASE UNCHANGED jobs /\ ctl' \in Unanswered
    <3>1. cur' = cur
      BY <1>3, <2>3, DispatchFrame DEF Unanswered
    <3> QED BY <1>1, <2>1, <2>3, <3>1
  <2>4. CASE GetJobExists
    BY <1>1, <2>1, <2>4 DEF GetJobExists, cluster
  <2>5. CASE OwnJson \/ OwnToken
    BY <1>1, <2>1, <2>5 DEF OwnJson, OwnToken, Unanswered
  <2> QED BY <1>3, <2>2, <2>3, <2>4, <2>5
         DEF Dispatch, GetJobMissing, PrepareFails, JsonSecret, JsonSecretFails, TokenSecret,
             NoToken, TokenFails, TokenSecretLost, Warn, CreateJobRefused, CreateJobLost,
             DropJson, DropToken, DropSecret, AfterDropJson, AfterTokenFails, Unanswered,
             Processing, Dispatching, cluster
<1>4. CASE Register
  BY <1>1, <1>4 DEF Register, Unanswered, Processing, meshfed, cluster, locals
<1>5. CASE UpdateRunStatus
  <2>1. /\ ctl = "update" /\ cur \in Runs /\ UNCHANGED jobs
        /\ mesh' = [mesh EXCEPT ![cur] = IF @ = "claimed" THEN "FAILED" ELSE @]
    BY <1>2, <1>5 DEF UpdateRunStatus, TakeFailed, reportedStatus, cluster, Processing
  <2>2. /\ \A r \in Runs \ {cur} : mesh'[r] = mesh[r]
        /\ mesh'[cur] # "claimed"
        /\ \A r \in Runs : mesh'[r] = mesh[r] \/ mesh'[r] = "FAILED"
    BY <1>2, <2>1 DEF TypeOK
  <2> QED BY <1>1, <2>1, <2>2
<1>6. CASE RegisterFails \/ UpdateRunStatusFails \/ FetchFails
  BY <1>6 DEF RegisterFails, UpdateRunStatusFails, FetchFails
<1>7. CASE StartDrain \/ DrainLoop \/ StopLoop \/ FetchNothing
  BY <1>1, <1>7, LoopFrame
     DEF StartDrain, DrainLoop, StopLoop, FetchNothing, Fetch, meshfed, Unanswered
<1>8. ASSUME NEW q \in Runs, FetchRun(q) \/ FetchUndecryptable(q)
      PROVE  /\ \A r \in Runs \ Undecryptable :
                  mesh'[r] = "claimed" => JobExists(r)' \/ (ctl' \in Unanswered /\ cur' = r)
             /\ \A r \in Runs : jobs'[r].state = "finished" =>
                  mesh'[r] \notin {"offered", "claimed"}
  <2>1. /\ mesh[q] = "offered" /\ mesh' = [mesh EXCEPT ![q] = "claimed"] /\ UNCHANGED jobs
        /\ ctl = "fetch"
        /\ q \in Undecryptable \/ (cur' = q /\ ctl' \in {"register", "getJob"})
    BY <1>8 DEF FetchRun, FetchUndecryptable, Claim, cluster
  <2>2. mesh'[q] = "claimed" /\ \A r \in Runs \ {q} : mesh'[r] = mesh[r]
    BY <1>2, <2>1 DEF TypeOK
  <2> QED BY <1>1, <2>1, <2>2 DEF Unanswered, Processing, Dispatching
<1>9. CASE CollectSecret
  BY <1>1, <1>9 DEF CollectSecret, meshfed, locals
<1>10. ASSUME NEW q \in Runs, PodStarts(q) \/ PodFails(q) \/ JobEnds(q) \/ JobExpires(q) \/ OfferAgain(q)
       PROVE  /\ \A r \in Runs \ Undecryptable :
                   mesh'[r] = "claimed" => JobExists(r)' \/ (ctl' \in Unanswered /\ cur' = r)
              /\ \A r \in Runs : jobs'[r].state = "finished" =>
                   mesh'[r] \notin {"offered", "claimed"}
  <2>1. /\ \A r \in Runs \ {q} : mesh'[r] = mesh[r] /\ jobs'[r] = jobs[r]
        /\ UNCHANGED <<ctl, cur>>
    BY <1>2, <1>10 DEF TypeOK, PodStarts, PodFails, JobEnds, JobExpires, OfferAgain, meshfed,
                       cluster, locals
  <2>2. /\ mesh'[q] = "claimed" => JobExists(q)' \/ (mesh[q] = "claimed" /\ ~JobExists(q))
        /\ jobs'[q].state = "finished" => mesh'[q] \notin {"offered", "claimed"}
    <3>1. CASE PodStarts(q)
      BY <1>2, <3>1 DEF TypeOK, PodStarts
    <3>2. CASE PodFails(q)
      BY <1>2, <3>2 DEF TypeOK, PodFails
    <3>3. CASE JobEnds(q)
      BY <1>2, <3>3 DEF TypeOK, JobEnds
    <3>4. CASE JobExpires(q)
      BY <1>1, <1>2, <3>4 DEF TypeOK, JobExpires, NoJob, meshfed
    <3>5. CASE OfferAgain(q)
      BY <1>1, <1>2, <3>5 DEF TypeOK, OfferAgain, cluster
    <3> QED BY <1>10, <3>1, <3>2, <3>3, <3>4, <3>5
  <2> QED BY <1>1, <2>1, <2>2
<1>11. CASE Signal \/ Exited \/ UNCHANGED vars
  BY <1>1, <1>11 DEF Signal, Exited, vars, meshfed, cluster, locals
<1>12. CASE Restart
  BY <1>1, <1>12 DEF Restart, meshfed, cluster, Unanswered, Processing, Dispatching
<1> QED
  BY <1>3, <1>4, <1>5, <1>6, <1>7, <1>8, <1>9, <1>10, <1>11, <1>12
     DEF Next, Controller, Report, Fetch, Environment

\* Every step keeps FailedInv.
LEMMA FailedStep ==
  ASSUME TypeInv, FailedInv, [Next]_vars
  PROVE  FailedInv'
<1>1. TypeOK /\ (ctl \in Processing => cur \in Runs) /\ (faulty => faulty')
  BY FaultyStays DEF TypeInv, NumbersInv
<1> USE RunsAssumption DEF JobExists, history
<1>2. CASE Dispatch
  <2>1. /\ UNCHANGED mesh /\ ctl \in Dispatching /\ ctl' \in Dispatching \cup {"register", "drain"}
        /\ ctl' \in Processing => cur' = cur
    BY <1>2, DispatchFrame
  <2>2. cur \in Runs
    BY <1>1, <2>1 DEF Processing
  <2>3. CASE CreateJob \/ CreateJobLost
    <3>1. jobs' = [jobs EXCEPT ![cur] = NewJob]
      BY <2>3 DEF CreateJob, CreateJobLost
    <3>2. \A r \in Runs \ {cur} : jobs'[r] = jobs[r]
      BY <1>1, <2>2, <3>1 DEF TypeOK
    <3>3. ctl' = "ownJson" \/ (ctl' = "dropJson" /\ faulty')
      BY <2>3 DEF CreateJob, CreateJobLost
    <3> QED BY <1>1, <2>1, <2>2, <3>2, <3>3 DEF FailedInv, Processing, Dispatching, Jobless
  <2>4. CASE GetJobMissing
    BY <1>1, <2>1, <2>4 DEF GetJobMissing, FailedInv, Processing, Dispatching, Jobless, cluster
  <2>5. CASE GetJobExists \/ OwnJson \/ OwnToken
    <3>1. ctl' \in {"drain", "ownToken"} /\ UNCHANGED jobs
      BY <2>5 DEF GetJobExists, OwnJson, OwnToken, RunProcessed, cluster
    <3> QED BY <1>1, <2>1, <3>1 DEF FailedInv, Processing, Dispatching, Jobless
  <2>6. CASE UNCHANGED jobs /\ ctl \in Jobless /\ ctl' \in Jobless
    BY <1>1, <2>1, <2>6 DEF FailedInv, Processing, Dispatching, Jobless
  <2> QED BY <1>2, <2>3, <2>4, <2>5, <2>6
         DEF Dispatch, PrepareFails, JsonSecret, JsonSecretFails, TokenSecret, NoToken, TokenFails,
             TokenSecretLost, Warn, CreateJobRefused, DropJson, DropToken, DropSecret,
             AfterDropJson, AfterTokenFails, Jobless, cluster
<1>3. CASE Register
  BY <1>1, <1>3 DEF Register, FailedInv, Processing, Dispatching, Jobless, meshfed, cluster, locals
<1>4. CASE RegisterFails
  BY <1>1, <1>4 DEF RegisterFails, EndDrain, FailedInv, Processing, Dispatching, Jobless, meshfed,
                    cluster
<1>5. CASE UpdateRunStatus \/ UpdateRunStatusFails
  <2>1. ctl = "update" /\ ctl' = "select" /\ cur \in Runs /\ UNCHANGED jobs
    BY <1>1, <1>5 DEF UpdateRunStatus, UpdateRunStatusFails, EndDrain, Processing, cluster
  <2>2. \A r \in Runs \ {cur} : mesh'[r] = mesh[r]
    BY <1>1, <1>5 DEF UpdateRunStatus, UpdateRunStatusFails, TakeFailed, TypeOK
  <2> QED BY <1>1, <2>1, <2>2 DEF FailedInv, Processing, Dispatching, Jobless
<1>6. CASE StartDrain \/ DrainLoop \/ StopLoop \/ FetchNothing
  <2>1. ctl' \notin Processing /\ UNCHANGED <<mesh, jobs>>
    BY <1>6 DEF StartDrain, DrainLoop, StopLoop, FetchNothing, EndDrain, Processing, Dispatching,
                meshfed, cluster
  <2> QED BY <1>1, <2>1 DEF FailedInv, Processing, Dispatching, Jobless
<1>7. ASSUME NEW q \in Runs, Claim(q), ctl = "fetch", UNCHANGED jobs,
             \/ ctl' = "select"
             \/ cur' = q /\ ctl' = IF q \in NoHandler THEN "register" ELSE "getJob"
      PROVE  FailedInv'
  <2>1. mesh'[q] = "claimed" /\ \A r \in Runs \ {q} : mesh'[r] = mesh[r]
    BY <1>1, <1>7 DEF Claim, TypeOK
  <2> QED BY <1>1, <1>7, <2>1 DEF FailedInv, Processing, Dispatching, Jobless
<1>8. CASE FetchFails
  <2>1. CASE UNCHANGED mesh
    BY <1>1, <1>8, <2>1 DEF FetchFails, EndDrain, FailedInv, Processing, Dispatching, Jobless,
                            cluster
  <2>2. ASSUME NEW r \in Runs, Claim(r) PROVE FailedInv'
    BY <1>7, <1>8, <2>2 DEF FetchFails, EndDrain, cluster
  <2> QED BY <1>8, <2>1, <2>2 DEF FetchFails, meshfed
<1>9. ASSUME NEW r \in Runs, FetchRun(r) \/ FetchUndecryptable(r) PROVE FailedInv'
  BY <1>7, <1>9 DEF FetchRun, FetchUndecryptable, EndDrain, cluster
<1>10. CASE CollectSecret
  BY <1>1, <1>10 DEF CollectSecret, FailedInv, meshfed, locals
<1>11. ASSUME NEW q \in Runs, PodStarts(q) \/ PodFails(q) \/ JobEnds(q) \/ JobExpires(q) \/ OfferAgain(q)
       PROVE  FailedInv'
  <2>1. UNCHANGED <<ctl, cur>>
    BY <1>11 DEF PodStarts, PodFails, JobEnds, JobExpires, OfferAgain, locals
  <2>2. \A r \in Runs : mesh'[r] = "FAILED" <=> mesh[r] = "FAILED"
    BY <1>1, <1>11 DEF TypeOK, PodStarts, PodFails, JobEnds, JobExpires, OfferAgain, meshfed
  <2>3. \A r \in Runs : JobExists(r)' => JobExists(r)
    <3>1. \A r \in Runs \ {q} : jobs'[r] = jobs[r]
      BY <1>1, <1>11 DEF TypeOK, PodStarts, PodFails, JobEnds, JobExpires, OfferAgain, cluster
    <3>2. jobs[q].state # "none" \/ UNCHANGED jobs
      BY <1>11 DEF PodStarts, PodFails, JobEnds, JobExpires, OfferAgain, cluster
    <3> QED BY <3>1, <3>2
  <2> HIDE DEF JobExists
  <2> QED BY <1>1, <2>1, <2>2, <2>3 DEF FailedInv, Processing, Dispatching, Jobless
<1>12. CASE Signal \/ Exited \/ UNCHANGED vars
  BY <1>1, <1>12 DEF Signal, Exited, vars, FailedInv, meshfed, cluster, locals
<1>13. CASE Restart
  BY <1>1, <1>13 DEF Restart, FailedInv, meshfed, cluster, Jobless, Processing, Dispatching
<1> QED
  BY <1>2, <1>3, <1>4, <1>5, <1>6, <1>8, <1>9, <1>10, <1>11, <1>12, <1>13
     DEF Next, Controller, Report, Fetch, Environment

\* Claims are sound: for any number of runs, any limit and any number of restarts,
\* at most one claim is made after a stop, and unless a request fails every claim
\* of a run that can be decrypted gets a job or a status (drainRuns,
\* processNextRun, reportRunFailure).
THEOREM ClaimsTheorem == Spec => []ClaimsSound
<1>1. Init => StopInv /\ AnsweredInv
  BY DEF Init, StopInv, StopsClaiming, AnsweredInv, NoJob
<1>2. TypeInv /\ StopInv /\ AnsweredInv /\ [Next]_vars => StopInv' /\ AnsweredInv'
  BY StopStep, AnsweredStep
<1>3. TypeInv /\ StopInv /\ AnsweredInv => ClaimsSound
  <2> SUFFICES ASSUME TypeInv, StopInv, AnsweredInv PROVE ClaimsSound
    OBVIOUS
  <2>1. DecryptedAreAnswered
    BY DEF AnsweredInv, DecryptedAreAnswered, Unanswered, Processing, Dispatching, Idle
  <2> QED BY <2>1 DEF TypeInv, StopInv, ClaimsSound
<1> QED BY <1>1, <1>2, <1>3, TypesHold, PTL DEF Spec

\* Unless a request fails, a run that the controller has reported as FAILED has no
\* job that could still execute it, however often meshfed offers runs again
\* (CreateRunnerJob, reportRunFailure).
THEOREM FailedTheorem == Spec => []FailedRunsHaveNoJob
<1>1. Init => FailedInv
  BY RunsAssumption DEF Init, FailedInv, JobExists, NoJob, Processing, Dispatching, Jobless
<1>2. TypeInv /\ FailedInv /\ [Next]_vars => FailedInv'
  BY FailedStep
<1>3. FailedInv => FailedRunsHaveNoJob
  BY DEF FailedInv, FailedRunsHaveNoJob
<1> QED BY <1>1, <1>2, <1>3, TypesHold, PTL DEF Spec

-----------------------------------------------------------------------------
(* Proofs about the secrets.                                               *)

\* What a step makes of the secrets: of each one that is there afterwards, the
\* secret that it was, or a new one of the current dispatch.
SecretsStep ==
  \A t \in secrets' :
    \/ t \in secrets
    \/ \E s \in secrets : /\ s.kind = t.kind /\ s.run = t.run /\ s.by = t.by
                          /\ ctl \in Dispatching /\ t.run = cur /\ t.owner = claims[cur]
    \/ /\ ctl \in Dispatching /\ t.run = cur /\ t.by = claims[cur] /\ t.owner = 0

\* Giving owners changes the secrets that are found, and keeps all.
LEMMA OwnSecretFacts ==
  ASSUME TypeInv, NEW found \in SUBSET secrets, OwnSecret(found)
  PROVE  /\ \A t \in secrets' :
              \/ t \in secrets /\ (t \notin found \/ faulty')
              \/ \E s \in found : /\ s.kind = t.kind /\ s.run = t.run /\ s.by = t.by
                                  /\ t.owner = claims[cur]
         /\ \A s \in secrets : \E t \in secrets' : s.kind = t.kind /\ s.run = t.run /\ s.by = t.by
<1>1. CASE /\ secrets' = {IF s \in found THEN [s EXCEPT !.owner = claims[cur]] ELSE s : s \in secrets}
           /\ UNCHANGED faulty
  <2>1. \A s \in secrets :
          LET t == [s EXCEPT !.owner = claims[cur]]
          IN  s.kind = t.kind /\ s.run = t.run /\ s.by = t.by /\ t.owner = claims[cur]
    <3> SUFFICES ASSUME NEW s \in secrets
                 PROVE  LET t == [s EXCEPT !.owner = claims[cur]]
                        IN  s.kind = t.kind /\ s.run = t.run /\ s.by = t.by /\ t.owner = claims[cur]
      OBVIOUS
    <3>1. s \in [kind: {"json", "token"}, run: Runs, by: 1..MaxClaims, owner: 0..MaxClaims]
      BY DEF TypeInv, TypeOK
    <3> QED BY <3>1
  <2>2. \A t \in secrets' :
          \/ t \in secrets /\ t \notin found
          \/ \E s \in found : t = [s EXCEPT !.owner = claims[cur]]
    BY <1>1
  <2>3. \A s \in secrets : s \in secrets' \/ [s EXCEPT !.owner = claims[cur]] \in secrets'
    BY <1>1
  <2>4. ASSUME NEW t \in secrets'
        PROVE  \/ t \in secrets /\ (t \notin found \/ faulty')
               \/ \E s \in found : /\ s.kind = t.kind /\ s.run = t.run /\ s.by = t.by
                                   /\ t.owner = claims[cur]
    <3>1. CASE t \in secrets /\ t \notin found
      BY <3>1
    <3>2. CASE \E s \in found : t = [s EXCEPT !.owner = claims[cur]]
      <4>1. PICK s \in found : t = [s EXCEPT !.owner = claims[cur]]
        BY <3>2
      <4>2. s \in secrets
        OBVIOUS
      <4>3. s.kind = t.kind /\ s.run = t.run /\ s.by = t.by /\ t.owner = claims[cur]
        BY <2>1, <4>1, <4>2
      <4> QED BY <4>3
    <3> QED BY <2>2, <3>1, <3>2
  <2>5. ASSUME NEW s \in secrets
        PROVE  \E t \in secrets' : s.kind = t.kind /\ s.run = t.run /\ s.by = t.by
    <3>1. CASE s \in secrets'
      BY <3>1
    <3>2. CASE [s EXCEPT !.owner = claims[cur]] \in secrets'
      BY <2>1, <3>2
    <3> QED BY <2>3, <3>1, <3>2
  <2> QED BY <2>4, <2>5
<1>2. CASE faulty' = TRUE /\ UNCHANGED secrets
  BY <1>2
<1> QED BY <1>1, <1>2 DEF OwnSecret

\* A new secret carries the claim and no owner.
LEMMA SecretFacts ==
  ASSUME NEW kind, NEW r, NEW by
  PROVE  LET s == Secret(kind, r, by)
         IN  s.kind = kind /\ s.run = r /\ s.by = by /\ s.owner = 0
  BY DEF Secret

\* Every step changes the secrets like this.
LEMMA SecretsChange ==
  ASSUME TypeInv, [Next]_vars
  PROVE  SecretsStep
<1> USE DEF SecretsStep, Dispatching
<1>1. CASE UNCHANGED secrets
  BY <1>1
<1>2. CASE JsonSecret \/ JsonSecretFails
  BY <1>2, SecretFacts DEF JsonSecret, JsonSecretFails
<1>3. CASE TokenSecret \/ TokenSecretLost
  BY <1>3, SecretFacts DEF TokenSecret, createTokenSecret, TokenSecretLost
<1>4. CASE DropJson \/ DropToken \/ CollectSecret
  BY <1>4 DEF DropJson, DropToken, DropSecret, CollectSecret
<1>5. CASE OwnJson
  <2>1. /\ ctl = "ownJson" /\ OwnSecret(JsonSecrets(cur)) /\ JsonSecrets(cur) \subseteq secrets
        /\ \A s \in JsonSecrets(cur) : s.run = cur
    BY <1>5 DEF OwnJson, JsonSecrets
  <2> QED BY <2>1, OwnSecretFacts
<1>6. CASE OwnToken
  <2>1. /\ ctl = "ownToken" /\ OwnSecret(TokenSecrets(cur, token))
        /\ TokenSecrets(cur, token) \subseteq secrets
        /\ \A s \in TokenSecrets(cur, token) : s.run = cur
    BY <1>6 DEF OwnToken, TokenSecrets
  <2> QED BY <2>1, OwnSecretFacts
<1> QED BY <1>1, <1>2, <1>3, <1>4, <1>5, <1>6, LoopFrame, ReportFrame
     DEF Next, Controller, Dispatch, Environment, GetJobExists, GetJobMissing, PrepareFails,
         NoToken, TokenFails, Warn, CreateJob, CreateJobRefused, CreateJobLost, PodStarts,
         PodFails, JobEnds, JobExpires, OfferAgain, Signal, Restart, Exited, vars, cluster

\* Numbers of claims grow, and only between dispatches.
LEMMA ClaimsGrow ==
  ASSUME TypeInv, [Next]_vars
  PROVE  /\ \A r \in Runs : claims[r] \in Nat /\ claims'[r] \in Nat /\ claims[r] <= claims'[r]
         /\ ctl \in Processing => UNCHANGED claims
         /\ ctl \in Processing /\ ctl' \in Processing => cur' = cur
<1>1. claims \in [Runs -> Nat]
  BY DEF TypeInv, TypeOK
<1>2. ASSUME UNCHANGED claims
      PROVE  \A r \in Runs : claims[r] \in Nat /\ claims'[r] \in Nat /\ claims[r] <= claims'[r]
  BY <1>1, <1>2
<1>3. ASSUME NEW r \in Runs, Claim(r), ctl = "fetch"
      PROVE  /\ \A q \in Runs : claims[q] \in Nat /\ claims'[q] \in Nat /\ claims[q] <= claims'[q]
             /\ ctl \notin Processing
  BY <1>1, <1>3 DEF Claim, Processing, Dispatching
<1>4. CASE Fetch
  BY <1>2, <1>3, <1>4 DEF Fetch, FetchNothing, FetchFails, FetchRun, FetchUndecryptable, meshfed,
                          Processing, Dispatching
<1>5. CASE StartDrain \/ DrainLoop \/ StopLoop
  BY <1>2, <1>5, LoopFrame DEF StartDrain, DrainLoop, StopLoop, meshfed
<1>6. CASE Signal \/ Restart \/ Exited \/ UNCHANGED vars
  BY <1>2, <1>6 DEF Signal, Restart, Exited, vars, meshfed, locals, Processing, Dispatching
<1> QED BY <1>2, <1>4, <1>5, <1>6, DispatchFrame, ReportFrame, EnvironmentFrame
     DEF Next, Controller, Processing, Dispatching

\* A job is what it was, but for its state, or new, or gone.
LEMMA JobsChange ==
  ASSUME TypeInv, [Next]_vars, NEW r \in Runs
  PROVE  \/ jobs'[r] = jobs[r]
         \/ jobs'[r] = NoJob
         \/ /\ jobs[r].state \in {"pending", "running"} /\ jobs'[r].state # "none"
            /\ jobs'[r].uid = jobs[r].uid /\ jobs'[r].token = jobs[r].token
         \/ /\ (CreateJob \/ CreateJobLost) /\ r = cur /\ ~JobExists(r) /\ jobs'[r] = NewJob
<1>1. jobs \in [Runs -> [state: {"none", "pending", "running", "finished"},
                        uid: 0..MaxClaims, token: 0..MaxClaims, retried: BOOLEAN]]
  BY DEF TypeInv, TypeOK
<1>2. CASE UNCHANGED jobs
  BY <1>2
<1>3. CASE CreateJob \/ CreateJobLost
  <2>1. cur \in Runs
    BY <1>3 DEF TypeInv, NumbersInv, CreateJob, CreateJobLost, Processing, Dispatching
  <2>2. jobs' = [jobs EXCEPT ![cur] = NewJob] /\ ~JobExists(cur)
    BY <1>3 DEF CreateJob, CreateJobLost
  <2>3. jobs'[cur] = NewJob /\ (r # cur => jobs'[r] = jobs[r])
    BY <1>1, <2>1, <2>2
  <2> QED BY <1>3, <2>2, <2>3
<1>4. ASSUME NEW q \in Runs, PodStarts(q) \/ PodFails(q) \/ JobEnds(q)
      PROVE  \/ jobs'[r] = jobs[r]
             \/ /\ jobs[r].state \in {"pending", "running"} /\ jobs'[r].state # "none"
                /\ jobs'[r].uid = jobs[r].uid /\ jobs'[r].token = jobs[r].token
  BY <1>1, <1>4 DEF PodStarts, PodFails, JobEnds
<1>5. ASSUME NEW q \in Runs, JobExpires(q)
      PROVE  jobs'[r] = jobs[r] \/ jobs'[r] = NoJob
  BY <1>1, <1>5 DEF JobExpires
<1>6. CASE Environment
  BY <1>2, <1>4, <1>5, <1>6 DEF Environment, CollectSecret, OfferAgain, cluster
<1>7. CASE Dispatch
  BY <1>2, <1>3, <1>7 DEF Dispatch, GetJobExists, GetJobMissing, PrepareFails, JsonSecret,
         JsonSecretFails, TokenSecret, NoToken, TokenFails, TokenSecretLost, Warn,
         CreateJobRefused, DropJson, DropToken, DropSecret, OwnJson, OwnToken, cluster
<1> QED BY <1>2, <1>6, <1>7, LoopFrame, ReportFrame
     DEF Next, Controller, Signal, Restart, Exited, vars, cluster

\* The token's name is that of the dispatch.
LEMMA TokenChange ==
  ASSUME TypeInv, DispatchInv, [Next]_vars, token' # 0
  PROVE  /\ ctl' \in {"createJob", "dropJson", "dropToken", "ownJson", "ownToken",
                      "register", "update"}
         /\ token' = claims'[cur']
<1>1. CASE Dispatch
  <2>1. UNCHANGED claims /\ ctl' \in Dispatching \cup {"register", "drain"}
        /\ (ctl' \in Processing => cur' = cur)
    BY <1>1, DispatchFrame
  <2>2. CASE TokenSecret
    BY <2>1, <2>2 DEF TokenSecret, createTokenSecret
  <2>3. CASE token' = token
    <3>1. /\ ctl \in {"createJob", "dropJson", "dropToken", "ownJson", "ownToken",
                      "register", "update"}
          /\ token = claims[cur]
      BY <2>3 DEF DispatchInv
    <3>2. ctl' \in {"createJob", "dropJson", "dropToken", "ownJson", "ownToken", "register"}
      BY <1>1, <2>3, <3>1 DEF Dispatch, GetJobExists, GetJobMissing, PrepareFails, JsonSecret,
         JsonSecretFails, TokenSecret, NoToken, TokenFails, TokenSecretLost, Warn, CreateJob,
         CreateJobLost, CreateJobRefused, DropJson, DropToken, DropSecret, OwnJson, OwnToken,
         RunProcessed, AfterDropJson
    <3> QED BY <2>1, <2>3, <3>1, <3>2 DEF Processing, Dispatching
  <2> QED BY <1>1, <2>2, <2>3
         DEF Dispatch, GetJobExists, GetJobMissing, PrepareFails, JsonSecret,
             JsonSecretFails, NoToken, TokenFails, TokenSecretLost, Warn, CreateJob,
             CreateJobLost, CreateJobRefused, DropJson, DropToken, DropSecret, OwnJson, OwnToken,
             RunProcessed, locals
<1>2. CASE Report
  BY <1>2, ReportFrame DEF DispatchInv
<1>3. CASE Environment
  BY <1>3, EnvironmentFrame DEF DispatchInv
<1>4. CASE StartDrain \/ DrainLoop \/ StopLoop \/ Fetch
  BY <1>4, LoopFrame DEF DispatchInv, Processing, Dispatching
<1>5. CASE Signal \/ Restart \/ Exited \/ UNCHANGED vars
  BY <1>5 DEF Signal, Restart, Exited, vars, locals, meshfed, DispatchInv
<1> QED BY <1>1, <1>2, <1>3, <1>4, <1>5 DEF Next, Controller

\* Every step keeps DispatchInv.
LEMMA DispatchStep ==
  ASSUME TypeInv, DispatchInv, [Next]_vars
  PROVE  DispatchInv'
<1>1. \A t \in secrets' : t.by <= claims'[t.run] /\ t.owner <= claims'[t.run]
  <2> SUFFICES ASSUME NEW t \in secrets'
               PROVE  t.by <= claims'[t.run] /\ t.owner <= claims'[t.run]
    OBVIOUS
  <2>1. t.run \in Runs /\ t.by \in Nat /\ t.owner \in Nat
    <3>1. TypeOK'
      BY TypesStep DEF TypeInv
    <3> QED BY <3>1 DEF TypeOK
  <2>2. /\ claims[t.run] \in Nat /\ claims'[t.run] \in Nat /\ claims[t.run] <= claims'[t.run]
        /\ ctl \in Dispatching => UNCHANGED claims
    BY <2>1, ClaimsGrow DEF Processing
  <2>3. t.by <= claims[t.run] /\ t.owner <= claims[t.run]
    BY <2>1, <2>2, SecretsChange DEF SecretsStep, DispatchInv
  <2> QED BY <2>1, <2>2, <2>3
<1>2. ASSUME NEW r \in Runs
      PROVE  /\ JobExists(r)' => 1 <= jobs'[r].uid /\ jobs'[r].uid <= claims'[r]
             /\ jobs'[r].token \in {0, jobs'[r].uid}
  <2>1. /\ jobs[r].uid \in Nat /\ claims[r] \in Nat /\ claims'[r] \in Nat
        /\ claims[r] <= claims'[r]
    BY ClaimsGrow DEF TypeInv, TypeOK
  <2>2. /\ JobExists(r) => 1 <= jobs[r].uid /\ jobs[r].uid <= claims[r]
        /\ jobs[r].token \in {0, jobs[r].uid}
    BY DEF DispatchInv, MountsOwnToken
  <2>3. CASE jobs'[r] = jobs[r]
    BY <2>1, <2>2, <2>3 DEF JobExists
  <2>4. CASE jobs'[r] = NoJob
    BY <2>4 DEF JobExists, NoJob
  <2>5. CASE /\ jobs[r].state \in {"pending", "running"}
             /\ jobs'[r].uid = jobs[r].uid /\ jobs'[r].token = jobs[r].token
    BY <2>1, <2>2, <2>5 DEF JobExists
  <2>6. CASE (CreateJob \/ CreateJobLost) /\ r = cur /\ jobs'[r] = NewJob
    <3>1. NewJob.uid = claims[r] /\ NewJob.token = token /\ token \in {0, claims[r]}
      BY <2>6 DEF NewJob, DispatchInv
    <3>2. claims[r] >= 1
      BY <2>6 DEF TypeInv, NumbersInv, CreateJob, CreateJobLost, Processing, Dispatching
    <3> QED BY <2>1, <2>6, <3>1, <3>2
  <2> QED BY <2>3, <2>4, <2>5, <2>6, JobsChange
<1>3. \A r \in Runs : /\ JobExists(r)' => 1 <= jobs'[r].uid /\ jobs'[r].uid <= claims'[r]
                      /\ jobs'[r].token \in {0, jobs'[r].uid}
  BY <1>2
<1> QED BY <1>1, <1>3, TokenChange DEF DispatchInv, MountsOwnToken

\* Every step keeps OwnedInv.
LEMMA OwnedStep ==
  ASSUME TypeInv, OwnedInv, DispatchInv, [Next]_vars
  PROVE  OwnedInv'
<1> DEFINE Mine(s) ==
      /\ s.run = cur
      /\ \/ s.kind = "json" /\ ctl \in {"tokenSecret", "warn", "createJob", "dropJson", "ownJson"}
         \/ /\ s.kind = "token" /\ s.by = token
            /\ ctl \in {"createJob", "dropJson", "dropToken", "ownJson", "ownToken"}
<1> SUFFICES ASSUME ~faulty', NEW t \in secrets', t.owner = 0
             PROVE  Mine(t)'
  BY DEF OwnedInv
<1>1. \A s \in secrets : s.owner = 0 => Mine(s)
  BY FaultyStays DEF OwnedInv
<1>2. ctl \in Processing => claims[cur] # 0
  BY DEF TypeInv, TypeOK, NumbersInv
<1>3. t.kind \in {"json", "token"}
  <2>1. TypeOK'
    BY TypesStep DEF TypeInv
  <2> QED BY <2>1 DEF TypeOK
<1>4. CASE Dispatch
  <2>1. ctl \in Processing /\ (ctl' \in Processing => cur' = cur)
    BY <1>4, DispatchFrame DEF Processing
  <2>2. CASE GetJobExists \/ GetJobMissing \/ PrepareFails
    BY <1>1, <2>2 DEF GetJobExists, GetJobMissing, PrepareFails, cluster
  <2>3. CASE JsonSecret
    BY <1>1, <2>3, SecretFacts DEF JsonSecret, locals
  <2>4. CASE JsonSecretFails \/ TokenSecretLost \/ CreateJobLost
    BY <2>4 DEF JsonSecretFails, TokenSecretLost, CreateJobLost
  <2>5. CASE TokenSecret
    BY <1>1, <2>5, SecretFacts DEF TokenSecret
  <2>6. CASE NoToken \/ TokenFails
    BY <1>1, <2>6 DEF NoToken, TokenFails, AfterTokenFails, cluster, locals
  <2>7. CASE Warn
    BY <1>1, <2>7 DEF Warn, cluster, locals
  <2>8. CASE CreateJob \/ CreateJobRefused
    BY <1>1, <2>8 DEF CreateJob, CreateJobRefused, cluster, locals
  <2>9. CASE DropJson
    <3>1. /\ ctl = "dropJson" /\ ctl' = AfterDropJson /\ UNCHANGED <<cur, token>>
          /\ secrets' = secrets \ JsonSecrets(cur)
      BY <2>9 DEF DropJson, DropSecret, locals
    <3>2. t \in secrets /\ t.run = cur /\ t.kind = "token" /\ t.by = token
      BY <1>1, <1>3, <3>1 DEF JsonSecrets
    <3>3. token # 0
      BY <3>2 DEF TypeInv, TypeOK
    <3> QED BY <3>1, <3>2, <3>3 DEF AfterDropJson
  <2>10. CASE DropToken
    <3>1. ctl = "dropToken" /\ secrets' = secrets \ TokenSecrets(cur, token)
      BY <2>10 DEF DropToken, DropSecret
    <3> QED BY <1>1, <3>1 DEF TokenSecrets
  <2>11. CASE OwnJson
    <3>1. ctl = "ownJson" /\ OwnSecret(JsonSecrets(cur)) /\ JsonSecrets(cur) \subseteq secrets
      BY <2>11 DEF OwnJson, JsonSecrets
    <3>2. t \in secrets /\ t \notin JsonSecrets(cur)
      BY <1>2, <2>1, <3>1, OwnSecretFacts
    <3>3. t.run = cur /\ t.kind = "token" /\ t.by = token
      BY <1>1, <3>1, <3>2 DEF JsonSecrets
    <3>4. token # 0
      BY <3>2, <3>3 DEF TypeInv, TypeOK
    <3> QED BY <2>11, <3>3, <3>4 DEF OwnJson, locals
  <2>12. CASE OwnToken
    <3>1. /\ ctl = "ownToken" /\ OwnSecret(TokenSecrets(cur, token))
          /\ TokenSecrets(cur, token) \subseteq secrets
      BY <2>12 DEF OwnToken, TokenSecrets
    <3>2. t \in secrets /\ t \notin TokenSecrets(cur, token)
      BY <1>2, <2>1, <3>1, OwnSecretFacts
    <3> QED BY <1>1, <3>1, <3>2 DEF TokenSecrets
  <2> QED BY <1>4, <2>2, <2>3, <2>4, <2>5, <2>6, <2>7, <2>8, <2>9, <2>10, <2>11, <2>12 DEF Dispatch
<1>5. CASE StartDrain \/ DrainLoop \/ StopLoop \/ Fetch
  BY <1>1, <1>5, LoopFrame DEF Processing, Dispatching
<1>6. CASE Report
  BY <1>1, <1>6, ReportFrame
<1>7. CASE Environment
  <2>1. t \in secrets
    BY <1>7 DEF Environment, CollectSecret, PodStarts, PodFails, JobEnds, JobExpires, OfferAgain,
                cluster
  <2> QED BY <1>1, <1>7, <2>1, EnvironmentFrame
<1>8. CASE Signal \/ Exited \/ UNCHANGED vars
  BY <1>1, <1>8 DEF Signal, Exited, vars, locals, cluster
<1>9. CASE Restart
  BY <1>1, <1>9 DEF Restart, cluster
<1> QED BY <1>4, <1>5, <1>6, <1>7, <1>8, <1>9 DEF Next, Controller

\* Unless a request fails, every secret has an owner between dispatches, however
\* often a run is dispatched and whatever becomes of its job: no run and no token
\* stays in the namespace for ever (CreateRunnerJob, setSecretOwnerReference).
THEOREM SecretsTheorem == Spec => []SecretsAreOwned
<1>1. Init => OwnedInv /\ DispatchInv
  BY DEF Init, OwnedInv, DispatchInv, MountsOwnToken, JobExists, NoJob
<1>2. TypeInv /\ OwnedInv /\ DispatchInv /\ [Next]_vars => OwnedInv' /\ DispatchInv'
  BY OwnedStep, DispatchStep
<1>3. OwnedInv => SecretsAreOwned
  BY DEF OwnedInv, SecretsAreOwned, Dispatching
<1> QED BY <1>1, <1>2, <1>3, TypesHold, PTL DEF Spec

\* Every step keeps ToldInv.
LEMMA ToldStep ==
  ASSUME TypeInv, ToldInv, [Next]_vars
  PROVE  ToldInv'
<1>1. faulty => faulty'
  BY FaultyStays
<1>2. warned \subseteq warned'
  BY LoopFrame, ReportFrame, EnvironmentFrame
     DEF Next, Controller, Dispatch, GetJobExists, GetJobMissing, PrepareFails, JsonSecret,
         JsonSecretFails, TokenSecret, NoToken, TokenFails, TokenSecretLost, Warn, CreateJob,
         CreateJobRefused, CreateJobLost, DropJson, DropToken, DropSecret, OwnJson, OwnToken,
         Signal, Restart, Exited, vars, meshfed
<1>3. ASSUME ~faulty', ctl' = "createJob", cur' \in Federated
      PROVE  token' # 0 \/ cur' \in warned'
  <2>1. CASE Dispatch
    <3>1. CASE TokenSecret
      <4>1. token' = claims[cur]
        BY <3>1 DEF TokenSecret, createTokenSecret
      <4>2. claims[cur] # 0
        BY <3>1 DEF TokenSecret, TypeInv, TypeOK, NumbersInv, Processing, Dispatching
      <4> QED BY <4>1, <4>2
    <3>2. CASE NoToken
      BY <1>3, <3>2 DEF NoToken, locals
    <3>3. CASE Warn
      BY <1>3, <3>3 DEF Warn, locals
    <3> QED BY <1>3, <2>1, <3>1, <3>2, <3>3
         DEF Dispatch, GetJobExists, GetJobMissing, PrepareFails, JsonSecret, JsonSecretFails,
             TokenFails, TokenSecretLost, CreateJob, CreateJobRefused, CreateJobLost, DropJson,
             DropToken, DropSecret, OwnJson, OwnToken, RunProcessed, AfterTokenFails, AfterDropJson
  <2>2. CASE UNCHANGED <<ctl, cur, token, warned>>
    BY <1>1, <1>3, <2>2 DEF ToldInv
  <2>3. CASE StartDrain \/ DrainLoop \/ StopLoop \/ Fetch
    BY <1>3, <2>3 DEF StartDrain, DrainLoop, StopLoop, Fetch, FetchNothing, FetchFails, FetchRun,
                      FetchUndecryptable, EndDrain
  <2> QED BY <1>3, <2>1, <2>2, <2>3, ReportFrame, EnvironmentFrame
       DEF Next, Controller, Signal, Restart, Exited, vars, locals, meshfed
<1>4. ASSUME ~faulty', NEW r \in Federated, JobExists(r)'
      PROVE  jobs'[r].token # 0 \/ r \in warned'
  <2>1. r \in Runs
    BY RunsAssumption
  <2>2. CASE jobs'[r] = jobs[r] \/ (jobs[r].state \in {"pending", "running"}
                                      /\ jobs'[r].token = jobs[r].token)
    <3>1. JobExists(r)
      BY <1>4, <2>2 DEF JobExists
    <3>2. jobs[r].token # 0 \/ r \in warned
      BY <1>1, <1>4, <3>1 DEF ToldInv, MissingTokenIsTold
    <3> QED BY <1>2, <2>2, <3>2
  <2>3. CASE jobs'[r] = NoJob
    BY <1>4, <2>3 DEF JobExists, NoJob
  <2>4. CASE (CreateJob \/ CreateJobLost) /\ r = cur /\ jobs'[r] = NewJob
    <3>1. token # 0 \/ cur \in warned
      BY <1>1, <1>4, <2>4 DEF ToldInv, CreateJob, CreateJobLost
    <3> QED BY <1>2, <2>4, <3>1 DEF NewJob
  <2> QED BY <2>1, <2>2, <2>3, <2>4, JobsChange
<1> QED BY <1>3, <1>4 DEF ToldInv, MissingTokenIsTold

\* Unless a request fails, nothing takes a secret from the job of a run that was
\* claimed once: no dispatch deletes it, and its owner is there.
LEMMA SecretsKept ==
  ASSUME TypeInv, FailedInv, DispatchInv, [Next]_vars, ~faulty',
         NEW r \in Runs, claims[r] = 1, JobExists(r), NEW s \in secrets, s.run = r
  PROVE  \E t \in secrets' : s.kind = t.kind /\ s.run = t.run /\ s.by = t.by
<1>1. CASE secrets \subseteq secrets'
  BY <1>1
<1>2. ctl \in Jobless => cur # r
  BY FaultyStays DEF FailedInv
<1>3. CASE DropJson \/ DropToken
  <2>1. cur # r
    BY <1>2, <1>3 DEF DropJson, DropToken, DropSecret, Jobless
  <2> QED BY <1>3, <2>1 DEF DropJson, DropToken, DropSecret, JsonSecrets, TokenSecrets
<1>4. CASE OwnJson \/ OwnToken
  BY <1>4, OwnSecretFacts DEF OwnJson, OwnToken, JsonSecrets, TokenSecrets
<1>5. CASE CollectSecret
  <2>1. jobs[r].uid = 1
    BY DEF DispatchInv, TypeInv, TypeOK
  <2>2. s.owner \in {0, 1}
    <3>1. s.owner \in Nat /\ s.owner <= 1
      BY DEF DispatchInv, TypeInv, TypeOK
    <3> QED BY <3>1
  <2> QED BY <1>5, <2>1, <2>2 DEF CollectSecret
<1> QED BY <1>1, <1>3, <1>4, <1>5, LoopFrame, ReportFrame
     DEF Next, Controller, Dispatch, Environment, GetJobExists, GetJobMissing, PrepareFails,
         JsonSecret, JsonSecretFails, TokenSecret, TokenSecretLost, NoToken, TokenFails, Warn,
         CreateJob, CreateJobRefused, CreateJobLost, PodStarts, PodFails, JobEnds, JobExpires,
         OfferAgain, Signal, Restart, Exited, vars, cluster

\* The first dispatch of a run is its first to make secrets.
LEMMA FirstStep ==
  ASSUME TypeInv, DispatchInv, StartInv, [Next]_vars, claims'[cur'] = 1,
         ctl' \in {"getJob", "jsonSecret"}
  PROVE  \A s \in secrets' : s.run # cur'
<1>1. ASSUME NEW r \in Runs, FetchRun(r)
      PROVE  \A s \in secrets' : s.run # cur'
  <2>1. cur' = r /\ claims' = [claims EXCEPT ![r] = @ + 1] /\ UNCHANGED secrets
    BY <1>1 DEF FetchRun, Claim, cluster
  <2>2. claims[r] = 0
    BY <2>1 DEF TypeInv, TypeOK
  <2>3. \A s \in secrets : s.by \in Nat \ {0} /\ s.by <= claims[s.run]
    BY DEF DispatchInv, TypeInv, TypeOK
  <2> QED BY <2>1, <2>2, <2>3
<1>2. CASE GetJobMissing
  BY <1>2 DEF GetJobMissing, StartInv, locals, meshfed, cluster
<1>3. CASE UNCHANGED <<ctl, cur, claims>> /\ secrets' \subseteq secrets
  BY <1>3 DEF StartInv
<1>4. CASE Environment
  BY <1>3, <1>4, EnvironmentFrame DEF Environment, CollectSecret, PodStarts, PodFails, JobEnds,
     JobExpires, OfferAgain, cluster
<1>5. CASE Dispatch
  BY <1>2, <1>5
     DEF Dispatch, GetJobExists, PrepareFails, JsonSecret, JsonSecretFails, TokenSecret, NoToken,
         TokenFails, TokenSecretLost, Warn, CreateJob, CreateJobRefused, CreateJobLost, DropJson,
         DropToken, DropSecret, OwnJson, OwnToken, RunProcessed, AfterTokenFails, AfterDropJson
<1>6. CASE StartDrain \/ DrainLoop \/ StopLoop \/ Fetch
  BY <1>1, <1>6 DEF StartDrain, DrainLoop, StopLoop, Fetch, FetchNothing, FetchFails,
     FetchUndecryptable, EndDrain
<1>7. CASE Signal \/ Restart \/ Exited \/ UNCHANGED vars
  BY <1>3, <1>7 DEF Signal, Restart, Exited, vars, locals, meshfed, cluster
<1> QED BY <1>4, <1>5, <1>6, <1>7, ReportFrame DEF Next, Controller

\* It makes the secrets that its job mounts.
LEMMA MadeStep ==
  ASSUME TypeInv, DispatchInv, StartInv, [Next]_vars, claims'[cur'] = 1,
         ctl' \in {"tokenSecret", "warn", "createJob"}
  PROVE  /\ \A s \in secrets' : s.run = cur' => s.owner = 0
         /\ JsonSecrets(cur)' # {}
         /\ token' # 0 => TokenSecrets(cur, token)' # {}
<1>1. ASSUME ctl \in {"tokenSecret", "warn", "createJob"}, claims[cur] = 1
      PROVE  /\ \A s \in secrets : s.run = cur => s.owner = 0
             /\ JsonSecrets(cur) # {}
             /\ token # 0 => TokenSecrets(cur, token) # {}
  BY <1>1 DEF StartInv
<1> USE DEF JsonSecrets, TokenSecrets
<1>2. CASE JsonSecret
  <2>1. ctl = "jsonSecret" /\ UNCHANGED <<cur, claims, token>>
    BY <1>2 DEF JsonSecret, locals, meshfed
  <2>2. \A s \in secrets : s.run # cur
    BY <2>1 DEF StartInv
  <2>3. token = 0
    BY <2>1 DEF DispatchInv
  <2>4. secrets' = secrets \cup {Secret("json", cur, claims[cur])}
    BY <1>2, <2>2 DEF JsonSecret
  <2> QED BY <2>1, <2>2, <2>3, <2>4, SecretFacts
<1>3. CASE TokenSecret
  <2>1. ctl = "tokenSecret" /\ UNCHANGED <<cur, claims>>
    BY <1>3 DEF TokenSecret, meshfed
  <2>2. \/ secrets' = secrets /\ TokenSecrets(cur, token') # {}
        \/ secrets' = secrets \cup {Secret("token", cur, token')}
    BY <1>3 DEF TokenSecret
  <2> QED BY <1>1, <2>1, <2>2, SecretFacts
<1>4. CASE TokenSecretLost
  <2>1. ctl = "tokenSecret" /\ UNCHANGED <<cur, claims, token>>
    BY <1>4 DEF TokenSecretLost, meshfed, locals
  <2>2. secrets' = secrets \cup {Secret("token", cur, claims[cur])}
    BY <1>4 DEF TokenSecretLost
  <2> QED BY <1>1, <2>1, <2>2, SecretFacts
<1>5. CASE /\ UNCHANGED <<cur, claims, token, secrets>>
           /\ ctl \in {"tokenSecret", "warn", "createJob"}
  BY <1>1, <1>5
<1>6. CASE CollectSecret
  <2>1. UNCHANGED <<ctl, cur, claims, token>>
    BY <1>6 DEF CollectSecret, meshfed, locals
  <2>2. PICK s \in secrets : s.owner # 0 /\ secrets' = secrets \ {s}
    BY <1>6 DEF CollectSecret
  <2> QED BY <1>1, <2>1, <2>2
<1>7. CASE Dispatch
  BY <1>2, <1>3, <1>4, <1>5, <1>7
     DEF Dispatch, GetJobExists, GetJobMissing, PrepareFails, JsonSecretFails, NoToken,
         TokenFails, Warn, CreateJob, CreateJobRefused, CreateJobLost, DropJson, locals, meshfed,
         cluster, DropToken, DropSecret, OwnJson, OwnToken, RunProcessed, AfterTokenFails,
         AfterDropJson
<1>8. CASE Environment
  BY <1>5, <1>6, <1>8, EnvironmentFrame
     DEF Environment, PodStarts, PodFails, JobEnds, JobExpires, OfferAgain, cluster
<1>9. CASE StartDrain \/ DrainLoop \/ StopLoop \/ Fetch
  BY <1>9 DEF StartDrain, DrainLoop, StopLoop, Fetch, FetchNothing, FetchFails,
     FetchRun, FetchUndecryptable, EndDrain
<1>10. CASE Signal \/ Restart \/ Exited \/ UNCHANGED vars
  BY <1>5, <1>10 DEF Signal, Restart, Exited, vars, locals, meshfed, cluster
<1> QED BY <1>7, <1>8, <1>9, <1>10, ReportFrame DEF Next, Controller

\* Every step keeps StartInv.
LEMMA StartStep ==
  ASSUME TypeInv, FailedInv, DispatchInv, StartInv, [Next]_vars
  PROVE  StartInv'
<1>1. ASSUME ~faulty', NEW r \in ActiveJobs', claims'[r] = 1
      PROVE  /\ JsonSecrets(r)' # {}
             /\ jobs'[r].token # 0 => TokenSecrets(r, jobs[r].token)' # {}
  <2>1. r \in Runs /\ jobs'[r].state \in {"pending", "running"} /\ ~faulty
    BY <1>1, FaultyStays DEF ActiveJobs
  <2>2. CASE \/ jobs'[r] = jobs[r]
             \/ /\ jobs[r].state \in {"pending", "running"}
                /\ jobs'[r].uid = jobs[r].uid /\ jobs'[r].token = jobs[r].token
    <3>1. r \in ActiveJobs /\ JobExists(r) /\ jobs'[r].token = jobs[r].token
      BY <2>1, <2>2 DEF ActiveJobs, JobExists
    <3>2. claims[r] = 1
      <4>1. 1 <= jobs[r].uid /\ jobs[r].uid <= claims[r] /\ jobs[r].uid \in Nat
        BY <2>1, <3>1 DEF DispatchInv, TypeInv, TypeOK
      <4>2. claims[r] \in Nat /\ claims[r] <= 1
        BY <1>1, <2>1, ClaimsGrow
      <4> QED BY <4>1, <4>2
    <3>3. /\ JsonSecrets(r) # {}
          /\ jobs[r].token # 0 => TokenSecrets(r, jobs[r].token) # {}
      BY <2>1, <3>1, <3>2 DEF StartInv, JobsCanStart
    <3>4. \A s \in secrets : s.run = r =>
            \E t \in secrets' : s.kind = t.kind /\ s.run = t.run /\ s.by = t.by
      BY <1>1, <2>1, <3>1, <3>2, SecretsKept
    <3> QED BY <3>1, <3>3, <3>4 DEF JsonSecrets, TokenSecrets
  <2>3. CASE jobs'[r] = NoJob
    BY <2>1, <2>3 DEF NoJob
  <2>4. CASE (CreateJob \/ CreateJobLost) /\ r = cur /\ jobs'[r] = NewJob
    <3>1. ctl = "createJob" /\ UNCHANGED <<claims, secrets>> /\ NewJob.token = token
      BY <2>4 DEF CreateJob, CreateJobLost, NewJob, meshfed
    <3>2. JsonSecrets(cur) # {} /\ (token # 0 => TokenSecrets(cur, token) # {})
      BY <1>1, <2>4, <3>1 DEF StartInv
    <3> QED BY <2>4, <3>1, <3>2 DEF JsonSecrets, TokenSecrets
  <2> QED BY <2>1, <2>2, <2>3, <2>4, JobsChange
<1>2. JobsCanStart'
  BY <1>1 DEF JobsCanStart
<1> QED BY <1>2, FirstStep, MadeStep DEF StartInv

\* A job mounts the token of its own dispatch; unless a request fails, the pod of
\* a run that was claimed once finds its secrets, and a run that goes without its
\* token is told: for any number of runs and dispatches (createTokenSecret,
\* ReportWifTokenMissing, CreateRunnerJob).
THEOREM PodsTheorem == Spec => []PodsGetTheirSecrets
<1>1. Init => FailedInv /\ DispatchInv /\ ToldInv /\ StartInv
  <2> SUFFICES ASSUME Init PROVE FailedInv /\ DispatchInv /\ ToldInv /\ StartInv
    OBVIOUS
  <2>1. \A r \in Runs : ~JobExists(r) /\ jobs[r].token = 0
    BY DEF Init, JobExists, NoJob
  <2> USE <2>1, RunsAssumption
  <2>2. FailedInv
    BY DEF Init, FailedInv, Processing, Dispatching, Jobless
  <2>3. DispatchInv
    BY DEF Init, DispatchInv, MountsOwnToken
  <2>4. ToldInv
    BY DEF Init, ToldInv, MissingTokenIsTold
  <2>5. StartInv
    BY DEF Init, StartInv, JobsCanStart, ActiveJobs, JobExists
  <2> QED BY <2>2, <2>3, <2>4, <2>5
<1>2. TypeInv /\ FailedInv /\ DispatchInv /\ ToldInv /\ StartInv /\ [Next]_vars
        => FailedInv' /\ DispatchInv' /\ ToldInv' /\ StartInv'
  BY FailedStep, DispatchStep, ToldStep, StartStep
<1>3. DispatchInv /\ ToldInv /\ StartInv => PodsGetTheirSecrets
  BY DEF DispatchInv, ToldInv, StartInv, PodsGetTheirSecrets
<1> QED BY <1>1, <1>2, <1>3, TypesHold, PTL DEF Spec
============================================================================
