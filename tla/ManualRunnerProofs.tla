------------------------ MODULE ManualRunnerProofs -------------------------
(***************************************************************************)
(* Proofs about ManualRunner: for any set of runs, any lifetimes of tokens *)
(* and any timeout within the buffer, tokens are valid when they are used, *)
(* and every claimed run is reported with the values it was given.         *)
(***************************************************************************)
EXTENDS ManualRunner, TLAPS

\* The type invariant with the places at which there is a run.
TypeInv ==
  /\ TypeOK
  /\ pc \in {"register", "patch"} => cur \in Runs
  /\ ~Polls => /\ pc \in {"register", "patch", "exited", "failed"}
               /\ pc \in {"register", "patch"} => cur = file

-----------------------------------------------------------------------------
(* Types.                                                                  *)

\* A lifetime less the buffer is a time.
LEMMA ExpiryNat == ASSUME NEW e \in Nat PROVE Expiry(e) \in Nat
  BY TimesAssumption DEF Expiry

\* Time passes in steps of one and stops at 0.
LEMMA DecrementNat ==
  ASSUME NEW n \in Nat
  PROVE  Decrement(n) \in Nat /\ Decrement(n) <= n /\ n <= Decrement(n) + 1
  BY DEF Decrement

\* What a run reports is an output.
LEMMA OutputType ==
  ASSUME NEW r \in Runs, input \in [Runs -> Values]
  PROVE  parseRun(RunJson(r)) \in Outputs /\ 0 \in Outputs
<1>1. input[r] \in Values
  OBVIOUS
<1>2. QED
  BY <1>1 DEF parseRun, RunJson, Outputs

\* The process starts well-typed.
LEMMA TypeInit == Init => TypeInv
<1> SUFFICES ASSUME Init PROVE TypeInv
  OBVIOUS
<1>1. stopping \in BOOLEAN /\ revoked \in BOOLEAN /\ faulty \in BOOLEAN
  BY Zenon DEF Init
<1>2. output \in [Runs -> Outputs]
  <2>1. 0 \in Outputs
    BY DEF Outputs
  <2>2. QED
    BY <2>1 DEF Init
<1>3. QED
  BY <1>1, <1>2, RunsAssumption, TimesAssumption, BoundsAssumption
     DEF Init, TypeInv, TypeOK, Start, Polls, Requests

\* meshStack takes a report.
LEMMA TypeTake ==
  ASSUME TypeInv, pc = "patch", TakeStatus
  PROVE  /\ mesh' \in [Runs -> {"offered", "claimed", "SUCCEEDED"}]
         /\ input' \in [Runs -> Values]
         /\ output' \in [Runs -> Outputs]
  BY OutputType DEF TypeInv, TypeOK, TakeStatus

\* Requests and what the client does with their answers keep the types.
LEMMA TypeRequests == ASSUME TypeInv, Client \/ Answers \/ Fails PROVE TypeInv'
<1> USE RunsAssumption, TimesAssumption
    DEF TypeInv, TypeOK, Requests, auth, meshfed, Idle, Send, Polls
<1>1. CASE PollerReturns \/ FetchNext \/ WaitEnds
  BY <1>1 DEF PollerReturns, FetchNext, WaitEnds
<1>2. CASE FileRefused \/ RegisterSource
  BY <1>2 DEF FileRefused, RegisterSource, Fail
<1>3. CASE Issue
  BY <1>3 DEF Issue
<1>4. CASE fetchToken
  <2>1. Expiry(life) \in Nat
    BY ExpiryNat
  <2>2. QED
    BY <1>4, <2>1 DEF fetchToken
<1>5. CASE LoginFails
  BY <1>5 DEF LoginFails
<1>6. CASE FetchRefused \/ FetchNothing
  BY <1>6 DEF FetchRefused, FetchNothing
<1>7. CASE FetchFails
  BY <1>7 DEF FetchFails, Claim
<1>8. ASSUME NEW r \in Runs, FetchRun(r) PROVE TypeInv'
  BY <1>8 DEF FetchRun, Claim
<1>9. CASE PatchStatus
  BY <1>9, TypeTake DEF PatchStatus, Done
<1>10. CASE RequestFails
  BY <1>10, TypeTake DEF RequestFails, Fail
<1>11. CASE Cancel
  BY <1>11, TypeTake DEF Cancel, Fail
<1>12. QED
  BY <1>1, <1>2, <1>3, <1>4, <1>5, <1>6, <1>7, <1>8, <1>9, <1>10, <1>11
     DEF Client, Answers, Fails

\* So do time, signals and restarts.
LEMMA TypeOthers ==
  ASSUME TypeInv, Tick \/ Revoke \/ Signal \/ HealthServerStops \/ Restart
  PROVE  TypeInv'
<1> USE RunsAssumption, TimesAssumption, BoundsAssumption
    DEF TypeInv, TypeOK, Requests, auth, meshfed, Idle, Polls
<1>1. CASE Tick
  <2>1. left' \in Nat /\ valid' \in Nat
    BY <1>1, DecrementNat DEF Tick
  <2>2. age' \in 0..Timeout
    BY <1>1 DEF Tick
  <2>3. QED
    BY <1>1, <2>1, <2>2 DEF Tick
<1>2. CASE Revoke
  BY <1>2 DEF Revoke
<1>3. CASE Signal
  BY <1>3 DEF Signal
<1>4. CASE HealthServerStops
  BY <1>4 DEF HealthServerStops
<1>5. CASE Restart
  <2>1. restarts' \in 0..MaxRestarts /\ age' \in 0..Timeout /\ left' \in Nat
    BY <1>5 DEF Restart
  <2>2. UNCHANGED <<file, valid, life, revocations, revoked, mesh, input, output, faulty>>
        /\ header' = "none" /\ cur' = file
    BY <1>5 DEF Restart
  <2>3. stopping' \in BOOLEAN
    BY <1>5, Zenon DEF Restart
  <2>4. pc' = IF file = NoRun THEN "loop" ELSE "register"
    BY <1>5 DEF Restart, Start
  <2>5. QED
    BY <2>1, <2>2, <2>3, <2>4
<1>6. QED
  BY <1>1, <1>2, <1>3, <1>4, <1>5

\* Every step keeps them.
LEMMA TypeNext == TypeInv /\ [Next]_vars => TypeInv'
<1>1. TypeInv /\ UNCHANGED vars => TypeInv'
  BY DEF TypeInv, TypeOK, vars, auth, meshfed, Polls
<1>2. QED
  BY <1>1, TypeRequests, TypeOthers DEF Next

\* The process is always in one of its states.
THEOREM TypeCorrect == Spec => []TypeInv
  BY TypeInit, TypeNext, PTL DEF Spec

-----------------------------------------------------------------------------
(* Tokens.                                                                 *)

\* The inductive invariant of the cached token.  An issued token is as old as
\* the login at most; the cached one is not believed to live longer than it
\* does, which the buffer pays for.
TokenInv ==
  /\ pc \in {"login", "issued"} => header = "none" /\ left = 0
  /\ pc = "issued" /\ ~revoked => life <= valid + age
  /\ left > 0 => revoked \/ life <= tokenExpiryBuffer \/ left <= valid

\* The inequality behind it: what is left after the buffer is left in fact.
LEMMA BufferPays ==
  ASSUME TypeInv, TokenInv, pc = "issued", ~revoked, life > tokenExpiryBuffer
  PROVE  Expiry(life) <= valid /\ valid > 0
  BY TimesAssumption DEF TypeInv, TypeOK, TokenInv, Expiry

\* Every step keeps it.
LEMMA TokenNext == TypeInv /\ TokenInv /\ [Next]_vars => TokenInv'
<1> SUFFICES ASSUME TypeInv, TokenInv, [Next]_vars PROVE TokenInv'
  OBVIOUS
<1> USE TimesAssumption DEF TokenInv, auth, Idle, Send
<1>0. left \in Nat /\ valid \in Nat /\ age \in 0..Timeout /\ life \in Nat
  BY DEF TypeInv, TypeOK
<1>1. CASE PollerReturns \/ WaitEnds \/ FileRefused \/ Cancel
  BY <1>1 DEF PollerReturns, WaitEnds, FileRefused, Cancel, Fail
<1>2. CASE FetchNext
  BY <1>0, <1>2 DEF FetchNext, Cached
<1>3. CASE Issue
  BY <1>0, <1>3 DEF Issue
<1>4. CASE fetchToken
  BY <1>4, BufferPays DEF fetchToken, TypeInv, TypeOK
<1>5. CASE Fails
  BY <1>5 DEF Fails, LoginFails, FetchFails, RequestFails, Fail
<1>6. CASE FetchRefused \/ FetchNothing \/ RegisterSource \/ PatchStatus
  BY <1>6 DEF FetchRefused, FetchNothing, RegisterSource, PatchStatus, Done
<1>7. ASSUME NEW r \in Runs, FetchRun(r) PROVE TokenInv'
  BY <1>7 DEF FetchRun
<1>8. CASE Tick
  <2>1. /\ UNCHANGED <<pc, header, life, revoked>>
        /\ left' = (IF left > 0 THEN left - 1 ELSE 0)
        /\ valid' = (IF valid > 0 THEN valid - 1 ELSE 0)
        /\ pc = "issued" => age' = age + 1
    BY <1>0, <1>8 DEF Tick, TimedOut, Requests, Decrement
  <2>2. QED
    BY <1>0, <2>1
<1>9. CASE Revoke \/ Signal \/ HealthServerStops
  BY <1>9 DEF Revoke, Signal, HealthServerStops
<1>10. CASE Restart
  BY <1>10 DEF Restart, Start
<1>11. CASE UNCHANGED vars
  BY <1>11 DEF vars
<1>12. QED
  BY <1>1, <1>2, <1>3, <1>4, <1>5, <1>6, <1>7, <1>8, <1>9, <1>10, <1>11
     DEF Next, Client, Answers

\* A fetch is sent with a token that is valid (ApiKeyAuth), for all lifetimes
\* and every timeout within tokenExpiryBuffer.
THEOREM SentWhileValidTheorem == Spec => SentWhileValid
<1> DEFINE Sent == pc # "fetch" /\ pc' = "fetch" /\ header' = "token" =>
                     valid > 0 \/ revoked \/ life <= tokenExpiryBuffer
<1>1. Init => TokenInv
  BY DEF Init, TokenInv, Start, Polls
<1>2. TypeInv /\ TokenInv /\ [Next]_vars => Sent
  <2> SUFFICES ASSUME TypeInv, TokenInv, [Next]_vars,
                      pc # "fetch", pc' = "fetch", header' = "token"
               PROVE  valid > 0 \/ revoked \/ life <= tokenExpiryBuffer
    OBVIOUS
  <2>1. FetchNext \/ fetchToken \/ LoginFails
    BY DEF Next, Client, PollerReturns, WaitEnds, FileRefused, Cancel, Answers, Issue,
       FetchRefused, FetchNothing, FetchRun, RegisterSource, PatchStatus, Fails, FetchFails,
       RequestFails, Tick, Revoke, Signal, HealthServerStops, Restart, Start, Idle, Send,
       Done, Fail, vars
  <2>2. CASE FetchNext
    BY <2>2 DEF FetchNext, Cached, Send, TokenInv, TypeInv, TypeOK
  <2>3. CASE fetchToken
    <3>1. life > tokenExpiryBuffer \/ life <= tokenExpiryBuffer
      BY TimesAssumption DEF TypeInv, TypeOK
    <3>2. QED
      BY <2>3, <3>1, BufferPays DEF fetchToken
  <2>4. CASE LoginFails
    BY <2>4 DEF LoginFails, TokenInv, auth
  <2>5. QED
    BY <2>1, <2>2, <2>3, <2>4
<1>3. QED
  <2>1. Spec => []TokenInv
    BY <1>1, TokenNext, TypeCorrect, PTL DEF Spec
  <2>2. TypeInv /\ TokenInv /\ [Next]_vars => [Sent]_vars
    BY <1>2
  <2>3. QED
    BY <2>1, <2>2, TypeCorrect, PTL DEF Spec, SentWhileValid

-----------------------------------------------------------------------------
(* Reports.                                                                *)

\* The inductive invariant of the reports: unless a request failed, a claimed
\* run is refused, at hand, or the run of a file whose process is to be started
\* again.  A poller fails only together with its health server.
ClaimInv ==
  /\ pc = "failed" /\ Polls => faulty
  /\ ~faulty => \A r \in Runs : mesh[r] = "claimed" =>
       \/ r \in Undoable
       \/ pc \in {"register", "patch"} /\ cur = r
       \/ pc = "failed" /\ ~Polls /\ r = file

\* What is reported of a run is its input, as far as it is exact.
LEMMA ReportedInput ==
  ASSUME NEW r \in Runs
  PROVE  parseRun(RunJson(r)) = input[r] \/ (~Polls /\ input[r] > 2^Precision)
<1>1. ~(input[r] > 2^Precision) => Float64(input[r]) = input[r]
  BY DEF Float64
<1>2. QED
  BY <1>1 DEF parseRun, RunJson

\* A report makes the run at hand SUCCEEDED, with its input.
LEMMA TakeKeeps ==
  ASSUME TypeInv, IntegersComeBack, pc = "patch", TakeStatus, UNCHANGED file
  PROVE  /\ IntegersComeBack'
         /\ mesh' = [mesh EXCEPT ![cur] = "SUCCEEDED"]
<1>1. cur \in Runs /\ mesh \in [Runs -> {"offered", "claimed", "SUCCEEDED"}]
      /\ output \in [Runs -> Outputs]
  BY DEF TypeInv, TypeOK
<1>2. /\ mesh' = [mesh EXCEPT ![cur] = "SUCCEEDED"] /\ input' = input
      /\ output' = [output EXCEPT ![cur] = parseRun(RunJson(cur))]
  BY DEF TakeStatus
<1>3. output'[cur] = input[cur] \/ (~Polls /\ input[cur] > 2^Precision)
  BY <1>1, <1>2, ReportedInput
<1>4. ASSUME NEW r \in Runs, mesh'[r] = "SUCCEEDED"
      PROVE  output'[r] = input'[r] \/ (~Polls' /\ input'[r] > 2^Precision)
  <2>1. CASE r = cur
    BY <1>2, <1>3, <2>1 DEF Polls
  <2>2. CASE r # cur
    BY <1>1, <1>2, <1>4, <2>2 DEF Polls, IntegersComeBack
  <2>3. QED
    BY <2>1, <2>2
<1>5. QED
  BY <1>2, <1>4 DEF IntegersComeBack

\* Every step keeps the values.
LEMMA IntegersNext ==
  TypeInv /\ IntegersComeBack /\ [Next]_vars => IntegersComeBack'
<1> SUFFICES ASSUME TypeInv, IntegersComeBack, [Next]_vars PROVE IntegersComeBack'
  OBVIOUS
<1>1. CASE UNCHANGED <<file, meshfed>>
  BY <1>1 DEF IntegersComeBack, meshfed, Polls
<1>2. ASSUME NEW r \in Runs, Claim(r), UNCHANGED file PROVE IntegersComeBack'
  BY <1>2 DEF Claim, IntegersComeBack, Polls, TypeInv, TypeOK
<1>3. CASE pc = "patch" /\ TakeStatus /\ UNCHANGED file
  BY <1>3, TakeKeeps
<1>4. \/ UNCHANGED <<file, meshfed>>
      \/ \E r \in Runs : Claim(r) /\ UNCHANGED file
      \/ pc = "patch" /\ TakeStatus /\ UNCHANGED file
  <2>1. CASE Client
    BY <2>1 DEF Client, PollerReturns, FetchNext, WaitEnds, FileRefused, Cancel
  <2>2. CASE Answers
    BY <2>2 DEF Answers, Issue, fetchToken, FetchRefused, FetchNothing, FetchRun,
       RegisterSource, PatchStatus
  <2>3. CASE Fails
    BY <2>3 DEF Fails, LoginFails, FetchFails, RequestFails
  <2>4. CASE Tick \/ Revoke \/ Signal \/ HealthServerStops \/ Restart \/ UNCHANGED vars
    BY <2>4 DEF Tick, Revoke, Signal, HealthServerStops, Restart, vars
  <2>5. QED
    BY <2>1, <2>2, <2>3, <2>4 DEF Next
<1>5. QED
  BY <1>1, <1>2, <1>3, <1>4

\* Every step keeps the claims.
LEMMA ClaimNext == TypeInv /\ ClaimInv /\ [Next]_vars => ClaimInv'
<1> SUFFICES ASSUME TypeInv, ClaimInv, [Next]_vars PROVE ClaimInv'
  OBVIOUS
<1> USE RunsAssumption DEF TypeInv, ClaimInv, meshfed, Idle, Send, Polls
<1>1. CASE PollerReturns \/ FetchNext \/ WaitEnds \/ FileRefused
  BY <1>1 DEF PollerReturns, FetchNext, WaitEnds, FileRefused, Fail
<1>2. CASE Cancel
  BY <1>2 DEF Cancel, Cancelled, Fail, TakeStatus, TypeOK
<1>3. CASE Issue \/ fetchToken \/ FetchRefused \/ FetchNothing \/ RegisterSource
  BY <1>3 DEF Issue, fetchToken, FetchRefused, FetchNothing, RegisterSource
<1>4. ASSUME NEW r \in Runs, FetchRun(r) PROVE ClaimInv'
  BY <1>4 DEF FetchRun, Claim, TypeOK
<1>5. CASE PatchStatus
  BY <1>5 DEF PatchStatus, TakeStatus, Done, TypeOK
<1>6. CASE Fails
  BY <1>6 DEF Fails, LoginFails, FetchFails, RequestFails, Fail
<1>7. CASE Tick \/ Revoke \/ Signal \/ HealthServerStops
  BY <1>7 DEF Tick, Revoke, Signal, HealthServerStops
<1>8. CASE Restart
  BY <1>8 DEF Restart, Start
<1>9. CASE UNCHANGED vars
  BY <1>9 DEF vars
<1>10. QED
  BY <1>1, <1>2, <1>3, <1>4, <1>5, <1>6, <1>7, <1>8, <1>9 DEF Next, Client, Answers

\* A claimed run is reported, also during a stop, and integers come back as they
\* went (poll.go, run.go), for any set of runs and values.
THEOREM ReportsTheorem == Spec => []ReportsSound
<1>1. Init => ClaimInv /\ IntegersComeBack
  BY RunsAssumption DEF Init, ClaimInv, IntegersComeBack, Start, Polls
<1>2. TypeInv /\ ClaimInv /\ IntegersComeBack => ReportsSound
  BY DEF TypeInv, ClaimInv, ReportsSound, ClaimedIsReported
<1>3. QED
  BY <1>1, <1>2, ClaimNext, IntegersNext, TypeCorrect, PTL DEF Spec
=============================================================================
