---------------------------- MODULE ManualRunner ----------------------------
(***************************************************************************)
(* manual-block-runner: it claims runs at meshStack, or gets one in a file *)
(* from run-controller, and reports each as SUCCEEDED with its inputs as   *)
(* outputs.  Requests that claim carry the API token that ApiKeyAuth       *)
(* caches; basic authentication, the alternative, has no state.            *)
(*                                                                         *)
(* Time is relative: what is left until something expires, and how long    *)
(* the current request has taken.  A request takes any time up to the      *)
(* timeout of its client, may fail, and may have had its effect although   *)
(* it failed.  meshStack is external.                                      *)
(***************************************************************************)
EXTENDS Integers, FiniteSets

CONSTANTS
  Runs,               \* the runs meshStack offers
  NoRun,              \* no run
  Undoable,           \* runs that parseRun or sourceURLs refuses
  Values,             \* the integer inputs of runs
  Precision,          \* bits of the mantissa of a float64
  Lifetimes,          \* expires_in, as meshStack may choose it
  tokenExpiryBuffer,
  Timeout,            \* of meshStackHTTP and of the login: defaultLoginTimeout
  MaxRevocations,     \* bound: tokens meshStack withdraws before they expire
  MaxRestarts         \* bound: restarts, in Kubernetes those of the Job's pod

ASSUME RunsAssumption == /\ IsFiniteSet(Runs) /\ Runs # {}
                         /\ NoRun \notin Runs
                         /\ Undoable \subseteq Runs
ASSUME NumbersAssumption == Values \subseteq Nat /\ Precision \in Nat \ {0}
ASSUME TimesAssumption == /\ Lifetimes \subseteq Nat \ {0}
                          /\ tokenExpiryBuffer \in Nat
                          /\ Timeout \in Nat \ {0}
                          /\ Timeout <= tokenExpiryBuffer
ASSUME BoundsAssumption == MaxRevocations \in Nat /\ MaxRestarts \in Nat

VARIABLES
  file,       \* the run in the file RUN_JSON_FILE_PATH; NoRun: poll for runs
  pc,         \* where the runner is
  cur,        \* the run being executed
  header,     \* the Authorization of the fetch: "token" or "none"
  stopping,   \* the context of the signals is done
  left,       \* time left until ApiKeyAuth.expiresAt; 0 without a token
  age,        \* how long the current request has taken
  \* external
  valid,      \* time left until meshStack refuses the token it issued last
  mesh,       \* meshStack's view of every run
  input,      \* the integer input of every run
  output,     \* the output that meshStack has received
  \* history
  life,       \* expires_in of the token issued last
  revocations,
  revoked,    \* the token issued last was withdrawn
  faulty,     \* a request failed or the process died
  restarts

auth    == <<header, left, valid, life, revocations, revoked>>
meshfed == <<mesh, input, output>>
vars == <<file, pc, cur, stopping, age, auth, meshfed, faulty, restarts>>

Requests == {"login", "issued", "fetch", "register", "patch"}
Decrement_Below(n) == n - 1
Decrement(n) == IF n > 0 THEN n - 1 ELSE 0

Polls == file = NoRun
\* main: polls, or executes the run in the file.
Start == IF Polls THEN "loop" ELSE "register"

Init ==
  /\ file \in Runs \cup {NoRun}
  /\ pc = Start
  /\ cur = file
  /\ stopping = FALSE
  /\ age = 0
  /\ header = "none" /\ left = 0
  /\ valid = 0 /\ life = 0 /\ revocations = 0 /\ revoked = FALSE
  /\ mesh = [r \in Runs |-> IF r = file THEN "claimed" ELSE "offered"]
  /\ input \in [Runs -> Values]
  /\ output = [r \in Runs |-> 0]
  /\ faulty = FALSE
  /\ restarts = 0

-----------------------------------------------------------------------------
(* Numbers.                                                                *)

\* A number read into an `any` is a float64: beyond 2^Precision, n is rounded,
\* half to even, to Precision significant bits.
Ulp(n) == CHOOSE u \in {2^k : k \in 0..n} :
            n < 2^Precision * u /\ (u = 1 \/ 2 * n >= 2^Precision * u)
Float64(n) ==
  LET u == Ulp(n)  q == n \div u  twice == 2 * (n % u)
  IN IF ~(n > 2^Precision) THEN n
     ELSE IF twice < u \/ (twice = u /\ q % 2 = 0) THEN q * u ELSE (q + 1) * u

\* The run that a poller fetches is meshStack's text.  The one in a file has
\* passed decryptRunDetails, which reads it with ParseRunDetails and writes it
\* again.
RunJson(r) == IF ~Polls THEN Float64(input[r]) ELSE input[r]

\* parseRun keeps a number as its text.
parseRun_ToFloat(n) == Float64(n)
parseRun(n) == n

-----------------------------------------------------------------------------
(* The poll loop (poll.go) and ApiKeyAuth (auth.go).                       *)

Send(request) == pc' = request /\ age' = 0
Idle(label) == pc' = label /\ age' = 0 /\ cur' = NoRun

LoopEnds == stopping
PollerReturns ==
  /\ pc = "loop"
  /\ LoopEnds
  /\ Idle("exited")
  /\ UNCHANGED <<file, stopping, auth, meshfed, faulty, restarts>>

\* AuthHeader: there is a token that has not expired.
Cached_IgnoresExpiry == life > 0
Cached == left > 0

\* FetchRun with the cached token, or after a login.
FetchNext ==
  /\ pc = "loop"
  /\ ~LoopEnds
  /\ IF Cached THEN Send("fetch") /\ header' = "token"
                 ELSE Send("login") /\ header' = "none"
  /\ UNCHANGED <<file, cur, stopping, left, valid, life, revocations, revoked,
                 meshfed, faulty, restarts>>

\* meshStack issues a token (external).
Issue ==
  /\ pc = "login"
  /\ pc' = "issued"
  /\ \E e \in Lifetimes : valid' = e /\ life' = e
  /\ revoked' = FALSE
  /\ UNCHANGED <<file, cur, stopping, age, header, left, revocations, meshfed,
                 faulty, restarts>>

\* A second, when nothing is left after the buffer.
Expiry_NoBuffer(e) == e
Expiry(e) == IF e > tokenExpiryBuffer THEN e - tokenExpiryBuffer ELSE 1

\* fetchToken counts from the time of the answer.
fetchToken ==
  /\ pc = "issued"
  /\ Send("fetch")
  /\ header' = "token"
  /\ left' = Expiry(life)
  /\ UNCHANGED <<file, cur, stopping, valid, life, revocations, revoked,
                 meshfed, faulty, restarts>>

\* Logged; the request is sent without a token.
LoginFails ==
  /\ pc \in {"login", "issued"}
  /\ Send("fetch")
  /\ faulty' = TRUE
  /\ UNCHANGED <<file, cur, stopping, auth, meshfed, restarts>>

Authorized == header = "token" /\ valid > 0

\* 401: an error like others.  The cached token is kept.
FetchRefused ==
  /\ pc = "fetch"
  /\ ~Authorized
  /\ Idle("wait")
  /\ UNCHANGED <<file, stopping, auth, meshfed, faulty, restarts>>

FetchNothing ==
  /\ pc = "fetch"
  /\ Authorized
  /\ \A r \in Runs : mesh[r] # "offered"
  /\ Idle("wait")
  /\ UNCHANGED <<file, stopping, auth, meshfed, faulty, restarts>>

Claim(r) ==
  /\ Authorized
  /\ mesh[r] = "offered"
  /\ mesh' = [mesh EXCEPT ![r] = "claimed"]
  /\ UNCHANGED <<input, output>>

\* The run of a lost answer stays claimed.
FetchFails ==
  /\ pc = "fetch"
  /\ Idle("wait")
  /\ faulty' = TRUE
  /\ UNCHANGED meshfed \/ \E r \in Runs : Claim(r)
  /\ UNCHANGED <<file, stopping, auth, restarts>>

\* A claimed run that is refused is only logged.
FetchRun(r) ==
  /\ pc = "fetch"
  /\ Claim(r)
  /\ IF r \in Undoable THEN Idle("wait") ELSE Send("register") /\ cur' = r
  /\ UNCHANGED <<file, stopping, auth, faulty, restarts>>

\* A tick, which may have waited in the channel, or the end of the context.
WaitEnds ==
  /\ pc = "wait"
  /\ pc' = "loop"
  /\ UNCHANGED <<file, cur, stopping, age, auth, meshfed, faulty, restarts>>

-----------------------------------------------------------------------------
(* ExecuteRun (run.go): two requests, neither repeated.                    *)

\* The next run is fetched at once; a single run ends the process.
Done == Idle(IF Polls THEN "loop" ELSE "exited")
Fail == Idle(IF Polls THEN "wait" ELSE "failed")

\* main: a run in a file that is refused.
FileRefused ==
  /\ ~Polls
  /\ pc = "register"
  /\ cur \in Undoable
  /\ Fail
  /\ UNCHANGED <<file, stopping, auth, meshfed, faulty, restarts>>

\* 409: registered before.
RegisterSource ==
  /\ pc = "register"
  /\ cur \notin Undoable
  /\ Send("patch")
  /\ UNCHANGED <<file, cur, stopping, auth, meshfed, faulty, restarts>>

TakeStatus == /\ mesh' = [mesh EXCEPT ![cur] = "SUCCEEDED"]
              /\ output' = [output EXCEPT ![cur] = parseRun(RunJson(cur))]
              /\ UNCHANGED input

PatchStatus ==
  /\ pc = "patch"
  /\ TakeStatus
  /\ Done
  /\ UNCHANGED <<file, stopping, auth, faulty, restarts>>

RequestFails ==
  /\ pc \in {"register", "patch"}
  /\ faulty' = TRUE
  /\ \/ UNCHANGED meshfed
     \/ pc = "patch" /\ TakeStatus
  /\ Fail
  /\ UNCHANGED <<file, stopping, auth, restarts>>

\* The poller reports without the context of the signals (WithoutCancel), the
\* single run with it.
Cancelled_Always == stopping
Cancelled == stopping /\ ~Polls
Cancel ==
  /\ pc \in {"register", "patch"}
  /\ Cancelled
  /\ \/ UNCHANGED meshfed
     \/ pc = "patch" /\ TakeStatus
  /\ Fail
  /\ UNCHANGED <<file, stopping, auth, faulty, restarts>>

-----------------------------------------------------------------------------
(* Time, signals, and the death of the process.                            *)

\* Client.Timeout.
TimedOut_Never == FALSE
TimedOut == pc \in Requests /\ age = Timeout

Tick ==
  /\ ~TimedOut
  /\ age' = IF pc \in Requests /\ age < Timeout THEN age + 1 ELSE age
  /\ left' = Decrement(left)
  /\ valid' = Decrement(valid)
  /\ UNCHANGED <<file, pc, cur, stopping, header, life, revocations, revoked,
                 meshfed, faulty, restarts>>

Revoke ==
  /\ valid > 0
  /\ revocations < MaxRevocations
  /\ revocations' = revocations + 1
  /\ revoked' = TRUE
  /\ valid' = 0
  /\ UNCHANGED <<file, pc, cur, stopping, age, header, left, life, meshfed,
                 faulty, restarts>>

Signal ==
  /\ ~stopping
  /\ stopping' = TRUE
  /\ UNCHANGED <<file, pc, cur, age, auth, meshfed, faulty, restarts>>

\* The health server of the poller stops: os.Exit.
HealthServerStops ==
  /\ Polls
  /\ pc # "exited"
  /\ restarts < MaxRestarts
  /\ Idle("failed")
  /\ faulty' = TRUE
  /\ UNCHANGED <<file, stopping, auth, meshfed, restarts>>

\* Kubernetes starts the process again.
Restart ==
  /\ pc = "failed"
  /\ restarts < MaxRestarts
  /\ restarts' = restarts + 1
  /\ pc' = Start
  /\ cur' = file
  /\ stopping' = FALSE
  /\ age' = 0 /\ left' = 0 /\ header' = "none"
  /\ UNCHANGED <<file, valid, life, revocations, revoked, meshfed, faulty>>

-----------------------------------------------------------------------------
Fails == LoginFails \/ FetchFails \/ RequestFails
Answers == Issue \/ fetchToken \/ FetchRefused \/ FetchNothing
           \/ (\E r \in Runs : FetchRun(r)) \/ RegisterSource \/ PatchStatus
Client == PollerReturns \/ FetchNext \/ WaitEnds \/ FileRefused \/ Cancel

Next == Client \/ Answers \/ Fails \/ Tick \/ Revoke \/ Signal
        \/ HealthServerStops \/ Restart

\* The goroutine is scheduled, time passes and a timeout ends its request.  In
\* addition, for OffersAreClaimed: requests that are repeated again and again
\* do not fail for ever, and not every answer to a login comes too late.
Fairness ==
  /\ WF_vars(Client) /\ WF_vars(Tick) /\ WF_vars(TimedOut /\ Fails)
  /\ SF_vars(Issue) /\ SF_vars(valid > 0 /\ fetchToken)
  /\ SF_vars(\E r \in Runs : FetchRun(r))
  /\ WF_vars(Restart)

Spec == Init /\ [][Next]_vars /\ Fairness

-----------------------------------------------------------------------------
(* Properties.                                                             *)

\* Nothing yet, an input, or what rounding makes of one.
Outputs == {0} \cup Values \cup {Float64(n) : n \in Values}

\* Type invariant.
TypeOK ==
  /\ file \in Runs \cup {NoRun}
  /\ pc \in Requests \cup {"loop", "wait", "exited", "failed"}
  /\ cur \in Runs \cup {NoRun}
  /\ header \in {"token", "none"}
  /\ stopping \in BOOLEAN /\ revoked \in BOOLEAN /\ faulty \in BOOLEAN
  /\ left \in Nat /\ valid \in Nat
  /\ age \in 0..Timeout
  /\ mesh \in [Runs -> {"offered", "claimed", "SUCCEEDED"}]
  /\ input \in [Runs -> Values]
  /\ output \in [Runs -> Outputs]
  /\ life \in Lifetimes \cup {0}
  /\ revocations \in 0..MaxRevocations
  /\ restarts \in 0..MaxRestarts

\* A fetch is sent with a token that is valid, although the login took time
\* that ApiKeyAuth does not count: the buffer is at least the timeout of the
\* login ("to avoid using tokens right at their limit").  Tokens that live no
\* longer than the buffer, and tokens that meshStack withdraws, are excepted.
SentWhileValid ==
  [][pc # "fetch" /\ pc' = "fetch" /\ header' = "token" =>
       valid > 0 \/ revoked \/ life <= tokenExpiryBuffer]_vars

\* If nothing fails, a claimed run is reported before the next one is fetched
\* and before the process ends well, also when it is told to stop meanwhile
\* ("meshStack has claimed the run, so it must be reported even during
\* shutdown"), unless it cannot be parsed or has no links.
ClaimedIsReported ==
  pc \in {"loop", "wait", "exited"} /\ ~faulty =>
    \A r \in Runs : mesh[r] = "claimed" => r \in Undoable

\* An integer comes back as the same output ("an INTEGER input beyond float64
\* precision comes back as the same output"), except one beyond that precision
\* in a run that run-controller has decrypted and written to a file.
IntegersComeBack ==
  \A r \in Runs : mesh[r] = "SUCCEEDED" =>
    output[r] = input[r] \/ (~Polls /\ input[r] > 2^Precision)

\* Every offered run is claimed, unless the poller is told to stop: an expired
\* or withdrawn token is replaced in time, whatever has failed before.
OffersAreClaimed ==
  Polls => \A r \in Runs :
    mesh[r] = "offered" ~> (mesh[r] # "offered" \/ stopping)

\* A signal ends the process, whatever request it meets: no request hangs for
\* longer than its timeout ("Without a timeout, a hanging connection would
\* block the poller and its shutdown forever").
StopCompletes == stopping ~> (~stopping \/ pc \in {"exited", "failed"})

\* A claimed run is reported, and with the values that it was given (poll.go,
\* run.go).
ReportsSound == TypeOK /\ ClaimedIsReported /\ IntegersComeBack
=============================================================================
