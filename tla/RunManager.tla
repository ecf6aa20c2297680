----------------------------- MODULE RunManager -----------------------------
(***************************************************************************)
(* The polling mode of tf-block-runner: DefaultRunManager (manager.go) and *)
(* its single Worker (worker.go).  One token circulates between them:      *)
(*                                                                         *)
(*   workerIn --> worker --> managerIn --> manager --> handout goroutine   *)
(*      ^                                                    |             *)
(*      +----------------------------------------------------+             *)
(*                                                                         *)
(* A "work" token makes the worker claim at most one run at meshfed and    *)
(* execute it to its end (the execution itself is module TfRun); a "stop"  *)
(* token ends it.  Delays of the handout goroutine are abstracted to "the  *)
(* timer may have fired": no property depends on their length.             *)
(***************************************************************************)
EXTENDS Integers

CONSTANTS Runs,     \* the runs meshfed will offer to this runner
          NoRun     \* "no run" and "no run token"

ASSUME NoRunAssumption == NoRun \notin Runs

VARIABLES
  shutdown,   \* rm.shutdown is closed
  workerIn,   \* the buffered channel of capacity 1 towards the worker
  managerIn,  \* the buffered channel of capacity 1 towards the manager
  manager,    \* "handling" or "stopped": the handleWorkers loop
  worker,     \* where Worker.work is
  out,        \* the token the worker is about to put in managerIn
  current,    \* the run the worker executes
  runToken,   \* runApiAuth.runToken: the run whose token authenticates requests
  handouts,   \* number of handoutWorkerToken goroutines per stage
  mesh,       \* meshfed's view of every run (external)
  lateFetches \* history: claims attempted after Stop

vars == <<shutdown, workerIn, managerIn, manager, worker, out, current,
          runToken, handouts, mesh, lateFetches>>

Empty    == "empty"
Tokens   == {"work", "done", "norun", "failed", "stop", "stopped"}
Stages   == {"delaying", "deciding", "work", "stop"}
Busy     == {"fetching", "executing", "sending"}

Init ==
  /\ shutdown = FALSE
  /\ workerIn = "work"
  /\ managerIn = Empty
  /\ manager = "handling"
  /\ worker = "waiting"
  /\ out = "done"
  /\ current = NoRun
  /\ runToken = NoRun
  /\ handouts = [s \in Stages |-> 0]
  /\ mesh = [r \in Runs |-> "pending"]
  /\ lateFetches = 0

-----------------------------------------------------------------------------
(* The worker goroutine.                                                   *)

\* <-w.workerIn: a stop token ends the worker, a work token starts a fetch.
TakeToken ==
  /\ worker = "waiting"
  /\ workerIn # Empty
  /\ workerIn' = Empty
  /\ IF workerIn = "stop"
     THEN worker' = "sending" /\ out' = "stopped" /\ UNCHANGED lateFetches
     ELSE /\ worker' = "fetching"
          /\ lateFetches' = IF shutdown THEN lateFetches + 1 ELSE lateFetches
          /\ UNCHANGED out
  /\ UNCHANGED <<shutdown, managerIn, manager, current, runToken, handouts, mesh>>

\* handleFetchRunError: 404, 409 and the duplicated transfer encoding mean "no
\* run", every other error means "failed".
FetchErrorTokens_Unknown == {"norun", "failed", "stop"}
FetchErrorTokens == {"norun", "failed"}

\* FetchRunDetails failed and handleFetchRunError chooses the token.  A claim
\* whose answer is lost or cannot be read (one with two transfer encodings
\* included) stays claimed at meshfed.
FetchError ==
  /\ worker = "fetching"
  /\ worker' = "sending"
  /\ out' \in FetchErrorTokens
  /\ \/ UNCHANGED mesh
     \/ \E r \in Runs : /\ mesh[r] = "pending"
                        /\ mesh' = [mesh EXCEPT ![r] = "claimed"]
  /\ UNCHANGED <<shutdown, workerIn, managerIn, manager, current, runToken,
                 handouts, lateFetches>>

\* SetRunToken(dto.Spec.RunToken), called before the run is converted.
SetRunToken_Forgotten(r) == UNCHANGED runToken
SetRunToken(r) == runToken' = r

\* The run was claimed and its token stored, but runDTOToInternal refuses it.
FetchUnconvertible(r) ==
  /\ worker = "fetching"
  /\ mesh[r] = "pending"
  /\ mesh' = [mesh EXCEPT ![r] = "claimed"]
  /\ SetRunToken(r)
  /\ worker' = "sending"
  /\ out' = "failed"
  /\ UNCHANGED <<shutdown, workerIn, managerIn, manager, current, handouts,
                 lateFetches>>

\* The run was claimed, its token stored, and tfExecution starts.
FetchRun(r) ==
  /\ worker = "fetching"
  /\ mesh[r] = "pending"
  /\ mesh' = [mesh EXCEPT ![r] = "executing"]
  /\ SetRunToken(r)
  /\ current' = r
  /\ worker' = "executing"
  /\ UNCHANGED <<shutdown, workerIn, managerIn, manager, out, handouts,
                 lateFetches>>

ClearRunToken_Forgotten == UNCHANGED runToken
ClearRunToken == runToken' = NoRun

\* tfExecution returned: ClearRunToken, then the done token.
FinishRun ==
  /\ worker = "executing"
  /\ mesh' = [mesh EXCEPT ![current] = "finished"]
  /\ current' = NoRun
  /\ ClearRunToken
  /\ worker' = "sending"
  /\ out' = "done"
  /\ UNCHANGED <<shutdown, workerIn, managerIn, manager, handouts, lateFetches>>

\* w.workerOut <- out, which blocks while the channel is full.
SendToken ==
  /\ worker = "sending"
  /\ managerIn = Empty
  /\ managerIn' = out
  /\ worker' = IF out = "stopped" THEN "exited" ELSE "waiting"
  /\ UNCHANGED <<shutdown, workerIn, manager, out, current, runToken, handouts,
                 mesh, lateFetches>>

-----------------------------------------------------------------------------
(* The manager goroutine and the goroutines it starts.                     *)

\* The switch of handleWorkers: every token but "stopped" starts one goroutine.
Handouts_FailedForgotten(token) == IF token \in {"failed", "stopped"} THEN 0 ELSE 1
Handouts(token) == IF token = "stopped" THEN 0 ELSE 1

\* handleWorkers takes a token; "stopped" from the only worker ends its loop.
HandleToken ==
  /\ manager = "handling"
  /\ managerIn # Empty
  /\ managerIn' = Empty
  /\ handouts' = [handouts EXCEPT !["delaying"] = @ + Handouts(managerIn)]
  /\ manager' = IF managerIn = "stopped" THEN "stopped" ELSE manager
  /\ UNCHANGED <<shutdown, workerIn, worker, out, current, runToken, mesh,
                 lateFetches>>

\* The first select of handoutWorkerToken: the timer fired, or Stop was called.
DelayEnds ==
  /\ handouts["delaying"] > 0
  /\ handouts' = [handouts EXCEPT !["delaying"] = @ - 1, !["deciding"] = @ + 1]
  /\ UNCHANGED <<shutdown, workerIn, managerIn, manager, worker, out, current,
                 runToken, mesh, lateFetches>>

\* The second select: work is handed out only while shutdown is open.
HandoutToken_NoRecheck == "work"
HandoutToken == IF shutdown THEN "stop" ELSE "work"

\* The goroutine has evaluated its second select and is about to send.
DecideToken ==
  /\ handouts["deciding"] > 0
  /\ handouts' = [handouts EXCEPT !["deciding"] = @ - 1, ![HandoutToken] = @ + 1]
  /\ UNCHANGED <<shutdown, workerIn, managerIn, manager, worker, out, current,
                 runToken, mesh, lateFetches>>

\* rm.workerIn <- token, which blocks while the channel is full.
HandOut(token) ==
  /\ handouts[token] > 0
  /\ workerIn = Empty
  /\ workerIn' = token
  /\ handouts' = [handouts EXCEPT ![token] = @ - 1]
  /\ UNCHANGED <<shutdown, managerIn, manager, worker, out, current, runToken,
                 mesh, lateFetches>>

\* SIGTERM or SIGINT: main's signal goroutine calls Stop once.
Stop ==
  /\ ~shutdown
  /\ shutdown' = TRUE
  /\ UNCHANGED <<workerIn, managerIn, manager, worker, out, current, runToken,
                 handouts, mesh, lateFetches>>

\* wg.Wait returned and the process exits.
Exited ==
  /\ manager = "stopped"
  /\ UNCHANGED vars

-----------------------------------------------------------------------------
Fetch == FetchError \/ \E r \in Runs : FetchRun(r) \/ FetchUnconvertible(r)

Next ==
  \/ TakeToken \/ Fetch \/ FinishRun \/ SendToken
  \/ HandleToken \/ DelayEnds \/ DecideToken
  \/ \E token \in {"work", "stop"} : HandOut(token)
  \/ Stop \/ Exited

\* Go schedules every runnable goroutine and every timer fires.  Nothing is
\* assumed of what the worker waits for without a deadline: the request of a
\* fetch (the HTTP client has no timeout and the request no context) and the
\* execution of a run (TfRun!Hangs).  A signal may never come either.
Fairness ==
  /\ WF_vars(TakeToken) /\ WF_vars(SendToken) /\ WF_vars(HandleToken)
  /\ WF_vars(DelayEnds) /\ WF_vars(DecideToken)
  /\ \A token \in {"work", "stop"} : WF_vars(HandOut(token))

Spec == Init /\ [][Next]_vars /\ Fairness

-----------------------------------------------------------------------------
(* Properties.                                                             *)

\* Type invariant of the token protocol.
TypeOK ==
  /\ shutdown \in BOOLEAN
  /\ workerIn \in {Empty, "work", "stop"}
  /\ managerIn \in {Empty, "done", "norun", "failed", "stopped"}
  /\ manager \in {"handling", "stopped"}
  /\ worker \in Busy \cup {"waiting", "exited"}
  /\ out \in {"done", "norun", "failed", "stopped"}
  /\ current \in Runs \cup {NoRun}
  /\ runToken \in Runs \cup {NoRun}
  /\ handouts \in [Stages -> Nat]
  /\ mesh \in [Runs -> {"pending", "claimed", "executing", "finished"}]
  /\ lateFetches \in Nat

One(b) == IF b THEN 1 ELSE 0

\* Where tokens are: in a channel, held by the worker, or held by a goroutine.
InFlight == One(workerIn # Empty) + One(managerIn # Empty) + One(worker \in Busy)
            + handouts["delaying"] + handouts["deciding"]
            + handouts["work"] + handouts["stop"]

\* There is exactly one token until the manager has taken "stopped".  So no
\* send ever blocks, no handout goroutine outlives the manager, and the worker
\* is neither doubled nor forgotten (manager.go: "single worker").
TokenConservation ==
  /\ manager = "handling" => InFlight = 1
  /\ manager = "stopped" => InFlight = 0 /\ worker = "exited"

\* After Stop at most one more claim is made: the one whose work token was
\* already on its way ("A timer that fired together with Stop must not hand out
\* work", manager.go).
StopsClaiming == lateFetches <= 1

\* The inductive form of the two: the worker exits only on the token "stopped",
\* which is then the one in flight, and a work token that is still on its way
\* after Stop uses up the one claim that StopsClaiming grants.
TokenInv ==
  /\ TokenConservation
  /\ out = "stopped" => worker \in {"sending", "exited"}
  /\ managerIn = "stopped" => worker = "exited"
  /\ worker = "exited" /\ manager = "handling" => managerIn = "stopped"
  /\ worker = "sending" /\ out = "stopped" => managerIn = Empty
  /\ ~shutdown => lateFetches = 0
  /\ lateFetches + One(workerIn = "work") + handouts["work"] <= 1
  /\ StopsClaiming

\* A run being executed is the only one, it is the worker's current run, and
\* requests about it are authenticated with its own run token.
ExecutesWithOwnToken ==
  \A r \in Runs : mesh[r] = "executing" =>
     worker = "executing" /\ current = r /\ runToken = r

\* Stop ends the process (main.go waits for the manager loop), unless the worker
\* waits for ever for the answer to its fetch, or for the end of its run: Stop
\* interrupts neither.
StopCompletes ==
  \/ shutdown ~> manager = "stopped"
  \/ <>[](worker = "fetching")
  \/ <>[](worker = "executing")

\* Until Stop is called the worker asks meshfed again for a run each time its
\* last fetch or run has ended, however it ended.
KeepsPolling ==
  worker \notin {"fetching", "executing"} ~> worker = "fetching" \/ shutdown

\* "Clear the runToken after execution to ensure next fetch uses basic auth"
\* (worker.go): no fetch carries the token of a run that was executed.  That of
\* a run that was claimed and then not converted it may carry (runapi.go stores
\* the token before the conversion, and nothing clears it).
FetchCarriesNoUsedToken ==
  worker = "fetching" => runToken = NoRun \/ mesh[runToken] = "claimed"
=============================================================================
