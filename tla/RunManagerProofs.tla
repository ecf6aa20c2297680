-------------------------- MODULE RunManagerProofs --------------------------
(***************************************************************************)
(* Proofs about RunManager for every set of runs.                          *)
(***************************************************************************)
EXTENDS RunManager, TLAPS

-----------------------------------------------------------------------------
\* Every step of the token protocol keeps every variable within its type: in
\* particular no goroutine ever sees a token outside its switch (worker.go
\* panics on one).
THEOREM TypeCorrect == Spec => []TypeOK
<1> USE DEF TypeOK, Empty, Stages, Busy
<1>1. Init => TypeOK
  <2> SUFFICES ASSUME Init PROVE TypeOK
    OBVIOUS
  <2>1. shutdown \in BOOLEAN
    BY Zenon DEF Init
  <2>2. handouts \in [Stages -> Nat] /\ lateFetches \in Nat
    BY DEF Init
  <2>3. mesh \in [Runs -> {"pending", "claimed", "executing", "finished"}]
    BY DEF Init
  <2> QED
    BY <2>1, <2>2, <2>3 DEF Init
<1>2. TypeOK /\ [Next]_vars => TypeOK'
  <2> SUFFICES ASSUME TypeOK, [Next]_vars PROVE TypeOK'
    OBVIOUS
  <2>1. CASE TakeToken
    BY <2>1 DEF TakeToken
  <2>2. CASE FetchError
    BY <2>2 DEF FetchError, FetchErrorTokens
  <2>3. ASSUME NEW r \in Runs, FetchUnconvertible(r) PROVE TypeOK'
    BY <2>3 DEF FetchUnconvertible, SetRunToken
  <2>4. ASSUME NEW r \in Runs, FetchRun(r) PROVE TypeOK'
    BY <2>4 DEF FetchRun, SetRunToken
  <2>5. CASE FinishRun
    BY <2>5 DEF FinishRun, ClearRunToken
  <2>6. CASE SendToken
    BY <2>6 DEF SendToken
  <2>7. CASE HandleToken
    BY <2>7 DEF HandleToken, Handouts
  <2>8. CASE DelayEnds
    BY <2>8 DEF DelayEnds
  <2>9. CASE DecideToken
    BY <2>9 DEF DecideToken, HandoutToken
  <2>10. ASSUME NEW token \in {"work", "stop"}, HandOut(token) PROVE TypeOK'
    BY <2>10 DEF HandOut
  <2>11. CASE Stop
    BY <2>11 DEF Stop
  <2>12. CASE UNCHANGED vars
    BY <2>12 DEF vars
  <2> QED
    BY <2>1, <2>2, <2>3, <2>4, <2>5, <2>6, <2>7, <2>8, <2>9, <2>10, <2>11, <2>12
    DEF Next, Fetch, Exited
<1> QED
  BY <1>1, <1>2, PTL DEF Spec

-----------------------------------------------------------------------------
\* TokenInv holds initially and every step keeps it: the token only moves.
LEMMA TokenInvariant == Spec => []TokenInv
<1> USE DEF TypeOK, TokenInv, TokenConservation, InFlight, One, StopsClaiming,
            Empty, Stages, Busy
<1>1. Init => TokenInv
  BY DEF Init
<1>2. TypeOK /\ TypeOK' /\ TokenInv /\ [Next]_vars => TokenInv'
  <2> SUFFICES ASSUME TypeOK, TypeOK', TokenInv, [Next]_vars PROVE TokenInv'
    OBVIOUS
  <2>1. CASE TakeToken
    BY <2>1 DEF TakeToken
  <2>2. CASE FetchError
    BY <2>2 DEF FetchError, FetchErrorTokens
  <2>3. ASSUME NEW r \in Runs, FetchUnconvertible(r) PROVE TokenInv'
    BY <2>3 DEF FetchUnconvertible, SetRunToken
  <2>4. ASSUME NEW r \in Runs, FetchRun(r) PROVE TokenInv'
    BY <2>4 DEF FetchRun, SetRunToken
  <2>5. CASE FinishRun
    BY <2>5 DEF FinishRun, ClearRunToken
  <2>6. CASE SendToken
    BY <2>6 DEF SendToken
  <2>7. CASE HandleToken
    BY <2>7 DEF HandleToken, Handouts
  <2>8. CASE DelayEnds
    BY <2>8 DEF DelayEnds
  <2>9. CASE DecideToken
    BY <2>9 DEF DecideToken, HandoutToken
  <2>10. ASSUME NEW token \in {"work", "stop"}, HandOut(token) PROVE TokenInv'
    BY <2>10 DEF HandOut
  <2>11. CASE Stop
    BY <2>11 DEF Stop
  <2>12. CASE UNCHANGED vars
    BY <2>12 DEF vars
  <2> QED
    BY <2>1, <2>2, <2>3, <2>4, <2>5, <2>6, <2>7, <2>8, <2>9, <2>10, <2>11, <2>12
    DEF Next, Fetch, Exited
<1> QED
  BY <1>1, <1>2, TypeCorrect, PTL DEF Spec

\* The manager and its worker share exactly one token until the worker has
\* stopped, whatever meshfed answers and whenever Stop is called.
THEOREM TokenIsConserved == Spec => []TokenConservation
<1>1. TokenInv => TokenConservation
  BY DEF TokenInv
<1> QED
  BY <1>1, TokenInvariant, PTL

\* After Stop the worker claims at most one more run.
THEOREM ClaimingStops == Spec => []StopsClaiming
<1>1. TokenInv => StopsClaiming
  BY DEF TokenInv
<1> QED
  BY <1>1, TokenInvariant, PTL

-----------------------------------------------------------------------------
\* While the worker executes, its current run is the one meshfed sees executing;
\* a stored token belongs to that run or to one that was claimed in vain.
OwnInv ==
  /\ ExecutesWithOwnToken
  /\ worker = "executing" => current \in Runs /\ mesh[current] = "executing"
  /\ runToken # NoRun => mesh[runToken] \in {"claimed", "executing"}

\* OwnInv holds initially and every step keeps it: SetRunToken and ClearRunToken
\* are called with the claim and with the end of a run.
LEMMA OwnInvariant == Spec => []OwnInv
<1> USE NoRunAssumption DEF TypeOK, OwnInv, ExecutesWithOwnToken, Empty, Stages, Busy
<1>1. Init => OwnInv
  BY DEF Init
<1>2. TypeOK /\ OwnInv /\ [Next]_vars => OwnInv'
  <2> SUFFICES ASSUME TypeOK, OwnInv, [Next]_vars PROVE OwnInv'
    OBVIOUS
  <2>1. CASE TakeToken
    BY <2>1 DEF TakeToken
  <2>2. CASE FetchError
    BY <2>2 DEF FetchError, FetchErrorTokens
  <2>3. ASSUME NEW r \in Runs, FetchUnconvertible(r) PROVE OwnInv'
    BY <2>3 DEF FetchUnconvertible, SetRunToken
  <2>4. ASSUME NEW r \in Runs, FetchRun(r) PROVE OwnInv'
    BY <2>4 DEF FetchRun, SetRunToken
  <2>5. CASE FinishRun
    BY <2>5 DEF FinishRun, ClearRunToken
  <2>6. CASE SendToken
    BY <2>6 DEF SendToken
  <2>7. CASE HandleToken
    BY <2>7 DEF HandleToken
  <2>8. CASE DelayEnds
    BY <2>8 DEF DelayEnds
  <2>9. CASE DecideToken
    BY <2>9 DEF DecideToken
  <2>10. ASSUME NEW token \in {"work", "stop"}, HandOut(token) PROVE OwnInv'
    BY <2>10 DEF HandOut
  <2>11. CASE Stop
    BY <2>11 DEF Stop
  <2>12. CASE UNCHANGED vars
    BY <2>12 DEF vars
  <2> QED
    BY <2>1, <2>2, <2>3, <2>4, <2>5, <2>6, <2>7, <2>8, <2>9, <2>10, <2>11, <2>12
    DEF Next, Fetch, Exited
<1> QED
  BY <1>1, <1>2, TypeCorrect, PTL DEF Spec

\* The run being executed is unique and authenticated with its own token.
THEOREM OwnTokenWhileExecuting == Spec => []ExecutesWithOwnToken
<1>1. OwnInv => ExecutesWithOwnToken
  BY DEF OwnInv
<1> QED
  BY <1>1, OwnInvariant, PTL

\* No fetch is authenticated with the token of a run that has been executed.
THEOREM UsedTokensAreCleared == Spec => []FetchCarriesNoUsedToken
<1>1. TypeOK /\ OwnInv => FetchCarriesNoUsedToken
  BY NoRunAssumption DEF TypeOK, OwnInv, ExecutesWithOwnToken, FetchCarriesNoUsedToken
<1> QED
  BY <1>1, TypeCorrect, OwnInvariant, PTL
=============================================================================
