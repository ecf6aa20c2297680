---------------------------- MODULE TfRunProofs ----------------------------
(***************************************************************************)
(* Proofs about TfRun: for every set of run configurations, every amount   *)
(* of log output and every number of retries, no update ends a run whose   *)
(* work goes on, the last update ends it, TfRun implements RunReport, and  *)
(* what is reported of the steps, their logs and the results is true.      *)
(***************************************************************************)
EXTENDS TfRun, TLAPS

\* The fields of a run status and of meshfed's view; what they hold does not
\* matter to the proofs.
IsStatus(s) == s = [status |-> s.status, steps |-> s.steps, cur |-> s.cur,
                    changes |-> s.changes]
IsMesh(m) == m = [status |-> m.status, by |-> m.by, abort |-> m.abort]

\* The inductive invariant.  The observer waits for the work routine, so that
\* the final phase and work exclude each other; the work routine signals only
\* after it has published a terminal status.
EndInv ==
  /\ IsStatus(runStatus) /\ IsStatus(reportStatus) /\ IsMesh(mesh)
  /\ Working => obs \in {"idle", "select", "updating"} /\ ~late
  /\ NoEarlyEnd
  /\ pc = "failing" => runStatus.status = "FAILED"
  /\ pc \in {"signal", "ended"} => isTerminalState(reportStatus.status)
  /\ Working \/ obs = "final" => final = "none"
  /\ FinalEndsRun

-----------------------------------------------------------------------------
(* The operators on run statuses keep the shape of the record, and change   *)
(* the status as they should.                                               *)

\* initRunSteps: setting a command's steps leaves the status alone.
LEMMA InitRunStepsStatus ==
  ASSUME NEW s, NEW r, IsStatus(s)
  PROVE  IsStatus(initRunSteps(s, r)) /\ initRunSteps(s, r).status = s.status
<1>1. PICK steps : initRunSteps(s, r) = [s EXCEPT !.steps = steps, !.cur = 1]
  BY Zenon DEF initRunSteps
<1>2. QED
  BY <1>1 DEF IsStatus

\* setCurrentStepMessage touches only the current step.
LEMMA StepMessageStatus ==
  ASSUME NEW s, NEW user, NEW size, IsStatus(s)
  PROVE  /\ IsStatus(setCurrentStepMessage(s, user, size))
         /\ setCurrentStepMessage(s, user, size).status = s.status
  BY DEF IsStatus, setCurrentStepMessage

\* nextStep touches only the steps.
LEMMA NextStepStatus ==
  ASSUME NEW s, NEW r, NEW size, IsStatus(s)
  PROVE  IsStatus(nextStep(s, r, size)) /\ nextStep(s, r, size).status = s.status
  BY DEF IsStatus, nextStep

\* failRunAndNotFinishedSteps fails the run.
LEMMA FailRunStatus ==
  ASSUME NEW s, IsStatus(s)
  PROVE  /\ IsStatus(failRunAndNotFinishedSteps(s))
         /\ failRunAndNotFinishedSteps(s).status = "FAILED"
<1>1. PICK steps : failRunAndNotFinishedSteps(s)
                     = [s EXCEPT !.status = "FAILED", !.steps = steps]
  BY Zenon DEF failRunAndNotFinishedSteps
<1>2. QED
  BY <1>1 DEF IsStatus

\* completeRun makes the run succeed.
LEMMA CompleteStatus ==
  ASSUME NEW s, NEW size, IsStatus(s)
  PROVE  /\ IsStatus(completeStatus(s, size))
         /\ completeStatus(s, size).status = "SUCCEEDED"
<1> DEFINE m == setCurrentStepMessage(s, "none", size)
<1>1. IsStatus(m)
  BY StepMessageStatus
<1>2. completeStatus(s, size)
        = [m EXCEPT !.steps[s.cur].status = "SUCCEEDED", !.status = "SUCCEEDED"]
  BY DEF completeStatus
<1> HIDE DEF m
<1>3. QED
  BY <1>1, <1>2 DEF IsStatus

\* meshfed's view keeps its shape, and takes the status of the update.
LEMMA TakeMesh ==
  ASSUME IsMesh(mesh)
  PROVE  /\ IsMesh(Take)
         /\ Take = mesh \/ (Take.status = sent /\ Take.by = "runner")
  BY DEF IsMesh, Take

-----------------------------------------------------------------------------
\* A run starts with the invariant.
LEMMA EndInvInit == Init => EndInv
<1> SUFFICES ASSUME Init PROVE EndInv
  OBVIOUS
<1>1. IsStatus(runStatus) /\ IsStatus(reportStatus) /\ IsMesh(mesh)
  BY DEF Init, IsStatus, IsMesh, InitialStatus
<1>2. NoEarlyEnd /\ FinalEndsRun
  BY DEF Init, NoEarlyEnd, FinalEndsRun, isTerminalState, Terminal
<1>3. QED
  BY <1>1, <1>2 DEF Init, EndInv

\* Every step of the work routine keeps it.
LEMMA EndInvWork == EndInv /\ Work => EndInv'
<1> SUFFICES ASSUME EndInv, Work PROVE EndInv'
  OBVIOUS
<1> USE DEF EndInv, NoEarlyEnd, FinalEndsRun, Working, Panicked, isTerminalState, Terminal,
            obsVars, workVars
<1>1. CASE SetUp
  BY <1>1, InitRunStepsStatus DEF SetUp
<1>2. CASE SetUpFails
  <2>1. InitFailStatus.status = "FAILED"
    BY DEF InitFailStatus, InitialStatus
  <2>2. QED
    BY <1>2, <2>1 DEF SetUpFails
<1>3. CASE StartFails
  BY <1>3 DEF StartFails
<1>4. CASE Register
  BY <1>4 DEF Register
<1>5. CASE RegisterFails
  <2>1. IsStatus(reportStatus') /\ reportStatus'.status = "FAILED"
    BY <1>5 DEF RegisterFails, reportFailed, IsStatus
  <2>2. QED
    BY <1>5, <2>1 DEF RegisterFails
<1>6. CASE WriteLog
  <2>1. IsStatus(runStatus') /\ IsStatus(reportStatus')
    BY <1>6, StepMessageStatus DEF WriteLog
  <2>2. QED
    BY <1>6, <2>1 DEF WriteLog, Performing
<1>7. CASE OpSucceeds
  <2>1. IsStatus(runStatus')
    BY <1>7 DEF OpSucceeds, IsStatus
  <2>2. QED
    BY <1>7, <2>1 DEF OpSucceeds, Performing
<1>8. CASE AdvanceStep
  <2>1. PICK user : runStatus' = nextStep(setCurrentStepMessage(runStatus, user, logSize),
                                          run, logSize)
    BY <1>8 DEF AdvanceStep
  <2>2. IsStatus(runStatus')
    BY <2>1, StepMessageStatus, NextStepStatus
  <2>3. QED
    BY <1>8, <2>2 DEF AdvanceStep, Executing
<1>9. CASE CompleteRun
  <2>1. IsStatus(runStatus') /\ runStatus'.status = "SUCCEEDED"
    BY <1>9, CompleteStatus DEF CompleteRun
  <2>2. QED
    BY <1>9, <2>1 DEF CompleteRun, Executing
<1>10. CASE OpFails
  <2>1. IsStatus(runStatus') /\ runStatus'.status = "FAILED" /\ IsStatus(reportStatus')
    BY <1>10, FailRunStatus, StepMessageStatus DEF OpFails
  <2>2. QED
    BY <1>10, <2>1 DEF OpFails, Performing
<1>11. CASE FailCommits
  <2>1. IsStatus(runStatus') /\ runStatus'.status = "FAILED"
    BY <1>11, StepMessageStatus DEF FailCommits
  <2>2. QED
    BY <1>11, <2>1 DEF FailCommits
<1>12. CASE GetTFPanics
  BY <1>12 DEF GetTFPanics, Executing
<1>13. QED
  BY <1>1, <1>2, <1>3, <1>4, <1>5, <1>6, <1>7, <1>8, <1>9, <1>10, <1>11, <1>12 DEF Work

\* Every step of the observer keeps it.
LEMMA EndInvObserve == EndInv /\ Observe => EndInv'
<1> SUFFICES ASSUME EndInv, Observe PROVE EndInv'
  OBVIOUS
<1> USE DEF EndInv, NoEarlyEnd, FinalEndsRun, Working, Panicked, isTerminalState, Terminal,
            obsVars, workVars
<1>1. CASE Tick
  BY <1>1 DEF Tick, SendsPeriodically
<1>2. CASE PeriodicAnswer
  <2>1. mesh' \in {mesh, Take} /\ late' = late
    BY <1>2 DEF PeriodicAnswer, Exchange
  <2>2. QED
    BY <1>2, <2>1, TakeMesh DEF PeriodicAnswer
<1>3. CASE Done /\ pc = "panicking"
  BY <1>3 DEF Done
<1>7. CASE Done /\ pc = "signal"
  <2>1. isTerminalState(sent') \/ (run.async /\ reportStatus.status = "SUCCEEDED")
    <3>1. isTerminalState(reportStatus.status) /\ sent' = FinalStatus(reportStatus)
      BY <1>7 DEF Done
    <3>2. CASE abortRequested
      BY <3>1, <3>2 DEF FinalStatus
    <3>3. CASE ~abortRequested /\ run.async /\ reportStatus.status = "SUCCEEDED"
      BY <3>3
    <3>4. CASE ~abortRequested /\ ~(run.async /\ reportStatus.status = "SUCCEEDED")
      <4>1. sent' = reportStatus.status
        BY <3>1, <3>4, Zenon DEF FinalStatus
      <4>2. QED
        BY <3>1, <4>1
    <3>5. QED
      BY <3>2, <3>3, <3>4
  <2>2. QED
    BY <1>7, <2>1 DEF Done
<1>4. CASE FinalAttempt
  <2>1. ~Working /\ final = "none"
    BY <1>4 DEF FinalAttempt
  <2>2. mesh' \in {mesh, Take}
    BY <1>4 DEF FinalAttempt, Exchange
  <2>3. UNCHANGED <<run, workVars, sent, reportStatus>> /\ obs' \in {"final", "ended"}
    BY <1>4 DEF FinalAttempt
  <2>4. obs' = "final" => final' = "none"
    BY <1>4, <2>1 DEF FinalAttempt
  <2>5. QED
    BY <1>4, <2>1, <2>2, <2>3, <2>4, TakeMesh DEF FinalAttempt
<1>5. CASE GiveUp
  BY <1>5 DEF GiveUp
<1>6. QED
  BY <1>1, <1>2, <1>3, <1>4, <1>5, <1>7 DEF Observe, Done

\* Every step keeps it, those of the clock, the network and the user included.
LEMMA EndInvNext == EndInv /\ [Next]_vars => EndInv'
<1> SUFFICES ASSUME EndInv, [Next]_vars PROVE EndInv'
  OBVIOUS
<1>1. CASE Work
  BY <1>1, EndInvWork
<1>2. CASE Observe
  BY <1>2, EndInvObserve
<1> USE DEF EndInv, NoEarlyEnd, FinalEndsRun, Working, Panicked, isTerminalState, Terminal,
            obsVars, workVars
<1>3. CASE Timeout
  BY <1>3 DEF Timeout
<1>4. CASE LateArrival
  <2>1. ~Working /\ mesh' = Take
    BY <1>4 DEF LateArrival
  <2>2. QED
    BY <1>4, <2>1, TakeMesh DEF LateArrival
<1>5. CASE UserAborts
  <2>1. IsMesh(mesh') /\ (mesh'.by = "runner" => mesh'.by = mesh.by /\ mesh'.status = mesh.status)
    BY <1>5 DEF UserAborts, IsMesh
  <2>2. QED
    BY <1>5, <2>1 DEF UserAborts
<1>6. CASE Returned
  BY <1>6 DEF Returned, vars
<1>7. CASE UNCHANGED vars
  BY <1>7 DEF vars
<1>8. CASE ProcessDies
  <2>1. pc = "dying" /\ pc' = "dead" /\ obs' = "ended" /\ mesh' \in {mesh, Take}
    BY <1>8 DEF ProcessDies, Exchange
  <2>2. UNCHANGED <<run, runStatus, sent, reportStatus>>
    BY <1>8 DEF ProcessDies
  <2>3. QED
    BY <2>1, <2>2, TakeMesh
<1>9. QED
  BY <1>1, <1>2, <1>3, <1>4, <1>5, <1>6, <1>7, <1>8 DEF Next

\* The invariant holds throughout.
LEMMA EndInvariant == Spec => []EndInv
<1>1. QED
  BY EndInvInit, EndInvNext, PTL DEF Spec

-----------------------------------------------------------------------------
\* No update ends a run while its tofu command may still run and save state
\* with the run's key (sendFinalStatus runs after the work routine's signal).
THEOREM NoEarlyEndTheorem == Spec => []NoEarlyEnd
<1>1. EndInv => NoEarlyEnd
  BY DEF EndInv
<1>2. QED
  BY <1>1, EndInvariant, PTL

\* Whatever failed or was aborted, the last status that is sent ends the run,
\* unless an external pipeline continues it or GetTF panicked (sendFinalStatus,
\* reportFailed; the deferred signal of workRoutine).
THEOREM FinalEndsRunTheorem == Spec => []FinalEndsRun
<1>1. EndInv => FinalEndsRun
  BY DEF EndInv
<1>2. QED
  BY <1>1, EndInvariant, PTL

-----------------------------------------------------------------------------
(* TfRun implements RunReport.                                             *)

\* What the refinement needs of the flags and of the update that is in flight: a
\* periodic one changes nothing that meshStack shows, the last one carries the
\* result of the work.
RefInv ==
  /\ run.async \in BOOLEAN /\ abortRequested \in BOOLEAN /\ late \in BOOLEAN
  /\ Working \/ Panicked \/ pc \in {"ended", "notStarted"}
  /\ pc \in {"setup", "registering", "executing"} => runStatus.status = "IN_PROGRESS"
  /\ pc \in {"executing", "panicking"} \/ Panicked => reportStatus.status = "IN_PROGRESS"
  /\ runStatus.status \in {"IN_PROGRESS", "SUCCEEDED", "FAILED"}
  /\ reportStatus.status \in {"IN_PROGRESS", "SUCCEEDED", "FAILED"}
  /\ mesh.status \in {"IN_PROGRESS"} \cup Terminal
  /\ obs = "updating" => sent = "IN_PROGRESS"
  /\ pc \in {"setup", "notStarted"} => ~abortRequested
  /\ pc = "setup" <=> obs = "idle"
  /\ ~Working => obs \in {"final", "ended"}
  /\ pc = "notStarted" /\ (obs = "final" \/ late) => sent = "FAILED"
  /\ pc = "ended" \/ Panicked => sent = FinalStatus(reportStatus)

\* The last status is what RunReport shows at the end, or leaves the run to the
\* external pipeline.
LEMMA FinalStatusFacts ==
  ASSUME RefInv
  PROVE  LET f == FinalStatus(reportStatus)
         IN  /\ f \in {"IN_PROGRESS"} \cup Terminal
             /\ abortRequested => f = "ABORTED"
             /\ ~abortRequested => f \in {"IN_PROGRESS", reportStatus.status}
             /\ ~abortRequested /\ run.async => f # "SUCCEEDED"
<1>1. CASE abortRequested
  BY <1>1 DEF FinalStatus, Terminal
<1>2. CASE ~abortRequested /\ run.async /\ reportStatus.status = "SUCCEEDED"
  BY <1>2 DEF FinalStatus, Terminal
<1>3. CASE ~abortRequested /\ ~(run.async /\ reportStatus.status = "SUCCEEDED")
  <2>1. FinalStatus(reportStatus) = reportStatus.status
    BY <1>3, Zenon DEF FinalStatus
  <2> QED BY <1>3, <2>1 DEF RefInv, Terminal
<1> QED BY <1>1, <1>2, <1>3

\* The steps of the work routine and of the observer keep RefInv.
LEMMA RefInvNext ==
  ASSUME EndInv, RefInv, [Next]_vars
  PROVE  RefInv'
<1> USE DEF EndInv, RefInv, Working, Panicked, Terminal, obsVars, workVars
<1>1. CASE SetUp
  BY <1>1, InitRunStepsStatus DEF SetUp
<1>2. CASE SetUpFails
  <2>1. InitFailStatus.status = "FAILED"
    BY DEF InitFailStatus, InitialStatus
  <2> QED BY <1>2, <2>1 DEF SetUpFails
<1>3. CASE StartFails
  BY <1>3 DEF StartFails
<1>4. CASE Register
  BY <1>4 DEF Register
<1>5. CASE RegisterFails
  <2>1. reportStatus'.status = "FAILED"
    BY <1>5 DEF RegisterFails, reportFailed, IsStatus
  <2> QED BY <1>5, <2>1 DEF RegisterFails
<1>6. CASE WriteLog
  <2>1. /\ runStatus'.status = runStatus.status
        /\ reportStatus'.status \in {reportStatus.status, runStatus.status}
    BY <1>6, StepMessageStatus DEF WriteLog
  <2> QED BY <1>6, <2>1 DEF WriteLog, Performing
<1>7. CASE OpSucceeds
  <2>1. runStatus'.status = runStatus.status
    BY <1>7 DEF OpSucceeds, IsStatus
  <2> QED BY <1>7, <2>1 DEF OpSucceeds, Performing
<1>8. CASE AdvanceStep
  <2>1. PICK user : runStatus' = nextStep(setCurrentStepMessage(runStatus, user, logSize),
                                          run, logSize)
    BY <1>8 DEF AdvanceStep
  <2>2. runStatus'.status = runStatus.status
    BY <2>1, StepMessageStatus, NextStepStatus
  <2> QED BY <1>8, <2>2 DEF AdvanceStep, Executing
<1>9. CASE CompleteRun
  <2>1. runStatus'.status = "SUCCEEDED"
    BY <1>9, CompleteStatus DEF CompleteRun
  <2> QED BY <1>9, <2>1 DEF CompleteRun, Executing
<1>10. CASE OpFails
  <2>1. runStatus'.status = "FAILED" /\ reportStatus'.status \in {"FAILED", reportStatus.status}
    BY <1>10, FailRunStatus, StepMessageStatus DEF OpFails
  <2> QED BY <1>10, <2>1 DEF OpFails, Performing
<1>11. CASE FailCommits
  <2>1. runStatus'.status = "FAILED"
    BY <1>11, StepMessageStatus DEF FailCommits
  <2> QED BY <1>11, <2>1 DEF FailCommits
<1>12. CASE Tick
  BY <1>12 DEF Tick, SendsPeriodically, isTerminalState
<1>13. CASE PeriodicAnswer
  <2>1. mesh' \in {mesh, Take} /\ late' = late
    BY <1>13 DEF PeriodicAnswer, Exchange
  <2>2. mesh'.status \in {"IN_PROGRESS"} \cup Terminal
    BY <1>13, <2>1, TakeMesh DEF PeriodicAnswer
  <2>3. abortRequested' \in BOOLEAN
    BY <1>13 DEF PeriodicAnswer
  <2>4. obs = "updating" /\ obs' = "select" /\ UNCHANGED <<run, pc, runStatus, reportStatus>>
    BY <1>13 DEF PeriodicAnswer
  <2> QED BY <2>1, <2>2, <2>3, <2>4
<1>14. CASE Done
  BY <1>14 DEF Done, FinalStatus
<1>15. CASE FinalAttempt
  <2>1. mesh' \in {mesh, Take} /\ late' \in BOOLEAN
    BY <1>15 DEF FinalAttempt, Exchange
  <2>2. /\ ~Working /\ obs' \in {"final", "ended"}
        /\ UNCHANGED <<run, pc, runStatus, reportStatus, sent, abortRequested>>
    BY <1>15 DEF FinalAttempt
  <2>3. sent \in {"IN_PROGRESS"} \cup Terminal
    BY <1>15, <2>2, FinalStatusFacts DEF FinalAttempt, EndInv, FinalEndsRun, isTerminalState
  <2>4. mesh'.status \in {"IN_PROGRESS"} \cup Terminal
    BY <2>1, <2>3, TakeMesh
  <2> QED BY <1>15, <2>1, <2>2, <2>4 DEF FinalAttempt, FinalStatus
<1>16. CASE GiveUp
  BY <1>16 DEF GiveUp, FinalStatus
<1>17. CASE LateArrival
  <2>1. ~Working /\ sent \in {"IN_PROGRESS"} \cup Terminal
    BY <1>17, FinalStatusFacts DEF LateArrival, EndInv
  <2>2. mesh'.status \in {"IN_PROGRESS"} \cup Terminal
    BY <1>17, <2>1, TakeMesh DEF LateArrival
  <2> QED BY <1>17, <2>2 DEF LateArrival, FinalStatus
<1>18. CASE UserAborts
  <2>1. mesh'.status \in {"IN_PROGRESS"} \cup Terminal
    BY <1>18 DEF UserAborts, IsMesh
  <2> QED BY <1>18, <2>1 DEF UserAborts, FinalStatus
<1>19. CASE Timeout \/ Returned \/ UNCHANGED vars
  BY <1>19 DEF Timeout, Returned, vars, FinalStatus
<1>20. CASE GetTFPanics
  BY <1>20 DEF GetTFPanics, Executing
<1>21. CASE ProcessDies
  <2>1. pc = "dying" /\ pc' = "dead" /\ obs' = "ended" /\ mesh' \in {mesh, Take} /\ late' \in BOOLEAN
    BY <1>21 DEF ProcessDies, Exchange
  <2>2. UNCHANGED <<run, runStatus, reportStatus, sent, abortRequested>>
    BY <1>21 DEF ProcessDies
  <2>3. sent \in {"IN_PROGRESS"} \cup Terminal
    BY <2>1, FinalStatusFacts
  <2>4. mesh'.status \in {"IN_PROGRESS"} \cup Terminal
    BY <2>1, <2>3, TakeMesh
  <2> QED BY <2>1, <2>2, <2>4 DEF FinalStatus
<1> QED
  BY <1>1, <1>2, <1>3, <1>4, <1>5, <1>6, <1>7, <1>8, <1>9, <1>10, <1>11, <1>12, <1>13, <1>14,
     <1>15, <1>16, <1>17, <1>18, <1>19, <1>20, <1>21 DEF Next, Work, Observe

\* Where the work routine is done, what is shown changes to RunReport's end.
LEMMA TakeReports ==
  ASSUME EndInv, RefInv, ~Working, obs = "final" \/ late, UNCHANGED <<run, abortRequested>>,
         Result' = Result, mesh' \in {mesh, Take}
  PROVE  [RR!Next]_RR!vars
<1>1. CASE mesh'.status = mesh.status /\ mesh'.abort = mesh.abort
  BY <1>1 DEF RR!vars
<1>2. CASE mesh.status = "IN_PROGRESS" /\ mesh' = [mesh EXCEPT !.status = sent, !.by = "runner"]
                                       /\ sent # "IN_PROGRESS"
  <2>1. mesh'.status = sent /\ mesh'.abort = mesh.abort
    BY <1>2 DEF EndInv, IsMesh
  <2>2. /\ Result # "none"
        /\ sent = IF abortRequested THEN "ABORTED" ELSE Result
        /\ sent = "SUCCEEDED" => ~run.async
    <3>1. CASE pc = "ended"
      <4>1. Result = reportStatus.status
        BY <3>1 DEF Result, Report, Working, Panicked
      <4> QED BY <1>2, <3>1, <4>1, FinalStatusFacts DEF RefInv
    <3>2. CASE pc = "notStarted"
      <4>1. Result = "FAILED"
        BY <3>2 DEF Result, Report, Working, Panicked, InitFailStatus, InitialStatus
      <4> QED BY <3>2, <4>1 DEF RefInv
    <3>3. CASE Panicked
      <4>1. Result = "FAILED"
        BY <3>3 DEF Result, Working, Panicked
      <4> QED BY <1>2, <3>3, <4>1, FinalStatusFacts DEF RefInv
    <3> QED BY <3>1, <3>2, <3>3 DEF RefInv
  <2>3. RR!ReportEnd
    BY <1>2, <2>1, <2>2 DEF RR!ReportEnd
  <2> QED BY <2>3 DEF RR!Next
<1>3. \/ mesh' = mesh
      \/ /\ mesh.status = "IN_PROGRESS"
         /\ mesh' = [mesh EXCEPT !.status = sent, !.by = "runner"]
  BY DEF Take
<1> QED BY <1>1, <1>2, <1>3 DEF EndInv, IsMesh

\* The result follows from where the work routine is.
LEMMA ResultKept ==
  ASSUME UNCHANGED <<pc, reportStatus>>
  PROVE  Result' = Result
  BY DEF Result, Working, Panicked, Report

\* While the run is worked on, only an abort changes what RunReport speaks of.
LEMMA WorkingStutters ==
  ASSUME Working, Working', run' = run, mesh'.status = mesh.status, mesh'.abort = mesh.abort,
         abortRequested' = abortRequested
  PROVE  [RR!Next]_RR!vars
  BY DEF RR!vars, Result

\* Every step is a step of RunReport, or none.
LEMMA RefStep ==
  ASSUME EndInv, RefInv, [Next]_vars
  PROVE  [RR!Next]_RR!vars
<1> USE DEF obsVars, workVars
<1>1. CASE SetUp \/ Register \/ RegisterFails \/ WriteLog \/ OpSucceeds \/ AdvanceStep
           \/ CompleteRun \/ OpFails \/ FailCommits \/ Timeout \/ GetTFPanics
  <2>1. Working /\ Working' /\ UNCHANGED <<run, mesh, abortRequested>>
    BY <1>1 DEF SetUp, Register, RegisterFails, WriteLog, OpSucceeds, AdvanceStep, CompleteRun,
                OpFails, FailCommits, Timeout, GetTFPanics, Working, Performing, Executing
  <2> QED BY <2>1, WorkingStutters
<1>2. CASE SetUpFails \/ StartFails
  <2>1. Working /\ pc' = "notStarted" /\ UNCHANGED <<run, mesh, abortRequested>>
    BY <1>2 DEF SetUpFails, StartFails, Working
  <2>2. Result = "none" /\ Result' = "FAILED"
    BY <2>1 DEF Result, Working, Panicked, Report, InitFailStatus, InitialStatus
  <2>3. RR!EndWork
    BY <2>1, <2>2 DEF RR!EndWork
  <2> QED BY <2>3 DEF RR!Next
<1>3. CASE Tick
  <2>1. Working /\ Working' /\ UNCHANGED <<run, mesh, abortRequested>>
    BY <1>3 DEF Tick, RefInv, Working, Panicked
  <2> QED BY <2>1, WorkingStutters
<1>4. CASE PeriodicAnswer
  <2>1. Working /\ Working' /\ run' = run
    BY <1>4 DEF PeriodicAnswer, RefInv, Working, Panicked
  <2>2. mesh'.status = mesh.status /\ mesh'.abort = mesh.abort
    <3>1. mesh' \in {mesh, Take} /\ sent = "IN_PROGRESS"
      BY <1>4 DEF PeriodicAnswer, Exchange, RefInv
    <3> QED BY <3>1 DEF Take, EndInv, IsMesh
  <2>3. CASE abortRequested' = abortRequested
    BY <2>1, <2>2, <2>3, WorkingStutters
  <2>4. CASE abortRequested' # abortRequested
    <3>1. mesh.abort /\ abortRequested' = TRUE
      BY <1>4, <2>4 DEF PeriodicAnswer, RefInv
    <3>2. RR!SeeAbort
      BY <2>1, <2>2, <3>1 DEF RR!SeeAbort, Result
    <3> QED BY <3>2 DEF RR!Next
  <2> QED BY <2>3, <2>4
<1>5. CASE Done
  <2>1. Working /\ UNCHANGED <<run, mesh, abortRequested, reportStatus>> /\ Result = "none"
    BY <1>5 DEF Done, Working, Result
  <2>2. Result' \in {"SUCCEEDED", "FAILED"}
    <3>1. CASE pc = "signal"
      <4>1. pc' = "ended" /\ reportStatus.status \in {"SUCCEEDED", "FAILED"}
        BY <1>5, <3>1 DEF Done, EndInv, RefInv, isTerminalState, Terminal
      <4> QED BY <2>1, <4>1 DEF Result, Working, Panicked, Report
    <3>2. CASE pc = "panicking"
      BY <1>5, <3>2 DEF Done, Result, Working, Panicked
    <3> QED BY <1>5, <3>1, <3>2 DEF Done
  <2>3. RR!EndWork
    BY <2>1, <2>2 DEF RR!EndWork
  <2> QED BY <2>3 DEF RR!Next
<1>6. CASE FinalAttempt
  <2>1. /\ ~Working /\ obs = "final" /\ UNCHANGED <<run, pc, reportStatus, abortRequested>>
        /\ mesh' \in {mesh, Take}
    BY <1>6 DEF FinalAttempt, Exchange, EndInv
  <2> QED BY <2>1, TakeReports, ResultKept
<1>7. CASE LateArrival
  <2>1. /\ ~Working /\ late /\ UNCHANGED <<run, pc, reportStatus, abortRequested>>
        /\ mesh' \in {mesh, Take}
    BY <1>7 DEF LateArrival, EndInv
  <2> QED BY <2>1, TakeReports, ResultKept
<1>8. CASE GiveUp \/ Returned \/ UNCHANGED vars
  BY <1>8, ResultKept DEF GiveUp, Returned, vars, RR!vars
<1>9. CASE UserAborts
  <2>1. /\ ~mesh.abort /\ mesh.status = "IN_PROGRESS"
        /\ mesh'.abort = TRUE /\ mesh'.status \in {"IN_PROGRESS", "ABORTED"}
        /\ UNCHANGED <<run, pc, reportStatus, abortRequested>>
    BY <1>9 DEF UserAborts, EndInv, IsMesh
  <2>2. Result' = Result
    BY <2>1, ResultKept
  <2>3. RR!RequestAbort
    BY <2>1, <2>2 DEF RR!RequestAbort
  <2> QED BY <2>3 DEF RR!Next
<1>10. CASE ProcessDies
  <2>1. /\ pc = "dying" /\ pc' = "dead" /\ UNCHANGED <<run, abortRequested>>
        /\ mesh' = mesh \/ (obs = "final" /\ mesh' \in {mesh, Take})
    BY <1>10 DEF ProcessDies, Exchange
  <2>2. ~Working /\ Result = "FAILED" /\ Result' = "FAILED"
    BY <2>1 DEF Result, Working, Panicked
  <2>3. CASE mesh' = mesh
    BY <2>1, <2>2, <2>3 DEF RR!vars
  <2>4. CASE obs = "final" /\ mesh' \in {mesh, Take}
    BY <2>1, <2>2, <2>4, TakeReports
  <2> QED BY <2>1, <2>3, <2>4
<1> QED BY <1>1, <1>2, <1>3, <1>4, <1>5, <1>6, <1>7, <1>8, <1>9, <1>10 DEF Next, Work, Observe

\* The flags and updates are as the refinement needs them.
LEMMA RefInvariant == Spec => []RefInv
<1>1. Init => RefInv
  <2> SUFFICES ASSUME Init PROVE RefInv
    OBVIOUS
  <2>1. run.async \in BOOLEAN
    BY RunConfigsAssumption DEF Init, RunConfig
  <2>2. abortRequested \in BOOLEAN /\ late \in BOOLEAN /\ ~abortRequested /\ ~late
    BY Zenon DEF Init
  <2> QED BY <2>1, <2>2 DEF Init, RefInv, Working, Panicked, InitialStatus, Terminal
<1> QED BY <1>1, RefInvNext, EndInvariant, PTL DEF Spec

\* The runner keeps its promise to meshStack, for every configuration of the run,
\* any output and any number of lost, late or repeated updates: it reports an end
\* only when its work has ended, the result of that work, and an abort if and
\* only if it was told of one (worker.go, sendFinalStatus, updateStateWithRetry).
THEOREM RefinementTheorem == Spec => ImplementsRunReport
<1>1. Init => RR!Init
  <2> SUFFICES ASSUME Init PROVE RR!Init
    OBVIOUS
  <2>1. run.async \in BOOLEAN
    BY RunConfigsAssumption DEF Init, RunConfig
  <2>2. Working /\ mesh.abort = FALSE /\ abortRequested = FALSE /\ mesh.status = "IN_PROGRESS"
    BY DEF Init, Working
  <2>3. Result = "none"
    BY <2>2 DEF Result
  <2> QED BY <2>1, <2>2, <2>3 DEF RR!Init
<1>2. EndInv /\ RefInv /\ [Next]_vars => [RR!Next]_RR!vars
  BY RefStep
<1> QED BY <1>1, <1>2, EndInvariant, RefInvariant, PTL DEF Spec, ImplementsRunReport, RR!Spec

-----------------------------------------------------------------------------
(* The commands.                                                           *)

\* The number of steps of a run, the positions in its command of the last
\* advanceStep and of completeRun, and the step that each operation belongs to.
NSteps(r) == IF r.async THEN 1 ELSE IF r.behavior = "DETECT" THEN 5 ELSE 6
AdvanceAt(r) == IF (r.behavior = "APPLY" /\ r.artifact) \/ (r.behavior = "DESTROY" /\ r.async)
                THEN 16 ELSE 15
CompleteAt(r) == CASE r.behavior = "APPLY"   -> AdvanceAt(r) + 2
                   [] r.behavior = "DETECT"  -> 17
                   [] r.behavior = "DESTROY" -> AdvanceAt(r) + 3

StepAt(r, i) ==
  IF r.async \/ i <= 5 THEN 1
  ELSE IF i <= 8 THEN 2
  ELSE IF i <= 11 THEN 3
  ELSE IF i <= 13 THEN 4
  ELSE IF r.behavior = "DETECT" \/ i <= AdvanceAt(r) THEN 5 ELSE 6

\* The operations of a run's command.
Operations(r) ==
  {createFreshCommandWd, GetTF, buildTfEnv, assignOutput, saveInputFiles, writeVars, initTf,
   useWorkspaceIfNeeded(r), runPreRunScript(r), downloadPlan, tfApply, tfPlan, readPlan,
   uploadArtifact, tfDestroy, tfOutput, deleteWorkspaceIfNeeded, advanceStep, completeRun}

\* The part that the commands share.
LEMMA PrologueFacts ==
  ASSUME NEW r
  PROVE  /\ Prologue(r) \in Seq(Operations(r))
         /\ Len(Prologue(r)) = 13
         /\ \A i \in 1..13 : Prologue(r)[i].name = "advanceStep" <=> i \in {5, 8, 11, 13}
         /\ \A i \in 1..13 : Prologue(r)[i].name \notin {"completeRun", "output", "plan", "upload"}
<1>1. Prologue(r) \in Seq(Operations(r))
  BY DEF Prologue, Operations
<1>2. /\ Len(Prologue(r)) = 13
      /\ \A i \in 1..13 : Prologue(r)[i].name = "advanceStep" <=> i \in {5, 8, 11, 13}
      /\ \A i \in 1..13 : Prologue(r)[i].name \notin {"completeRun", "output", "plan", "upload"}
  BY DEF Prologue, Op, createFreshCommandWd, GetTF, buildTfEnv, assignOutput, advanceStep,
            saveInputFiles, writeVars, initTf, useWorkspaceIfNeeded, runPreRunScript
<1> QED BY <1>1, <1>2

\* What the operations that follow it are called.
LEMMA Names ==
  /\ downloadPlan.name = "download" /\ tfApply.name = "apply" /\ tfPlan.name = "plan"
  /\ readPlan.name = "readPlan" /\ uploadArtifact.name = "upload" /\ tfDestroy.name = "destroy"
  /\ tfOutput.name = "output" /\ deleteWorkspaceIfNeeded.name = "deleteWorkspace"
  /\ advanceStep.name = "advanceStep" /\ completeRun.name = "completeRun"
BY DEF Op, downloadPlan, tfApply, tfPlan, readPlan, uploadArtifact, tfDestroy,
            tfOutput, deleteWorkspaceIfNeeded, advanceStep, completeRun

\* A command ends with completeRun and nowhere before, advances to the next of
\* its steps and never beyond the last, and has planned and uploaded, or read the
\* outputs, before it completes.
LEMMA Schedule ==
  ASSUME NEW r \in RunConfig
  PROVE  /\ Len(Command(r)) = CompleteAt(r)
         /\ \A i \in 1..CompleteAt(r) : LET name == Command(r)[i].name IN
           /\ name = "completeRun" <=> i = CompleteAt(r)
           /\ name = "advanceStep" <=>
              i \in {5, 8, 11, 13} \/ (r.behavior # "DETECT" /\ i = AdvanceAt(r))
           /\ name = "output" <=> r.behavior # "DETECT" /\ i = AdvanceAt(r) + 1
           /\ name = "plan" <=> r.behavior = "DETECT" /\ i = 14
           /\ name = "upload" <=> r.behavior = "DETECT" /\ i = 16
<1> DEFINE O == Operations(r)
           p == Prologue(r)
           c == Command(r)
<1>0. p \in Seq(O)
  BY PrologueFacts
<1>1. /\ Len(p) = 13
      /\ \A i \in 1..13 : p[i].name = "advanceStep" <=> i \in {5, 8, 11, 13}
      /\ \A i \in 1..13 : p[i].name \notin {"completeRun", "output", "plan", "upload"}
  BY PrologueFacts
<1>2. /\ downloadPlan \in O /\ tfApply \in O /\ tfPlan \in O /\ readPlan \in O
      /\ uploadArtifact \in O /\ tfDestroy \in O /\ tfOutput \in O
      /\ deleteWorkspaceIfNeeded \in O /\ advanceStep \in O /\ completeRun \in O
  BY DEF Operations
<1>3. r.async \in BOOLEAN /\ r.artifact \in BOOLEAN /\ r.behavior \in {"APPLY", "DETECT", "DESTROY"}
  BY DEF RunConfig
<1>4. CASE r.behavior = "APPLY" /\ r.artifact
  <2> DEFINE t == (p \o <<downloadPlan, tfApply>>) \o <<advanceStep, tfOutput, completeRun>>
  <2>1. c = t
    BY <1>4 DEF Command, ApplyCommand
  <2>2. AdvanceAt(r) = 16 /\ CompleteAt(r) = 18
    BY <1>4 DEF AdvanceAt, CompleteAt
  <2> HIDE DEF c, p, O
  <2>3. /\ Len(t) = Len(p) + 5
        /\ \A i \in 1..Len(p) : t[i] = p[i]
        /\ t[Len(p) + 1] = downloadPlan /\ t[Len(p) + 2] = tfApply /\ t[Len(p) + 3] = advanceStep
        /\ t[Len(p) + 4] = tfOutput /\ t[Len(p) + 5] = completeRun
    BY <1>0, <1>2
  <2> HIDE DEF t
  <2>4. /\ Len(c) = 18
        /\ \A i \in 1..13 : c[i] = p[i]
        /\ c[14] = downloadPlan /\ c[15] = tfApply /\ c[16] = advanceStep
        /\ c[17] = tfOutput /\ c[18] = completeRun
    BY <1>1, <2>1, <2>3
  <2>5. QED BY <1>1, <1>4, <2>2, <2>4, Names DEF c
<1>5. CASE r.behavior = "APPLY" /\ ~r.artifact
  <2> DEFINE t == (p \o <<tfApply>>) \o <<advanceStep, tfOutput, completeRun>>
  <2>1. c = t
    BY <1>5 DEF Command, ApplyCommand
  <2>2. AdvanceAt(r) = 15 /\ CompleteAt(r) = 17
    BY <1>5 DEF AdvanceAt, CompleteAt
  <2> HIDE DEF c, p, O
  <2>3. /\ Len(t) = Len(p) + 4
        /\ \A i \in 1..Len(p) : t[i] = p[i]
        /\ t[Len(p) + 1] = tfApply /\ t[Len(p) + 2] = advanceStep /\ t[Len(p) + 3] = tfOutput
        /\ t[Len(p) + 4] = completeRun
    BY <1>0, <1>2
  <2> HIDE DEF t
  <2>4. /\ Len(c) = 17
        /\ \A i \in 1..13 : c[i] = p[i]
        /\ c[14] = tfApply /\ c[15] = advanceStep /\ c[16] = tfOutput
        /\ c[17] = completeRun
    BY <1>1, <2>1, <2>3
  <2>5. QED BY <1>1, <1>5, <2>2, <2>4, Names DEF c
<1>6. CASE r.behavior = "DETECT"
  <2> DEFINE t == p \o <<tfPlan, readPlan, uploadArtifact, completeRun>>
  <2>1. c = t
    BY <1>6 DEF Command, PlanCommand
  <2>2. CompleteAt(r) = 17
    BY <1>6 DEF AdvanceAt, CompleteAt
  <2> HIDE DEF c, p, O
  <2>3. /\ Len(t) = Len(p) + 4
        /\ \A i \in 1..Len(p) : t[i] = p[i]
        /\ t[Len(p) + 1] = tfPlan /\ t[Len(p) + 2] = readPlan /\ t[Len(p) + 3] = uploadArtifact
        /\ t[Len(p) + 4] = completeRun
    BY <1>0, <1>2
  <2> HIDE DEF t
  <2>4. /\ Len(c) = 17
        /\ \A i \in 1..13 : c[i] = p[i]
        /\ c[14] = tfPlan /\ c[15] = readPlan /\ c[16] = uploadArtifact
        /\ c[17] = completeRun
    BY <1>1, <2>1, <2>3
  <2>5. QED BY <1>1, <1>6, <2>2, <2>4, Names DEF c
<1>7. CASE r.behavior = "DESTROY" /\ r.async
  <2> DEFINE t == (p \o <<tfApply>>)
                    \o <<tfDestroy, advanceStep, tfOutput, deleteWorkspaceIfNeeded, completeRun>>
  <2>1. c = t
    BY <1>7 DEF Command, DestroyCommand
  <2>2. AdvanceAt(r) = 16 /\ CompleteAt(r) = 19
    BY <1>7 DEF AdvanceAt, CompleteAt
  <2> HIDE DEF c, p, O
  <2>3. /\ Len(t) = Len(p) + 6
        /\ \A i \in 1..Len(p) : t[i] = p[i]
        /\ t[Len(p) + 1] = tfApply /\ t[Len(p) + 2] = tfDestroy /\ t[Len(p) + 3] = advanceStep
        /\ t[Len(p) + 4] = tfOutput /\ t[Len(p) + 5] = deleteWorkspaceIfNeeded /\ t[Len(p) + 6] = completeRun
    BY <1>0, <1>2
  <2> HIDE DEF t
  <2>4. /\ Len(c) = 19
        /\ \A i \in 1..13 : c[i] = p[i]
        /\ c[14] = tfApply /\ c[15] = tfDestroy /\ c[16] = advanceStep
        /\ c[17] = tfOutput /\ c[18] = deleteWorkspaceIfNeeded /\ c[19] = completeRun
    BY <1>1, <2>1, <2>3
  <2>5. QED BY <1>1, <1>7, <2>2, <2>4, Names DEF c
<1>8. CASE r.behavior = "DESTROY" /\ ~r.async
  <2> DEFINE t == (p \o << >>) \o <<tfDestroy, advanceStep, tfOutput, deleteWorkspaceIfNeeded, completeRun>>
  <2>1. c = t
    BY <1>8 DEF Command, DestroyCommand
  <2>2. AdvanceAt(r) = 15 /\ CompleteAt(r) = 18
    BY <1>8 DEF AdvanceAt, CompleteAt
  <2> HIDE DEF c, p, O
  <2>3. /\ Len(t) = Len(p) + 5
        /\ \A i \in 1..Len(p) : t[i] = p[i]
        /\ t[Len(p) + 1] = tfDestroy /\ t[Len(p) + 2] = advanceStep /\ t[Len(p) + 3] = tfOutput
        /\ t[Len(p) + 4] = deleteWorkspaceIfNeeded /\ t[Len(p) + 5] = completeRun
    BY <1>0, <1>2
  <2> HIDE DEF t
  <2>4. /\ Len(c) = 18
        /\ \A i \in 1..13 : c[i] = p[i]
        /\ c[14] = tfDestroy /\ c[15] = advanceStep /\ c[16] = tfOutput
        /\ c[17] = deleteWorkspaceIfNeeded /\ c[18] = completeRun
    BY <1>1, <2>1, <2>3
  <2>5. QED BY <1>1, <1>8, <2>2, <2>4, Names DEF c
<1> QED BY <1>3, <1>4, <1>5, <1>6, <1>7, <1>8

-----------------------------------------------------------------------------
(* The operators on run statuses, step by step.                            *)

\* A function on 1..n is a sequence of n elements.
LEMMA FunctionsAreSequences ==
  ASSUME NEW S, NEW n \in Nat, NEW f \in [1..n -> S]
  PROVE  f \in Seq(S) /\ Len(f) = n
OBVIOUS

\* An operation other than advanceStep stays in its step, advanceStep leads to the
\* next one, and the operations after the last advanceStep belong to the last step.
LEMMA StepAtFacts ==
  ASSUME NEW r \in RunConfig, NEW i \in 1..CompleteAt(r)
  PROVE  /\ NSteps(r) \in 1..6 /\ StepAt(r, i) \in 1..NSteps(r)
         /\ AdvanceAt(r) \in {15, 16} /\ CompleteAt(r) \in 17..19
         /\ i < CompleteAt(r) /\ Command(r)[i].name # "advanceStep" => StepAt(r, i+1) = StepAt(r, i)
         /\ Command(r)[i].name = "advanceStep" =>
              IF r.async THEN StepAt(r, i+1) = StepAt(r, i)
              ELSE StepAt(r, i+1) = StepAt(r, i) + 1 /\ StepAt(r, i) < NSteps(r)
         /\ i > AdvanceAt(r) => StepAt(r, i) = NSteps(r)
         /\ i = CompleteAt(r) => StepAt(r, i) = NSteps(r)
         /\ StepAt(r, 1) = 1
<1>1. r.async \in BOOLEAN /\ r.artifact \in BOOLEAN /\ r.behavior \in {"APPLY", "DETECT", "DESTROY"}
  BY DEF RunConfig
<1>2. AdvanceAt(r) \in {15, 16}
  BY DEF AdvanceAt
<1>3. /\ r.behavior = "DETECT" => CompleteAt(r) = 17
      /\ r.behavior = "APPLY" => CompleteAt(r) = AdvanceAt(r) + 2
      /\ r.behavior = "DESTROY" => CompleteAt(r) = AdvanceAt(r) + 3
  BY DEF CompleteAt
<1>4. /\ NSteps(r) \in 1..6 /\ (r.async => NSteps(r) = 1)
      /\ (~r.async => NSteps(r) = IF r.behavior = "DETECT" THEN 5 ELSE 6)
  BY <1>1 DEF NSteps
<1>5. Command(r)[i].name = "advanceStep" <=>
              i \in {5, 8, 11, 13} \/ (r.behavior # "DETECT" /\ i = AdvanceAt(r))
  BY Schedule
<1> QED BY <1>1, <1>2, <1>3, <1>4, <1>5 DEF StepAt

\* A status with n steps, one of which is current.
Shape(s, n) == /\ IsStatus(s) /\ s.steps \in [1..n -> StepRecord] /\ s.cur \in 1..n
               /\ s.changes \in BOOLEAN

\* The states of a step; the status with one step replaced.
StepStatus == {"PENDING", "IN_PROGRESS", "SUCCEEDED", "FAILED"}
WithStep(s, i, e) == [s EXCEPT !.steps = [s.steps EXCEPT ![i] = e]]

\* Editing one step leaves the others, and the run's status, alone.
LEMMA WithStepFacts ==
  ASSUME NEW n \in Nat, NEW s, Shape(s, n), NEW c \in 1..n, NEW e \in StepRecord
  PROVE  LET t == WithStep(s, c, e) IN
         /\ Shape(t, n) /\ t.cur = s.cur /\ t.status = s.status /\ t.changes = s.changes
         /\ t.steps[c] = e
         /\ \A i \in 1..n : i # c => t.steps[i] = s.steps[i]
<1> DEFINE q == [s.steps EXCEPT ![c] = e]
<1>1. q \in [1..n -> StepRecord] /\ q[c] = e /\ \A i \in 1..n : i # c => q[i] = s.steps[i]
  BY DEF Shape
<1> HIDE DEF q
<1>2. WithStep(s, c, e) = [s EXCEPT !.steps = q]
  BY DEF WithStep, q
<1> QED BY <1>1, <1>2 DEF Shape, IsStatus

\* Editing a field of a step leaves the others alone.
LEMMA FieldFacts ==
  ASSUME NEW e \in StepRecord
  PROVE  /\ \A size \in Nat \cup {Skipped} : LET f == [e EXCEPT !.to = size] IN
              /\ f \in StepRecord /\ f.to = size
              /\ f.status = e.status /\ f.from = e.from /\ f.user = e.user /\ f.outputs = e.outputs
         /\ \A size \in Nat : LET f == [e EXCEPT !.from = size] IN
              /\ f \in StepRecord /\ f.from = size
              /\ f.status = e.status /\ f.to = e.to /\ f.user = e.user /\ f.outputs = e.outputs
         /\ \A user \in {"none", "script", "error"} : LET f == [e EXCEPT !.user = user] IN
              /\ f \in StepRecord /\ f.user = user
              /\ f.status = e.status /\ f.from = e.from /\ f.to = e.to /\ f.outputs = e.outputs
         /\ \A status \in StepStatus : LET f == [e EXCEPT !.status = status] IN
              /\ f \in StepRecord /\ f.status = status
              /\ f.user = e.user /\ f.from = e.from /\ f.to = e.to /\ f.outputs = e.outputs
  BY DEF StepRecord, StepStatus

\* setCurrentStepMessage sets the end of the current step's log, and its message
\* if there is one.
LEMMA MessageEdit ==
  ASSUME NEW n \in Nat, NEW s, Shape(s, n), NEW user \in {"none", "script", "error"}, NEW size \in Nat
  PROVE  \E e \in StepRecord :
           /\ setCurrentStepMessage(s, user, size) = WithStep(s, s.cur, e)
           /\ e.to = size /\ e.status = s.steps[s.cur].status
           /\ e.from = s.steps[s.cur].from /\ e.outputs = s.steps[s.cur].outputs
           /\ user # "none" => e.user = user
<1> DEFINE e == [s.steps[s.cur] EXCEPT !.to = size]
           f == [e EXCEPT !.user = user]
<1>1. s.steps[s.cur] \in StepRecord /\ s.cur \in 1..n
  BY DEF Shape
<1>2. e \in StepRecord
  BY <1>1 DEF StepRecord
<1>3. /\ e.to = size /\ e.status = s.steps[s.cur].status
      /\ e.from = s.steps[s.cur].from /\ e.outputs = s.steps[s.cur].outputs
  BY <1>1 DEF StepRecord
<1>4. CASE user = "none"
  <2>1. setCurrentStepMessage(s, user, size) = WithStep(s, s.cur, e)
    BY <1>4 DEF setCurrentStepMessage, WithStep, Shape, IsStatus
  <2> HIDE DEF e
  <2> QED BY <1>2, <1>3, <1>4, <2>1
<1>5. CASE user # "none"
  <2>1. setCurrentStepMessage(s, user, size) = WithStep(s, s.cur, f)
    BY <1>5 DEF setCurrentStepMessage, WithStep, Shape, IsStatus
  <2> HIDE DEF e
  <2>2. f \in StepRecord
    BY <1>2, FieldFacts
  <2>3. /\ f.user = user /\ f.status = e.status /\ f.from = e.from /\ f.to = e.to
        /\ f.outputs = e.outputs
    BY <1>2, FieldFacts
  <2> HIDE DEF f
  <2> QED BY <1>3, <2>1, <2>2, <2>3
<1> QED BY <1>4, <1>5

\* nextStep ends the current step and starts the next where the log stands.
LEMMA NextFacts ==
  ASSUME NEW n \in Nat, NEW s, Shape(s, n), s.cur < n, NEW r, ~r.async, NEW size \in Nat
  PROVE  LET t == nextStep(s, r, size) IN
         /\ Shape(t, n) /\ t.cur = s.cur + 1 /\ t.status = s.status /\ t.changes = s.changes
         /\ \A i \in 1..n : i \notin {s.cur, s.cur + 1} => t.steps[i] = s.steps[i]
         /\ t.steps[s.cur].status = "SUCCEEDED" /\ t.steps[s.cur + 1].status = "IN_PROGRESS"
         /\ t.steps[s.cur].from = s.steps[s.cur].from /\ t.steps[s.cur].to = s.steps[s.cur].to
         /\ t.steps[s.cur].outputs = s.steps[s.cur].outputs
         /\ t.steps[s.cur + 1].from = size
<1>0. PICK c \in 1..n, d \in 1..n : c = s.cur /\ d = s.cur + 1 /\ d # c
  BY DEF Shape
<1> DEFINE e == [s.steps[c] EXCEPT !.status = "SUCCEEDED"]
           f == [s.steps[d] EXCEPT !.status = "IN_PROGRESS"]
           g == [f EXCEPT !.from = size]
           t == nextStep(s, r, size)
           u == WithStep(s, c, e)
           w == WithStep(u, d, f)
           v == WithStep(w, d, g)
<1>1. s.steps[c] \in StepRecord /\ s.steps[d] \in StepRecord
  BY <1>0 DEF Shape
<1>2a. e \in StepRecord /\ f \in StepRecord
  BY <1>1, FieldFacts DEF StepStatus
<1>2. /\ e.status = "SUCCEEDED"
      /\ e.from = s.steps[c].from /\ e.to = s.steps[c].to /\ e.outputs = s.steps[c].outputs
      /\ f.status = "IN_PROGRESS"
  BY <1>1, FieldFacts DEF StepStatus
<1> HIDE DEF e, f
<1>3a. g \in StepRecord
  BY <1>2a, FieldFacts
<1>3. g.status = "IN_PROGRESS" /\ g.from = size
  BY <1>2, <1>2a, FieldFacts
<1> HIDE DEF g
<1>4. /\ Shape(u, n) /\ u.cur = s.cur /\ u.status = s.status /\ u.changes = s.changes
      /\ u.steps[c] = e
      /\ \A i \in 1..n : i # c => u.steps[i] = s.steps[i]
  BY <1>2a, WithStepFacts
<1>4a. Shape(u, n)
  BY <1>4
<1>2b. f \in StepRecord
  BY <1>2a
<1>5. Len(s.steps) = n
  BY FunctionsAreSequences DEF Shape
<1>6. t = [s EXCEPT !.steps[s.cur].status = "SUCCEEDED",
                    !.steps[s.cur + 1].status = "IN_PROGRESS",
                    !.steps[s.cur + 1].from = size,
                    !.cur = @ + 1]
  BY <1>5 DEF nextStep, Shape
<1>7. t = [[[[s EXCEPT !.steps[c].status = "SUCCEEDED"]
                 EXCEPT !.steps[d].status = "IN_PROGRESS"]
                 EXCEPT !.steps[d].from = size]
                 EXCEPT !.cur = @ + 1]
  BY <1>0, <1>6
<1>8. u = [s EXCEPT !.steps[c].status = "SUCCEEDED"]
  BY <1>0 DEF Shape, IsStatus, WithStep, e
<1> HIDE DEF t, u
<1>9. w = [u EXCEPT !.steps[d].status = "IN_PROGRESS"]
  <2>1. u.steps[d] = s.steps[d]
    BY <1>0, <1>4
  <2> QED BY <1>0, <1>4, <2>1 DEF Shape, IsStatus, WithStep, f
<1>10. /\ Shape(w, n) /\ w.cur = u.cur /\ w.status = u.status /\ w.changes = u.changes
       /\ w.steps[d] = f
       /\ \A i \in 1..n : i # d => w.steps[i] = u.steps[i]
  BY <1>2b, <1>4a, WithStepFacts
<1> HIDE DEF w
<1>11. v = [w EXCEPT !.steps[d].from = size]
  BY <1>0, <1>10 DEF Shape, IsStatus, WithStep, g
<1>12. /\ Shape(v, n) /\ v.cur = w.cur /\ v.status = w.status /\ v.changes = w.changes
       /\ v.steps[d] = g
       /\ \A i \in 1..n : i # d => v.steps[i] = w.steps[i]
  BY <1>0, <1>3a, <1>10, WithStepFacts
<1> HIDE DEF v
<1>13. t = [v EXCEPT !.cur = d]
  <2>1. t = [v EXCEPT !.cur = @ + 1]
    BY <1>7, <1>8, <1>9, <1>11
  <2> QED BY <1>0, <2>1, <1>4, <1>10, <1>12 DEF Shape, IsStatus
<1>14. IsStatus(t) /\ t.steps = v.steps /\ t.cur = d /\ t.status = v.status /\ t.changes = v.changes
  BY <1>12, <1>13 DEF Shape, IsStatus
<1> QED BY <1>0, <1>2, <1>3, <1>4, <1>10, <1>12, <1>14 DEF Shape, t

\* failRunAndNotFinishedSteps leaves the steps before the current one alone.
LEMMA FailFacts ==
  ASSUME NEW n \in Nat, NEW s, Shape(s, n)
  PROVE  LET t == failRunAndNotFinishedSteps(s) IN
         /\ Shape(t, n) /\ t.cur = s.cur /\ t.status = "FAILED" /\ t.changes = s.changes
         /\ \A i \in 1..n : /\ t.steps[i].from = s.steps[i].from
                            /\ i < s.cur => t.steps[i] = s.steps[i]
                            /\ i >= s.cur => t.steps[i].status = "FAILED"
<1> DEFINE t == failRunAndNotFinishedSteps(s)
           failed(i) == [s.steps[i] EXCEPT !.status = "FAILED"]
           skipped(i) == [failed(i) EXCEPT !.to = Skipped]
           q == [i \in 1..n |-> IF i < s.cur THEN s.steps[i]
                                ELSE IF i = s.cur THEN failed(i) ELSE skipped(i)]
<1>1. \A i \in 1..n : /\ s.steps[i] \in StepRecord
                      /\ failed(i) \in StepRecord /\ failed(i).status = "FAILED"
                      /\ failed(i).from = s.steps[i].from
  BY FieldFacts DEF Shape, StepStatus
<1>2. \A i \in 1..n : [s.steps[i] EXCEPT !.status = "FAILED", !.to = Skipped] = skipped(i)
  BY DEF Shape, StepRecord
<1> HIDE DEF failed
<1>3. \A i \in 1..n : /\ skipped(i) \in StepRecord /\ skipped(i).status = "FAILED"
                      /\ skipped(i).from = s.steps[i].from
  BY <1>1 DEF StepRecord
<1> HIDE DEF skipped
<1>4. q \in [1..n -> StepRecord]
  BY <1>1, <1>3
<1>5. \A i \in 1..n : /\ q[i].from = s.steps[i].from
                      /\ i < s.cur => q[i] = s.steps[i]
                      /\ i >= s.cur => q[i].status = "FAILED"
  BY <1>1, <1>3 DEF Shape
<1>6. t = [s EXCEPT !.status = "FAILED", !.steps = q]
  <2>1. DOMAIN s.steps = 1..n
    BY DEF Shape
  <2>2. t = [s EXCEPT !.status = "FAILED",
            !.steps = [i \in 1..n |->
              IF i < s.cur THEN s.steps[i]
              ELSE IF i = s.cur THEN [s.steps[i] EXCEPT !.status = "FAILED"]
              ELSE [s.steps[i] EXCEPT !.status = "FAILED", !.to = Skipped]]]
    BY <2>1 DEF failRunAndNotFinishedSteps, IsStatus, Shape
  <2>3. q = [i \in 1..n |->
              IF i < s.cur THEN s.steps[i]
              ELSE IF i = s.cur THEN [s.steps[i] EXCEPT !.status = "FAILED"]
              ELSE [s.steps[i] EXCEPT !.status = "FAILED", !.to = Skipped]]
    BY <1>2 DEF failed
  <2> QED BY <2>2, <2>3
<1> HIDE DEF q, t
<1> QED BY <1>4, <1>5, <1>6 DEF Shape, IsStatus, t

\* completeRun ends the current step where the log stands.
LEMMA CompleteFacts ==
  ASSUME NEW n \in Nat, NEW s, Shape(s, n), NEW size \in Nat
  PROVE  LET t == completeStatus(s, size) IN
         /\ Shape(t, n) /\ t.cur = s.cur /\ t.status = "SUCCEEDED" /\ t.changes = s.changes
         /\ t.steps[s.cur].status = "SUCCEEDED" /\ t.steps[s.cur].to = size
         /\ t.steps[s.cur].from = s.steps[s.cur].from
         /\ t.steps[s.cur].outputs = s.steps[s.cur].outputs
         /\ \A i \in 1..n : i # s.cur => t.steps[i] = s.steps[i]
<1> DEFINE t == completeStatus(s, size)
<1>1. "none" \in {"none", "script", "error"}
  OBVIOUS
<1>2. PICK e \in StepRecord :
           /\ setCurrentStepMessage(s, "none", size) = WithStep(s, s.cur, e)
           /\ e.to = size
           /\ e.from = s.steps[s.cur].from /\ e.outputs = s.steps[s.cur].outputs
  BY <1>1, MessageEdit
<1> DEFINE f == [e EXCEPT !.status = "SUCCEEDED"]
           u == WithStep(s, s.cur, f)
<1>3. s.cur \in 1..n
  BY DEF Shape
<1>4. f \in StepRecord
  BY FieldFacts DEF StepStatus
<1>5. f.status = "SUCCEEDED" /\ f.from = e.from /\ f.to = e.to /\ f.outputs = e.outputs
  BY FieldFacts DEF StepStatus
<1>6. t = [WithStep(s, s.cur, e) EXCEPT !.steps[s.cur].status = "SUCCEEDED", !.status = "SUCCEEDED"]
  BY <1>2 DEF completeStatus
<1>7. t = [u EXCEPT !.status = "SUCCEEDED"]
  BY <1>3, <1>6 DEF Shape, IsStatus, WithStep
<1> HIDE DEF f
<1>8. /\ Shape(u, n) /\ u.cur = s.cur /\ u.changes = s.changes
      /\ u.steps[s.cur] = f
      /\ \A i \in 1..n : i # s.cur => u.steps[i] = s.steps[i]
  BY <1>3, <1>4, WithStepFacts
<1> HIDE DEF u, t
<1>9. /\ IsStatus(t) /\ t.status = "SUCCEEDED" /\ t.steps = u.steps /\ t.cur = u.cur /\ t.changes = u.changes
  BY <1>7, <1>8 DEF Shape, IsStatus
<1> QED BY <1>2, <1>3, <1>5, <1>8, <1>9 DEF Shape, t

\* initRunSteps starts with all steps pending.
LEMMA InitStepsFacts ==
  ASSUME NEW s, IsStatus(s), s.changes \in BOOLEAN, NEW r \in RunConfig
  PROVE  LET t == initRunSteps(s, r) IN
         /\ Shape(t, NSteps(r)) /\ t.cur = 1 /\ t.status = s.status
         /\ \A i \in 1..NSteps(r) : t.steps[i] = PendingStep
<1> DEFINE t == initRunSteps(s, r)
           q == [i \in 1..NSteps(r) |-> PendingStep]
<1>1. r.async \in BOOLEAN /\ r.behavior \in {"APPLY", "DETECT", "DESTROY"}
  BY DEF RunConfig
<1>2. NSteps(r) \in 1..6
  BY DEF NSteps
<1>3. t = [s EXCEPT !.steps = q, !.cur = 1]
  <2> DEFINE names == CASE r.behavior = "APPLY"   -> ApplySteps(r)
                        [] r.behavior = "DETECT"  -> PlanSteps(r)
                        [] r.behavior = "DESTROY" -> DestroySteps(r)
  <2>1. Len(names) = NSteps(r)
    BY <1>1 DEF NSteps, ApplySteps, PlanSteps, DestroySteps
  <2> QED BY <2>1 DEF initRunSteps
<1>4. PendingStep \in StepRecord
  BY DEF PendingStep, StepRecord
<1>5. q \in [1..NSteps(r) -> StepRecord] /\ \A i \in 1..NSteps(r) : q[i] = PendingStep
  BY <1>4
<1> HIDE DEF q, t
<1>6. IsStatus(t) /\ t.steps = q /\ t.cur = 1 /\ t.status = s.status /\ t.changes = s.changes
  BY <1>3 DEF IsStatus
<1> QED BY <1>2, <1>5, <1>6 DEF Shape, t

-----------------------------------------------------------------------------
(* The invariants of the edited and of the published status.               *)

\* The steps up to the current one cut the log into consecutive parts.
Cuts(s) == /\ s.steps[1].from = 0
           /\ \A i \in 1..s.cur - 1 : s.steps[i].to = s.steps[i + 1].from

\* The steps of a run that goes on: those before the current one succeeded, those
\* after it have not begun.
Proceeds(s) ==
  \A i \in 1..NSteps(run) :
    /\ i < s.cur => s.steps[i].status = "SUCCEEDED"
    /\ i = s.cur => s.steps[i].status \in {"PENDING", "IN_PROGRESS"}
    /\ i > s.cur => s.steps[i].status = "PENDING"

\* What the operations so far have stored for the run's followers.
Stored(s) ==
  /\ run.behavior = "DETECT" => (ip > 14 => s.changes) /\ (ip > 16 => uploaded)
  /\ run.behavior # "DETECT" /\ ip > AdvanceAt(run) + 1 => s.steps[NSteps(run)].outputs

\* The status of a command that has ended.
Concluded(s) ==
  /\ Cuts(s) /\ s.steps[s.cur].to = logSize
  /\ s.status = "FAILED" => s.steps[s.cur].user # "none"
  /\ s.status = "SUCCEEDED" =>
       /\ \A i \in 1..NSteps(run) : s.steps[i].status = "SUCCEEDED"
       /\ IF run.behavior = "DETECT" THEN uploaded /\ s.changes ELSE s.steps[NSteps(run)].outputs

\* A published step may become what the second status says.
Leads(a, b) == /\ Rank[a] <= Rank[b]
               /\ Rank[a] = 2 => b = a

\* The edited status agrees with the position of the command.
EditInv ==
  /\ run \in RunConfig /\ ip \in 1..CompleteAt(run) /\ logSize \in Nat
  /\ pc \in {"setup", "registering", "notStarted"} => ip = 1 /\ logSize = 0
  /\ pc \in {"setup", "notStarted"} => runStatus = InitialStatus
  /\ pc \notin {"setup", "notStarted"} => Shape(runStatus, NSteps(run))
  /\ pc \in {"registering", "executing", "failing"} =>
       Cuts(runStatus)
  /\ pc \in {"registering", "executing"} =>
       /\ runStatus.cur = StepAt(run, ip) /\ runStatus.status = "IN_PROGRESS"
       /\ Proceeds(runStatus) /\ Stored(runStatus)

\* The published status follows it.
PublishInv ==
  /\ pc \in {"setup", "notStarted", "registering"} => reportStatus = InitialStatus
  /\ pc \in {"executing", "failing", "panicking"} \/ Panicked => Shape(reportStatus, NSteps(run))
  /\ pc \in {"executing", "failing"} =>
       \A i \in 1..NSteps(run) : Leads(reportStatus.steps[i].status, runStatus.steps[i].status)
  /\ pc = "executing" =>
       \A i \in 1..NSteps(run) : reportStatus.steps[i].status = runStatus.steps[i].status
  /\ pc \in {"signal", "ended"} =>
       \/ reportStatus = InitFailStatus /\ ip = 1 /\ logSize = 0
       \/ reportStatus = runStatus /\ Concluded(runStatus)

\* meshfed shows a success only after it was reported.
ShownInv == mesh.status = "SUCCEEDED" => pc = "ended" /\ reportStatus.status = "SUCCEEDED"

\* Both statuses agree with where the command is.
StatusInv == EditInv /\ PublishInv

-----------------------------------------------------------------------------
(* What the operators do to these invariants.                              *)

\* The second status is the first one, but for what its current step has logged.
Keeps(t, s, n) ==
  /\ t.cur = s.cur /\ t.status = s.status
  /\ \A i \in 1..n : /\ t.steps[i].status = s.steps[i].status
                     /\ t.steps[i].from = s.steps[i].from
                     /\ i # s.cur => t.steps[i].to = s.steps[i].to

\* Such an edit keeps how the steps cut the log and how far they are.
LEMMA KeepsFacts ==
  ASSUME NEW n \in Nat, NEW s, NEW t, s.cur \in 1..n, Keeps(t, s, n)
  PROVE  /\ Cuts(s) => Cuts(t)
         /\ n = NSteps(run) /\ Proceeds(s) => Proceeds(t)
<1>1. Cuts(s) => Cuts(t)
  BY DEF Keeps, Cuts
<1>2. n = NSteps(run) /\ Proceeds(s) => Proceeds(t)
  BY DEF Keeps, Proceeds
<1> QED BY <1>1, <1>2

\* Setting a message keeps the shape of the status.
LEMMA MessageShape ==
  ASSUME NEW n \in Nat, NEW s, Shape(s, n), NEW user \in {"none", "script", "error"}, NEW size \in Nat
  PROVE  Shape(setCurrentStepMessage(s, user, size), n)
<1>1. PICK e \in StepRecord : setCurrentStepMessage(s, user, size) = WithStep(s, s.cur, e)
  BY MessageEdit
<1>2. s.cur \in 1..n
  BY DEF Shape
<1> QED BY <1>1, <1>2, WithStepFacts

\* Setting a message is such an edit, and ends the current step's log where the log
\* stands.
LEMMA MessageFacts ==
  ASSUME NEW n \in Nat, NEW s, Shape(s, n), NEW user \in {"none", "script", "error"}, NEW size \in Nat
  PROVE  LET t == setCurrentStepMessage(s, user, size) IN
         /\ Keeps(t, s, n) /\ t.changes = s.changes
         /\ \A i \in 1..n : t.steps[i].outputs = s.steps[i].outputs
         /\ t.steps[s.cur].to = size
         /\ user # "none" => t.steps[s.cur].user = user
<1> DEFINE t == setCurrentStepMessage(s, user, size)
<1>1. PICK e \in StepRecord :
           /\ t = WithStep(s, s.cur, e)
           /\ e.to = size /\ e.status = s.steps[s.cur].status
           /\ e.from = s.steps[s.cur].from /\ e.outputs = s.steps[s.cur].outputs
           /\ user # "none" => e.user = user
  BY MessageEdit
<1>2. s.cur \in 1..n
  BY DEF Shape
<1> DEFINE u == WithStep(s, s.cur, e)
<1>3. /\ u.cur = s.cur /\ u.status = s.status /\ u.changes = s.changes
      /\ u.steps[s.cur] = e
      /\ \A i \in 1..n : i # s.cur => u.steps[i] = s.steps[i]
  BY <1>2, WithStepFacts
<1> HIDE DEF t, u
<1>4. t = u
  BY <1>1 DEF u
<1> QED BY <1>1, <1>2, <1>3, <1>4 DEF Keeps, t

\* Recording the outputs is such an edit.
LEMMA OutputsEdit ==
  ASSUME NEW n \in Nat, NEW s, Shape(s, n)
  PROVE  LET t == [s EXCEPT !.steps[s.cur].outputs = TRUE] IN
         /\ Shape(t, n) /\ Keeps(t, s, n) /\ t.changes = s.changes
         /\ t.steps[s.cur].outputs
         /\ \A i \in 1..n : i # s.cur => t.steps[i] = s.steps[i]
<1> DEFINE e == [s.steps[s.cur] EXCEPT !.outputs = TRUE]
           u == WithStep(s, s.cur, e)
           t == [s EXCEPT !.steps[s.cur].outputs = TRUE]
<1>1. s.steps[s.cur] \in StepRecord /\ s.cur \in 1..n
  BY DEF Shape
<1>2. e \in StepRecord
  BY <1>1 DEF StepRecord
<1>3. /\ e.outputs /\ e.status = s.steps[s.cur].status
      /\ e.from = s.steps[s.cur].from /\ e.to = s.steps[s.cur].to
  BY <1>1 DEF StepRecord
<1>4. t = u
  BY <1>1 DEF Shape, IsStatus, WithStep
<1> HIDE DEF e
<1>5. /\ Shape(u, n) /\ u.cur = s.cur /\ u.status = s.status /\ u.changes = s.changes
      /\ u.steps[s.cur] = e
      /\ \A i \in 1..n : i # s.cur => u.steps[i] = s.steps[i]
  BY <1>1, <1>2, WithStepFacts
<1> HIDE DEF t, u
<1> QED BY <1>1, <1>3, <1>4, <1>5 DEF Keeps, t

\* Recording that the plan has changes is such an edit.
LEMMA ChangesEdit ==
  ASSUME NEW n \in Nat, NEW s, Shape(s, n)
  PROVE  LET t == [s EXCEPT !.changes = TRUE] IN
         Shape(t, n) /\ Keeps(t, s, n) /\ t.changes /\ t.steps = s.steps
<1> DEFINE t == [s EXCEPT !.changes = TRUE]
<1>1. t = [status |-> s.status, steps |-> s.steps, cur |-> s.cur, changes |-> TRUE]
  <2>1. \A v : [s EXCEPT !.changes = v]
                 = [status |-> s.status, steps |-> s.steps, cur |-> s.cur, changes |-> v]
    BY DEF Shape, IsStatus
  <2> QED BY <2>1, Zenon
<1>2. t.status = s.status /\ t.steps = s.steps /\ t.cur = s.cur
  BY <1>1
<1>3. t.changes = TRUE
  BY <1>1
<1> HIDE DEF t
<1>4. IsStatus(t)
  BY <1>1, <1>2, <1>3 DEF IsStatus
<1>5. Shape(t, n)
  BY <1>2, <1>3, <1>4 DEF Shape
<1>6. Keeps(t, s, n)
  BY <1>2 DEF Keeps
<1> QED BY <1>2, <1>3, <1>5, <1>6 DEF t

\* A finished step leads nowhere else, an unfinished one anywhere ahead.
LEMMA LeadsFacts ==
  /\ \A a \in StepStatus : Leads(a, a)
  /\ \A a \in {"PENDING", "IN_PROGRESS"} : Leads(a, "SUCCEEDED") /\ Leads(a, "FAILED")
  /\ Leads("PENDING", "IN_PROGRESS")
  BY DEF Leads, Rank, StepStatus

\* advanceStep ends the current step, and its log, and begins the next one.
LEMMA AdvanceFacts ==
  ASSUME NEW n \in Nat, n = NSteps(run), NEW s, Shape(s, n), s.cur < n, ~run.async,
         NEW user \in {"none", "script", "error"}, NEW size \in Nat
  PROVE  LET t == nextStep(setCurrentStepMessage(s, user, size), run, size) IN
         /\ Shape(t, n) /\ t.cur = s.cur + 1 /\ t.status = s.status
         /\ Cuts(s) => Cuts(t)
         /\ Proceeds(s) => Proceeds(t)
         /\ Proceeds(s) => \A i \in 1..n : Leads(s.steps[i].status, t.steps[i].status)
<1> DEFINE m == setCurrentStepMessage(s, user, size)
           t == nextStep(m, run, size)
<1>0. PICK c \in 1..n, d \in 1..n : c = s.cur /\ d = s.cur + 1
  BY DEF Shape
<1>1. Shape(m, n)
  BY MessageShape
<1>2. Keeps(m, s, n) /\ m.steps[s.cur].to = size
  BY MessageFacts
<1> HIDE DEF m
<1>3. m.cur = c /\ m.cur < n
  BY <1>0, <1>2 DEF Keeps
<1>4. /\ Shape(t, n) /\ t.cur = m.cur + 1 /\ t.status = m.status /\ t.changes = m.changes
      /\ \A i \in 1..n : i \notin {m.cur, m.cur + 1} => t.steps[i] = m.steps[i]
      /\ t.steps[m.cur].status = "SUCCEEDED" /\ t.steps[m.cur + 1].status = "IN_PROGRESS"
      /\ t.steps[m.cur].from = m.steps[m.cur].from /\ t.steps[m.cur].to = m.steps[m.cur].to
      /\ t.steps[m.cur].outputs = m.steps[m.cur].outputs
      /\ t.steps[m.cur + 1].from = size
  BY <1>1, <1>3, NextFacts
<1> HIDE DEF t
<1>5. /\ t.cur = d /\ t.status = s.status
      /\ \A i \in 1..n : i \notin {c, d} => t.steps[i] = m.steps[i]
      /\ t.steps[c].status = "SUCCEEDED" /\ t.steps[d].status = "IN_PROGRESS"
      /\ t.steps[c].from = m.steps[c].from /\ t.steps[c].to = m.steps[c].to
      /\ t.steps[d].from = size
  BY <1>0, <1>2, <1>3, <1>4 DEF Keeps
<1>6. /\ \A i \in 1..n : i \notin {c, d} => /\ t.steps[i].status = s.steps[i].status
                                            /\ t.steps[i].from = s.steps[i].from
                                            /\ t.steps[i].to = s.steps[i].to
      /\ t.steps[c].from = s.steps[c].from /\ t.steps[c].to = size
  BY <1>0, <1>2, <1>5 DEF Keeps
<1>7. Cuts(s) => Cuts(t)
  <2> SUFFICES ASSUME Cuts(s) PROVE Cuts(t)
    OBVIOUS
  <2>1. t.steps[1].from = 0
    BY <1>0, <1>6 DEF Cuts
  <2>2. ASSUME NEW i \in 1..t.cur - 1 PROVE t.steps[i].to = t.steps[i + 1].from
    <3>1. CASE i = c
      BY <1>0, <1>5, <1>6, <3>1
    <3>2. CASE i # c
      <4>1. i \in 1..s.cur - 1 /\ i + 1 \in 1..n /\ i \in 1..n /\ i + 1 # d /\ i # d
        BY <1>0, <1>5, <3>2
      <4>2. s.steps[i].to = s.steps[i + 1].from
        BY <4>1 DEF Cuts
      <4> QED BY <1>0, <1>6, <3>2, <4>1, <4>2
    <3> QED BY <3>1, <3>2
  <2> QED BY <2>1, <2>2 DEF Cuts
<1>8. Proceeds(s) => Proceeds(t)
  BY <1>0, <1>5, <1>6 DEF Proceeds
<1>9. Proceeds(s) => \A i \in 1..n : Leads(s.steps[i].status, t.steps[i].status)
  <2> SUFFICES ASSUME Proceeds(s), NEW i \in 1..n PROVE Leads(s.steps[i].status, t.steps[i].status)
    OBVIOUS
  <2>1. s.steps[i].status \in StepStatus
    BY DEF Shape, StepRecord, StepStatus
  <2>2. CASE i = c
    BY <1>0, <1>5, <2>2, LeadsFacts DEF Proceeds
  <2>3. CASE i = d
    BY <1>0, <1>5, <2>3, LeadsFacts DEF Proceeds
  <2>4. CASE i \notin {c, d}
    BY <1>6, <2>1, <2>4, LeadsFacts
  <2> QED BY <2>2, <2>3, <2>4
<1> QED BY <1>0, <1>4, <1>5, <1>7, <1>8, <1>9 DEF t, m

\* A failure changes no step that has finished.
LEMMA FailLeads ==
  ASSUME NEW n \in Nat, n = NSteps(run), NEW s, Shape(s, n), Proceeds(s)
  PROVE  LET t == failRunAndNotFinishedSteps(s) IN
         \A i \in 1..n : Leads(s.steps[i].status, t.steps[i].status)
<1> DEFINE t == failRunAndNotFinishedSteps(s)
<1>1. \A i \in 1..n : /\ i < s.cur => t.steps[i] = s.steps[i]
                      /\ i >= s.cur => t.steps[i].status = "FAILED"
  BY FailFacts
<1>2. s.cur \in 1..n /\ \A i \in 1..n : s.steps[i].status \in StepStatus
  BY DEF Shape, StepRecord, StepStatus
<1> HIDE DEF t
<1>3. ASSUME NEW i \in 1..n PROVE Leads(s.steps[i].status, t.steps[i].status)
  <2>1. CASE i < s.cur
    BY <1>1, <1>2, <2>1, LeadsFacts
  <2>2. CASE i >= s.cur
    <3>1. s.steps[i].status \in {"PENDING", "IN_PROGRESS"}
      BY <1>2, <2>2 DEF Proceeds
    <3> QED BY <1>1, <2>2, <3>1, LeadsFacts
  <2> QED BY <1>2, <2>1, <2>2
<1> QED BY <1>3 DEF t

\* A failure keeps how the steps cut the log.
LEMMA FailCuts ==
  ASSUME NEW n \in Nat, NEW s, Shape(s, n), Cuts(s)
  PROVE  Cuts(failRunAndNotFinishedSteps(s))
<1> DEFINE t == failRunAndNotFinishedSteps(s)
<1>1. /\ t.cur = s.cur
      /\ \A i \in 1..n : /\ t.steps[i].from = s.steps[i].from
                         /\ i < s.cur => t.steps[i] = s.steps[i]
  BY FailFacts
<1>2. s.cur \in 1..n
  BY DEF Shape
<1> HIDE DEF t
<1>3. Cuts(t)
  BY <1>1, <1>2 DEF Cuts
<1> QED BY <1>3 DEF t

\* A command that completes has concluded, in its last step and with what its
\* followers need.
LEMMA CompleteConcludes ==
  ASSUME NEW n \in Nat, NEW s, Shape(s, n), logSize \in Nat
  PROVE  LET t == completeStatus(s, logSize) IN
         /\ n = NSteps(run) /\ s.cur = n /\ Cuts(s) /\ Proceeds(s)
         /\ IF run.behavior = "DETECT" THEN uploaded /\ s.changes ELSE s.steps[n].outputs
         => /\ Shape(t, n) /\ Concluded(t) /\ t.status = "SUCCEEDED"
            /\ \A i \in 1..n : Leads(s.steps[i].status, t.steps[i].status)
<1> DEFINE t == completeStatus(s, logSize)
<1>1. /\ Shape(t, n) /\ t.cur = s.cur /\ t.status = "SUCCEEDED" /\ t.changes = s.changes
      /\ t.steps[s.cur].status = "SUCCEEDED" /\ t.steps[s.cur].to = logSize
      /\ t.steps[s.cur].from = s.steps[s.cur].from
      /\ t.steps[s.cur].outputs = s.steps[s.cur].outputs
      /\ \A i \in 1..n : i # s.cur => t.steps[i] = s.steps[i]
  BY CompleteFacts
<1> SUFFICES ASSUME n = NSteps(run), s.cur = n, Cuts(s), Proceeds(s),
                    IF run.behavior = "DETECT" THEN uploaded /\ s.changes ELSE s.steps[n].outputs
             PROVE  /\ Shape(t, n) /\ Concluded(t) /\ t.status = "SUCCEEDED"
                    /\ \A i \in 1..n : Leads(s.steps[i].status, t.steps[i].status)
  OBVIOUS
<1>2. n \in 1..n /\ \A i \in 1..n : s.steps[i].status \in StepStatus
  BY DEF Shape, StepRecord, StepStatus
<1> HIDE DEF t
<1>3. Cuts(t)
  BY <1>1, <1>2 DEF Cuts
<1>4. \A i \in 1..n : t.steps[i].status = "SUCCEEDED"
  BY <1>1, <1>2 DEF Proceeds
<1>5. Concluded(t)
  <2>1. t.steps[t.cur].to = logSize
    BY <1>1
  <2>2. t.status # "FAILED"
    BY <1>1
  <2>3. IF run.behavior = "DETECT" THEN uploaded /\ t.changes ELSE t.steps[NSteps(run)].outputs
    BY <1>1
  <2> QED BY <1>3, <1>4, <2>1, <2>2, <2>3 DEF Concluded
<1>6. ASSUME NEW i \in 1..n PROVE Leads(s.steps[i].status, t.steps[i].status)
  <2>1. CASE i = n
    BY <1>1, <1>2, <2>1, LeadsFacts DEF Proceeds
  <2>2. CASE i # n
    BY <1>1, <1>2, <2>2, LeadsFacts
  <2> QED BY <2>1, <2>2
<1> QED BY <1>1, <1>5, <1>6 DEF t

-----------------------------------------------------------------------------
(* Every step keeps them.                                                  *)

\* The observer, the clock and meshfed leave both statuses alone.
LEMMA StatusOthers ==
  ASSUME StatusInv, RefInv,
         UNCHANGED <<run, ip, runStatus, logSize, uploaded, reportStatus>>,
         \/ pc' = pc
         \/ pc = "signal" /\ pc' = "ended"
         \/ pc \in {"panicking", "dying"} /\ pc' \in {"dying", "dead"}
  PROVE  StatusInv'
<1>1. EditInv'
  BY DEF StatusInv, EditInv, Cuts, Proceeds, Stored, Shape, IsStatus
<1>2. PublishInv'
  BY DEF StatusInv, PublishInv, Concluded, Cuts, Shape, IsStatus, Panicked
<1> QED BY <1>1, <1>2 DEF StatusInv

\* A panic in GetTF leaves both statuses as they are.
LEMMA StatusPanics ==
  ASSUME StatusInv, GetTFPanics
  PROVE  StatusInv'
<1>1. /\ pc = "executing" /\ pc' = "panicking"
      /\ UNCHANGED <<run, ip, runStatus, logSize, uploaded, reportStatus>>
  BY DEF GetTFPanics, Executing
<1>2. EditInv'
  BY <1>1 DEF StatusInv, EditInv, Shape, IsStatus
<1>3. PublishInv'
  BY <1>1 DEF StatusInv, PublishInv, Panicked, Shape, IsStatus
<1> QED BY <1>2, <1>3 DEF StatusInv

\* Where a run starts, and how its work begins.
LEMMA StatusStart ==
  ASSUME StatusInv, EndInv,
         SetUp \/ SetUpFails \/ StartFails \/ Register \/ RegisterFails
  PROVE  StatusInv'
<1> DEFINE n == NSteps(run)
<1>0. run \in RunConfig /\ logSize \in Nat /\ ip \in 1..CompleteAt(run)
  BY DEF StatusInv, EditInv
<1>n. n \in 1..6 /\ StepAt(run, 1) = 1 /\ AdvanceAt(run) \in {15, 16}
  BY <1>0, StepAtFacts
<1>1. CASE SetUp
  <2>1. /\ pc = "setup" /\ pc' = "registering" /\ runStatus' = initRunSteps(runStatus, run)
        /\ UNCHANGED <<run, ip, logSize, uploaded, reportStatus>>
        /\ runStatus = InitialStatus /\ reportStatus = InitialStatus /\ ip = 1
    BY <1>1 DEF SetUp, StatusInv, EditInv, PublishInv
  <2>2. IsStatus(runStatus) /\ runStatus.changes \in BOOLEAN /\ runStatus.status = "IN_PROGRESS"
    BY <2>1 DEF InitialStatus, IsStatus
  <2> DEFINE t == initRunSteps(runStatus, run)
  <2>3. /\ Shape(t, n) /\ t.cur = 1 /\ t.status = runStatus.status
        /\ \A i \in 1..n : t.steps[i] = PendingStep
    BY <1>0, <2>2, InitStepsFacts
  <2> HIDE DEF t
  <2>4. PendingStep.status = "PENDING" /\ PendingStep.from = 0
    BY DEF PendingStep
  <2>5. Cuts(t)
    BY <1>n, <2>3, <2>4 DEF Cuts
  <2>6. Proceeds(t)
    BY <1>n, <2>3, <2>4 DEF Proceeds
  <2>7. runStatus' = t
    BY <2>1 DEF t
  <2>8. EditInv'
    BY <1>0, <1>n, <2>1, <2>2, <2>3, <2>5, <2>6, <2>7 DEF EditInv, StatusInv, Proceeds, Stored
  <2>9. PublishInv'
    BY <2>1 DEF PublishInv, Panicked
  <2> QED BY <2>8, <2>9 DEF StatusInv
<1>2. CASE SetUpFails \/ StartFails
  <2>1. /\ pc = "setup" /\ pc' = "notStarted"
        /\ UNCHANGED <<run, ip, runStatus, logSize, uploaded, reportStatus>>
    BY <1>2 DEF SetUpFails, StartFails
  <2> QED BY <2>1 DEF StatusInv, EditInv, PublishInv, Panicked
<1>3. CASE Register
  <2>1. /\ pc = "registering" /\ pc' = "executing" /\ reportStatus' = runStatus
        /\ UNCHANGED <<run, ip, runStatus, logSize, uploaded>>
    BY <1>3 DEF Register
  <2>2. EditInv'
    BY <2>1 DEF StatusInv, EditInv, Cuts, Proceeds, Stored, Shape, IsStatus
  <2>3. Shape(runStatus, n) /\ \A i \in 1..n : runStatus.steps[i].status \in StepStatus
    BY <2>1 DEF StatusInv, EditInv, Shape, StepRecord, StepStatus
  <2>4. \A i \in 1..n : Leads(runStatus.steps[i].status, runStatus.steps[i].status)
    BY <2>3, LeadsFacts
  <2>5. PublishInv'
    BY <2>1, <2>3, <2>4 DEF PublishInv
  <2> QED BY <2>2, <2>5 DEF StatusInv
<1>4. CASE RegisterFails
  <2>1. /\ pc = "registering" /\ pc' = "signal"
        /\ reportStatus' = [reportStatus EXCEPT !.status = "FAILED"]
        /\ UNCHANGED <<run, ip, runStatus, logSize, uploaded>>
    BY <1>4 DEF RegisterFails, reportFailed
  <2>2. EditInv'
    BY <2>1 DEF StatusInv, EditInv, Shape, IsStatus
  <2>3. reportStatus' = InitFailStatus
    BY <2>1 DEF StatusInv, PublishInv, InitFailStatus
  <2> QED BY <2>1, <2>2, <2>3 DEF StatusInv, EditInv, PublishInv, Panicked
<1> QED BY <1>1, <1>2, <1>3, <1>4

\* An operation that writes to the log, or ends well.
LEMMA StatusPerform ==
  ASSUME StatusInv, EndInv, WriteLog \/ OpSucceeds
  PROVE  StatusInv'
<1> DEFINE n == NSteps(run)
           s == runStatus
           name == CurrentOp.name
<1>0. /\ run \in RunConfig /\ logSize \in Nat /\ ip \in 1..CompleteAt(run)
      /\ pc = "executing" /\ Shape(s, n) /\ Cuts(s) /\ s.cur = StepAt(run, ip) /\ s.status = "IN_PROGRESS"
      /\ Proceeds(s) /\ Stored(s)
  BY DEF StatusInv, EditInv, WriteLog, OpSucceeds, Performing
<1>n. n \in Nat /\ n \in 1..6 /\ s.cur \in 1..n /\ AdvanceAt(run) \in {15, 16} /\ CompleteAt(run) \in 17..19
  BY <1>0, StepAtFacts DEF Shape
<1>p. /\ Shape(reportStatus, n)
      /\ \A i \in 1..n : reportStatus.steps[i].status = s.steps[i].status
      /\ \A i \in 1..n : s.steps[i].status \in StepStatus
  BY <1>0 DEF StatusInv, PublishInv, Shape, StepRecord, StepStatus
<1>l. \A i \in 1..n : Leads(s.steps[i].status, s.steps[i].status)
  BY <1>p, LeadsFacts
<1>1. CASE WriteLog
  <2>1. /\ logSize' = logSize + 1 /\ UNCHANGED <<run, pc, ip, uploaded>>
        /\ \/ runStatus' = setCurrentStepMessage(s, "none", logSize') /\ reportStatus' = runStatus'
           \/ UNCHANGED <<runStatus, reportStatus>>
    BY <1>1 DEF WriteLog
  <2>2. CASE UNCHANGED <<runStatus, reportStatus>>
    <3>1. EditInv'
      BY <1>0, <2>1, <2>2 DEF EditInv, Cuts, Proceeds, Stored, Shape, IsStatus
    <3>2. PublishInv'
      BY <1>0, <1>p, <1>l, <2>1, <2>2 DEF PublishInv, Shape, IsStatus
    <3> QED BY <3>1, <3>2 DEF StatusInv
  <2>3. CASE runStatus' = setCurrentStepMessage(s, "none", logSize') /\ reportStatus' = runStatus'
    <3>1. PICK none \in {"none", "script", "error"}, size \in Nat : none = "none" /\ size = logSize'
      BY <1>0, <2>1
    <3> DEFINE t == setCurrentStepMessage(s, none, size)
    <3>2. Shape(t, n)
      BY <1>0, <1>n, MessageShape
    <3>3. Keeps(t, s, n) /\ t.changes = s.changes /\ \A i \in 1..n : t.steps[i].outputs = s.steps[i].outputs
      BY <1>0, <1>n, MessageFacts
    <3>4. runStatus' = t /\ reportStatus' = t
      BY <2>3, <3>1
    <3> HIDE DEF t
    <3>5. Cuts(t) /\ Proceeds(t)
      BY <1>0, <1>n, <3>3, KeepsFacts
    <3>6. Stored(t)
      BY <1>0, <1>n, <3>3 DEF Stored
    <3>7. t.cur = s.cur /\ t.status = s.status /\ \A i \in 1..n : t.steps[i].status = s.steps[i].status
      BY <3>3 DEF Keeps
    <3>8. EditInv'
      BY <1>0, <1>n, <2>1, <3>2, <3>4, <3>5, <3>6, <3>7 DEF EditInv, Proceeds, Stored
    <3>9. PublishInv'
      BY <1>0, <1>l, <2>1, <3>2, <3>4, <3>7 DEF PublishInv
    <3> QED BY <3>8, <3>9 DEF StatusInv
  <2> QED BY <2>1, <2>2, <2>3
<1>2. CASE OpSucceeds
  <2>1. /\ ip' = ip + 1 /\ UNCHANGED <<run, pc, logSize, reportStatus>>
        /\ name \notin {"advanceStep", "completeRun"}
    BY <1>2 DEF OpSucceeds, Performing
  <2>2. name = Command(run)[ip].name
    BY DEF CurrentOp
  <2>3. /\ name = "completeRun" <=> ip = CompleteAt(run)
        /\ name = "output" <=> run.behavior # "DETECT" /\ ip = AdvanceAt(run) + 1
        /\ name = "plan" <=> run.behavior = "DETECT" /\ ip = 14
        /\ name = "upload" <=> run.behavior = "DETECT" /\ ip = 16
    BY <1>0, <2>2, Schedule
  <2>4. ip' \in 1..CompleteAt(run) /\ StepAt(run, ip') = StepAt(run, ip)
    BY <1>0, <1>n, <2>1, <2>2, <2>3, StepAtFacts
  <2>5. (uploaded => uploaded') /\ (name = "upload" => uploaded')
    BY <1>2 DEF OpSucceeds
  <2>6. ASSUME NEW t, runStatus' = t, Shape(t, n), Keeps(t, s, n), s.changes => t.changes,
               name = "plan" => t.changes,
               name = "output" => t.steps[s.cur].outputs,
               \A i \in 1..n : s.steps[i].outputs => t.steps[i].outputs
        PROVE  StatusInv'
    <3>1. Cuts(t) /\ Proceeds(t)
      BY <1>0, <1>n, <2>6, KeepsFacts
    <3>2. t.cur = s.cur /\ t.status = s.status /\ \A i \in 1..n : t.steps[i].status = s.steps[i].status
      BY <2>6 DEF Keeps
    <3>3. name = "output" => s.cur = n
      BY <1>0, <1>n, <2>3, StepAtFacts
    <3>4. Stored(t)'
      <4>1. run.behavior = "DETECT" => (ip' > 14 => t.changes) /\ (ip' > 16 => uploaded')
        BY <1>0, <2>1, <2>3, <2>5, <2>6 DEF Stored
      <4>2. run.behavior # "DETECT" /\ ip' > AdvanceAt(run) + 1 => t.steps[n].outputs
        <5>1. CASE ip > AdvanceAt(run) + 1
          BY <1>0, <1>n, <2>6, <5>1 DEF Stored
        <5>2. CASE ip <= AdvanceAt(run) + 1
          BY <1>0, <1>n, <2>1, <2>3, <2>6, <3>3, <5>2
        <5> QED BY <1>0, <1>n, <5>1, <5>2
      <4> QED BY <2>1, <4>1, <4>2 DEF Stored
    <3>5. EditInv'
      BY <1>0, <1>n, <2>1, <2>4, <2>6, <3>1, <3>2, <3>4 DEF EditInv, Proceeds, Stored
    <3>6. PublishInv'
      BY <1>0, <1>p, <1>l, <2>1, <2>6, <3>2 DEF PublishInv, Shape, IsStatus
    <3> QED BY <3>5, <3>6 DEF StatusInv
  <2>7. CASE name = "plan"
    <3>1. runStatus' = [s EXCEPT !.changes = TRUE]
      BY <1>2, <2>7 DEF OpSucceeds
    <3>2. Shape(runStatus', n) /\ Keeps(runStatus', s, n) /\ runStatus'.changes /\ runStatus'.steps = s.steps
      BY <1>0, <1>n, <3>1, ChangesEdit
    <3> QED BY <2>6, <2>7, <3>2
  <2>8. CASE name = "output"
    <3>1. runStatus' = [s EXCEPT !.steps[s.cur].outputs = TRUE]
      BY <1>2, <2>8 DEF OpSucceeds
    <3> DEFINE t == [s EXCEPT !.steps[s.cur].outputs = TRUE]
    <3>0. n \in Nat /\ Shape(s, n)
      BY <1>0, <1>n
    <3> HIDE DEF s, n
    <3>2. /\ Shape(t, n) /\ Keeps(t, s, n) /\ t.changes = s.changes
          /\ t.steps[s.cur].outputs
          /\ \A i \in 1..n : i # s.cur => t.steps[i] = s.steps[i]
      BY <3>0, OutputsEdit
    <3> HIDE DEF t
    <3>3. runStatus' = t
      BY <3>1 DEF t
    <3>4. \A i \in 1..n : s.steps[i].outputs => t.steps[i].outputs
      BY <1>n, <3>2
    <3> QED BY <2>6, <2>8, <3>2, <3>3, <3>4
  <2>9. CASE name \notin {"plan", "output"}
    <3>1. runStatus' = s
      BY <1>2, <2>9 DEF OpSucceeds
    <3>2. Keeps(s, s, n)
      BY DEF Keeps
    <3> QED BY <1>0, <2>6, <2>9, <3>1, <3>2
  <2> QED BY <2>7, <2>8, <2>9
<1> QED BY <1>1, <1>2

\* advanceStep.
LEMMA StatusAdvance ==
  ASSUME StatusInv, EndInv, AdvanceStep
  PROVE  StatusInv'
<1> DEFINE n == NSteps(run)
           s == runStatus
<1>0. /\ run \in RunConfig /\ logSize \in Nat /\ ip \in 1..CompleteAt(run)
      /\ pc = "executing" /\ Shape(s, n) /\ Cuts(s) /\ s.cur = StepAt(run, ip) /\ s.status = "IN_PROGRESS"
      /\ Proceeds(s) /\ Stored(s)
  BY DEF StatusInv, EditInv, AdvanceStep, Executing
<1>n. n \in Nat /\ n \in 1..6 /\ s.cur \in 1..n /\ AdvanceAt(run) \in {15, 16} /\ CompleteAt(run) \in 17..19
  BY <1>0, StepAtFacts DEF Shape
<1>1. PICK user \in {"none", "script", "error"} :
        runStatus' = nextStep(setCurrentStepMessage(s, user, logSize), run, logSize)
  BY DEF AdvanceStep, StepMessages
<1>2. /\ ip' = ip + 1 /\ reportStatus' = runStatus' /\ UNCHANGED <<run, pc, logSize, uploaded>>
      /\ Command(run)[ip].name = "advanceStep"
  BY DEF AdvanceStep, Executing, CurrentOp
<1>3. ip \in {5, 8, 11, 13} \/ (run.behavior # "DETECT" /\ ip = AdvanceAt(run))
  BY <1>0, <1>2, Schedule
<1>4. /\ ip' \in 1..CompleteAt(run)
      /\ run.async => StepAt(run, ip') = StepAt(run, ip)
      /\ ~run.async => StepAt(run, ip') = StepAt(run, ip) + 1 /\ StepAt(run, ip) < n
  <2>1. /\ run.async => StepAt(run, ip + 1) = StepAt(run, ip)
        /\ ~run.async => StepAt(run, ip + 1) = StepAt(run, ip) + 1 /\ StepAt(run, ip) < n
    BY <1>0, <1>2, StepAtFacts
  <2>2. ip # CompleteAt(run)
    BY <1>0, <1>2, Schedule
  <2> QED BY <1>0, <1>n, <1>2, <2>1, <2>2
<1>5. ASSUME NEW t, runStatus' = t, Shape(t, n), t.cur = StepAt(run, ip'), t.status = s.status,
             Cuts(t), Proceeds(t)
      PROVE  StatusInv'
  <2>1. Stored(t)'
    BY <1>n, <1>2, <1>3 DEF Stored
  <2>2. EditInv'
    BY <1>0, <1>2, <1>4, <1>5, <2>1 DEF EditInv, Proceeds, Stored
  <2>3. \A i \in 1..n : t.steps[i].status \in StepStatus
    BY <1>5 DEF Shape, StepRecord, StepStatus
  <2>4. \A i \in 1..n : Leads(t.steps[i].status, t.steps[i].status)
    BY <2>3, LeadsFacts
  <2>5. PublishInv'
    BY <1>0, <1>2, <1>5, <2>4 DEF PublishInv
  <2> QED BY <2>2, <2>5 DEF StatusInv
<1>6. CASE run.async
  <2> DEFINE t == setCurrentStepMessage(s, user, logSize)
  <2>1. n \in Nat /\ Shape(s, n) /\ logSize \in Nat
    BY <1>0, <1>n
  <2> HIDE DEF s, n
  <2>2. Shape(t, n)
    BY <2>1, MessageShape
  <2>3. Keeps(t, s, n)
    BY <2>1, MessageFacts
  <2>4. runStatus' = t
    BY <1>1, <1>6 DEF nextStep
  <2> HIDE DEF t
  <2>5. n = NSteps(run)
    BY DEF n
  <2>6. Cuts(t) /\ Proceeds(t)
    BY <1>0, <1>n, <2>3, <2>5, KeepsFacts
  <2>7. t.cur = StepAt(run, ip') /\ t.status = s.status
    BY <1>0, <1>4, <1>6, <2>3 DEF Keeps
  <2> QED BY <1>5, <2>2, <2>4, <2>6, <2>7
<1>7. CASE ~run.async
  <2> DEFINE t == nextStep(setCurrentStepMessage(s, user, logSize), run, logSize)
  <2>1. n \in Nat /\ Shape(s, n) /\ logSize \in Nat /\ s.cur < n
    BY <1>0, <1>n, <1>4, <1>7
  <2>2. n = NSteps(run)
    OBVIOUS
  <2> HIDE DEF s, n
  <2>3. /\ Shape(t, n) /\ t.cur = s.cur + 1 /\ t.status = s.status
        /\ Cuts(s) => Cuts(t)
        /\ Proceeds(s) => Proceeds(t)
    BY <1>7, <2>1, <2>2, AdvanceFacts
  <2> HIDE DEF t
  <2>4. runStatus' = t
    BY <1>1 DEF t
  <2> QED BY <1>0, <1>4, <1>5, <1>7, <2>3, <2>4
<1> QED BY <1>6, <1>7

\* completeRun.
LEMMA StatusComplete ==
  ASSUME StatusInv, EndInv, CompleteRun
  PROVE  StatusInv'
<1> DEFINE n == NSteps(run)
           s == runStatus
           t == completeStatus(s, logSize)
<1>0. /\ run \in RunConfig /\ logSize \in Nat /\ ip \in 1..CompleteAt(run)
      /\ pc = "executing" /\ Shape(s, n) /\ Cuts(s) /\ s.cur = StepAt(run, ip) /\ s.status = "IN_PROGRESS"
      /\ Proceeds(s) /\ Stored(s)
  BY DEF StatusInv, EditInv, CompleteRun, Executing
<1>n. n \in Nat /\ n \in 1..6 /\ AdvanceAt(run) \in {15, 16} /\ CompleteAt(run) \in 17..19
  BY <1>0, StepAtFacts
<1>1. /\ pc' = "signal" /\ reportStatus' = runStatus' /\ runStatus' = t
      /\ UNCHANGED <<run, ip, logSize, uploaded>> /\ Command(run)[ip].name = "completeRun"
  BY DEF CompleteRun, Executing, CurrentOp
<1>2. ip = CompleteAt(run)
  BY <1>0, <1>1, Schedule
<1>3. s.cur = n
  BY <1>0, <1>2, StepAtFacts
<1>4. IF run.behavior = "DETECT" THEN uploaded /\ s.changes ELSE s.steps[n].outputs
  <2>1. CASE run.behavior = "DETECT"
    BY <1>0, <1>n, <1>2, <2>1 DEF Stored
  <2>2. CASE run.behavior # "DETECT"
    <3>1. CompleteAt(run) \in {AdvanceAt(run) + 2, AdvanceAt(run) + 3}
      BY <1>0, <2>2 DEF CompleteAt, RunConfig
    <3> QED BY <1>0, <1>n, <1>2, <2>2, <3>1 DEF Stored
  <2> QED BY <2>1, <2>2
<1>5. Shape(t, n) /\ Concluded(t)
  <2>1. n = NSteps(run)
    OBVIOUS
  <2> HIDE DEF s, n
  <2> QED BY <1>0, <1>n, <1>3, <1>4, <2>1, CompleteConcludes
<1> HIDE DEF t
<1>6. EditInv'
  BY <1>0, <1>1, <1>5 DEF EditInv, Shape, IsStatus
<1>7. PublishInv'
  BY <1>1, <1>5 DEF PublishInv, Concluded, Cuts
<1> QED BY <1>6, <1>7 DEF StatusInv

\* failWithUserMsg, up to its first commit and to its last.
LEMMA StatusFails ==
  ASSUME StatusInv, EndInv, OpFails
  PROVE  StatusInv'
<1> DEFINE n == NSteps(run)
           s == runStatus
           f == failRunAndNotFinishedSteps(s)
<1>0. /\ run \in RunConfig /\ logSize \in Nat /\ ip \in 1..CompleteAt(run)
      /\ pc = "executing" /\ Shape(s, n) /\ Cuts(s) /\ Proceeds(s)
      /\ Shape(reportStatus, n)
      /\ \A i \in 1..n : reportStatus.steps[i].status = s.steps[i].status
  BY DEF StatusInv, EditInv, PublishInv, OpFails, Performing
<1>n. n \in Nat
  BY <1>0, StepAtFacts
<1>1. /\ pc' = "failing" /\ logSize' = logSize + 1 /\ logSize' \in Nat /\ UNCHANGED <<run, ip, uploaded>>
      /\ \/ runStatus' = setCurrentStepMessage(f, "none", logSize') /\ reportStatus' = runStatus'
         \/ runStatus' = f /\ UNCHANGED reportStatus
  BY <1>0 DEF OpFails
<1>2. n = NSteps(run)
  OBVIOUS
<1> HIDE DEF s, n
<1>3. Shape(f, n)
  BY <1>0, <1>n, FailFacts
<1>4. Cuts(f)
  BY <1>0, <1>n, FailCuts
<1>5. \A i \in 1..n : Leads(s.steps[i].status, f.steps[i].status)
  BY <1>0, <1>n, <1>2, FailLeads
<1> HIDE DEF f
<1>6. CASE runStatus' = f /\ UNCHANGED reportStatus
  <2>1. EditInv'
    BY <1>0, <1>1, <1>2, <1>3, <1>4, <1>6 DEF EditInv
  <2>2. PublishInv'
    BY <1>0, <1>1, <1>2, <1>5, <1>6 DEF PublishInv, Shape, IsStatus
  <2> QED BY <2>1, <2>2 DEF StatusInv
<1>7. CASE runStatus' = setCurrentStepMessage(f, "none", logSize') /\ reportStatus' = runStatus'
  <2>1. PICK none \in {"none", "script", "error"}, size \in Nat : none = "none" /\ size = logSize'
    BY <1>1
  <2> DEFINE t == setCurrentStepMessage(f, none, size)
  <2>2. Shape(t, n)
    BY <1>n, <1>3, MessageShape
  <2>3. Keeps(t, f, n)
    BY <1>n, <1>3, MessageFacts
  <2>4. runStatus' = t /\ reportStatus' = t
    BY <1>7, <2>1
  <2> HIDE DEF t
  <2>5. Cuts(t)
    BY <1>n, <1>3, <1>4, <2>3, KeepsFacts DEF Shape
  <2>6. \A i \in 1..n : t.steps[i].status \in StepStatus
    BY <2>2 DEF Shape, StepRecord, StepStatus
  <2>7. \A i \in 1..n : Leads(t.steps[i].status, t.steps[i].status)
    BY <2>6, LeadsFacts
  <2>8. EditInv'
    BY <1>0, <1>1, <1>2, <2>2, <2>4, <2>5 DEF EditInv
  <2>9. PublishInv'
    BY <1>0, <1>1, <1>2, <2>2, <2>4, <2>7 DEF PublishInv
  <2> QED BY <2>8, <2>9 DEF StatusInv
<1> QED BY <1>1, <1>6, <1>7

\* The last commit of failWithUserMsg.
LEMMA StatusCommits ==
  ASSUME StatusInv, EndInv, FailCommits
  PROVE  StatusInv'
<1> DEFINE n == NSteps(run)
           s == runStatus
<1>0. /\ run \in RunConfig /\ logSize \in Nat /\ ip \in 1..CompleteAt(run)
      /\ Shape(s, n) /\ Cuts(s) /\ s.status = "FAILED"
  BY DEF StatusInv, EditInv, EndInv, FailCommits
<1>n. n \in Nat
  BY <1>0, StepAtFacts
<1>1. /\ pc' = "signal" /\ logSize' \in Nat /\ UNCHANGED <<run, ip, uploaded>> /\ reportStatus' = runStatus'
  BY <1>0 DEF FailCommits
<1>2. PICK user \in {"none", "script", "error"}, size \in Nat :
        size = logSize' /\ user # "none" /\ runStatus' = setCurrentStepMessage(s, user, size)
  BY <1>1 DEF FailCommits, FailMessages
<1> DEFINE t == setCurrentStepMessage(s, user, size)
<1>3. Shape(t, n)
  BY <1>0, <1>n, MessageShape
<1>4. Keeps(t, s, n) /\ t.steps[s.cur].to = size /\ (user # "none" => t.steps[s.cur].user = user)
  BY <1>0, <1>n, MessageFacts
<1>5. runStatus' = t
  BY <1>2
<1> HIDE DEF t
<1>6. Cuts(t)
  BY <1>0, <1>n, <1>4, KeepsFacts DEF Shape
<1>7. t.steps[t.cur].to = logSize' /\ t.steps[t.cur].user # "none" /\ t.status = "FAILED"
  BY <1>0, <1>2, <1>4 DEF Keeps
<1>8. EditInv'
  BY <1>0, <1>1, <1>3, <1>5 DEF EditInv
<1>9. Concluded(runStatus)'
  BY <1>5, <1>6, <1>7 DEF Concluded, Cuts
<1>10. PublishInv'
  BY <1>1, <1>9 DEF PublishInv, Panicked
<1> QED BY <1>8, <1>10 DEF StatusInv

\* Every step keeps StatusInv.
LEMMA StatusNext ==
  ASSUME StatusInv, EndInv, RefInv, [Next]_vars
  PROVE  StatusInv'
<1>1. CASE SetUp \/ SetUpFails \/ StartFails \/ Register \/ RegisterFails
  BY <1>1, StatusStart
<1>2. CASE WriteLog \/ OpSucceeds
  BY <1>2, StatusPerform
<1>3. CASE AdvanceStep
  BY <1>3, StatusAdvance
<1>4. CASE CompleteRun
  BY <1>4, StatusComplete
<1>5. CASE OpFails
  BY <1>5, StatusFails
<1>6. CASE FailCommits
  BY <1>6, StatusCommits
<1>7. CASE Observe \/ ProcessDies \/ Timeout \/ LateArrival \/ UserAborts \/ Returned \/ UNCHANGED vars
  <2>1. /\ UNCHANGED <<run, ip, runStatus, logSize, uploaded, reportStatus>>
        /\ \/ pc' = pc
           \/ pc = "signal" /\ pc' = "ended"
           \/ pc \in {"panicking", "dying"} /\ pc' \in {"dying", "dead"}
    BY <1>7 DEF Observe, Tick, PeriodicAnswer, Done, FinalAttempt, GiveUp, Timeout, LateArrival,
                ProcessDies, UserAborts, Returned, vars, workVars, obsVars
  <2> QED BY <2>1, StatusOthers
<1>8. CASE GetTFPanics
  BY <1>8, StatusPanics
<1> QED BY <1>1, <1>2, <1>3, <1>4, <1>5, <1>6, <1>7, <1>8 DEF Next, Work

\* The statuses agree with the command throughout.
LEMMA StatusInvariant == Spec => []StatusInv
<1>1. Init => StatusInv
  <2> SUFFICES ASSUME Init PROVE StatusInv
    OBVIOUS
  <2>1. run \in RunConfig
    BY RunConfigsAssumption DEF Init
  <2>2. CompleteAt(run) \in 17..19
    BY <2>1 DEF CompleteAt, AdvanceAt, RunConfig
  <2> QED BY <2>1, <2>2 DEF Init, StatusInv, EditInv, PublishInv, Panicked
<1> QED BY <1>1, StatusNext, EndInvariant, RefInvariant, PTL DEF Spec

\* meshfed shows a success only after the run has reported one.
LEMMA ShownNext ==
  ASSUME ShownInv, EndInv, RefInv, [Next]_vars
  PROVE  ShownInv'
<1> USE DEF workVars, obsVars
<1>1. CASE Work
  <2>1. mesh' = mesh /\ Working
    BY <1>1 DEF Work, SetUp, SetUpFails, StartFails, Register, RegisterFails, WriteLog, OpSucceeds,
                AdvanceStep, CompleteRun, OpFails, FailCommits, GetTFPanics, Working, Performing, Executing
  <2> QED BY <2>1 DEF ShownInv, Working
<1>2. CASE Tick \/ Done \/ GiveUp \/ Timeout \/ Returned \/ UNCHANGED vars
  BY <1>2 DEF Tick, Done, GiveUp, Timeout, Returned, vars, ShownInv
<1>3. CASE PeriodicAnswer
  <2>1. mesh' \in {mesh, Take} /\ sent = "IN_PROGRESS" /\ UNCHANGED <<pc, reportStatus>>
    BY <1>3 DEF PeriodicAnswer, Exchange, RefInv
  <2>2. mesh'.status = mesh.status
    BY <2>1 DEF Take, EndInv, IsMesh
  <2> QED BY <2>1, <2>2 DEF ShownInv
<1>4. CASE FinalAttempt \/ LateArrival
  <2>1. /\ mesh' \in {mesh, Take} /\ UNCHANGED <<pc, reportStatus>>
        /\ obs = "final" \/ late
    BY <1>4 DEF FinalAttempt, LateArrival, Exchange
  <2>2. ~Working
    BY <2>1 DEF EndInv
  <2>3. sent = "SUCCEEDED" => pc = "ended" /\ reportStatus.status = "SUCCEEDED"
    BY <2>1, <2>2, FinalStatusFacts DEF RefInv
  <2> QED BY <2>1, <2>3, TakeMesh DEF ShownInv, EndInv
<1>6. CASE ProcessDies
  <2>1. pc = "dying" /\ mesh' \in {mesh, Take}
    BY <1>6 DEF ProcessDies, Exchange
  <2>2. sent # "SUCCEEDED"
    BY <2>1, FinalStatusFacts DEF RefInv, Panicked
  <2> QED BY <2>1, <2>2, TakeMesh DEF ShownInv, EndInv
<1>5. CASE UserAborts
  BY <1>5 DEF UserAborts, ShownInv, EndInv, IsMesh
<1> QED BY <1>1, <1>2, <1>3, <1>4, <1>5, <1>6 DEF Next, Observe

\* A success is shown only after it was reported, throughout.
LEMMA ShownInvariant == Spec => []ShownInv
<1>1. Init => ShownInv
  BY DEF Init, ShownInv
<1> QED BY <1>1, ShownNext, EndInvariant, RefInvariant, PTL DEF Spec

\* The types that the other invariants do not speak of.
TypeRest ==
  /\ run \in RunConfigs
  /\ callback \in BOOLEAN /\ uploaded \in BOOLEAN
  /\ ctx \in {"alive", "cancelled", "expired"}
  /\ obs \in {"idle", "select", "updating", "final", "ended"}
  /\ sent \in {"none", "IN_PROGRESS"} \cup Terminal
  /\ retries \in 0..MaxRetries
  /\ final \in {"none", "unsent", "delivered", "refused", "failed", "gaveUp", "cut"}
  /\ mesh.by \in {"none", "runner", "meshfed"} /\ mesh.abort \in BOOLEAN

\* Every step keeps these types.
LEMMA TypeRestNext ==
  ASSUME TypeRest, EndInv, RefInv, [Next]_vars
  PROVE  TypeRest'
<1> USE DEF TypeRest, workVars, obsVars
<1>1. CASE SetUp \/ Register \/ RegisterFails \/ WriteLog \/ AdvanceStep \/ CompleteRun \/ OpFails
           \/ FailCommits \/ GetTFPanics
  BY <1>1 DEF SetUp, Register, RegisterFails, WriteLog, AdvanceStep, CompleteRun, OpFails, FailCommits,
              GetTFPanics
<1>2. CASE SetUpFails \/ StartFails
  BY <1>2 DEF SetUpFails, StartFails, InitFailStatus, InitialStatus, Terminal
<1>3. CASE OpSucceeds
  <2>1. callback' \in BOOLEAN /\ uploaded' \in BOOLEAN
    BY <1>3, Zenon DEF OpSucceeds
  <2> QED BY <1>3, <2>1 DEF OpSucceeds
<1>4. CASE Tick
  BY <1>4 DEF Tick, RefInv, Terminal
<1>5. CASE PeriodicAnswer
  <2>1. mesh' \in {mesh, Take}
    BY <1>5 DEF PeriodicAnswer, Exchange
  <2>2. mesh'.by \in {"none", "runner", "meshfed"} /\ mesh'.abort = mesh.abort
    BY <2>1 DEF Take, EndInv, IsMesh
  <2> QED BY <1>5, <2>2 DEF PeriodicAnswer
<1>6. CASE Done
  BY <1>6, FinalStatusFacts DEF Done
<1>7. CASE FinalAttempt \/ LateArrival \/ ProcessDies
  <2>1. mesh' \in {mesh, Take}
    BY <1>7 DEF FinalAttempt, LateArrival, ProcessDies, Exchange
  <2>2. mesh'.by \in {"none", "runner", "meshfed"} /\ mesh'.abort = mesh.abort
    BY <2>1 DEF Take, EndInv, IsMesh
  <2>3. retries' \in 0..MaxRetries
    BY <1>7, BoundsAssumption DEF FinalAttempt, LateArrival, ProcessDies
  <2> QED BY <1>7, <2>2, <2>3 DEF FinalAttempt, LateArrival, ProcessDies
<1>8. CASE UserAborts
  <2>1. mesh'.by \in {"none", "runner", "meshfed"} /\ mesh'.abort = TRUE
    BY <1>8 DEF UserAborts, EndInv, IsMesh
  <2> QED BY <1>8, <2>1 DEF UserAborts
<1>9. CASE GiveUp \/ Timeout \/ Returned \/ UNCHANGED vars
  BY <1>9 DEF GiveUp, Timeout, Returned, vars
<1> QED BY <1>1, <1>2, <1>3, <1>4, <1>5, <1>6, <1>7, <1>8, <1>9 DEF Next, Work, Observe

\* These types hold throughout.
LEMMA TypeRestInvariant == Spec => []TypeRest
<1>1. Init => TypeRest
  <2> SUFFICES ASSUME Init PROVE TypeRest
    OBVIOUS
  <2>1. callback \in BOOLEAN /\ uploaded \in BOOLEAN
    BY Zenon DEF Init
  <2>2. mesh.by = "none" /\ mesh.abort = FALSE
    BY DEF Init
  <2> QED BY <2>1, <2>2, BoundsAssumption DEF Init, TypeRest, Terminal
<1> QED BY <1>1, TypeRestNext, EndInvariant, RefInvariant, PTL DEF Spec

\* A status of the right shape is a status record.
LEMMA ShapeIsRecord ==
  ASSUME NEW n \in Nat, NEW s, Shape(s, n), s.status \in {"IN_PROGRESS"} \cup Terminal
  PROVE  s \in StatusRecord
<1>1. s.steps \in Seq(StepRecord)
  BY FunctionsAreSequences DEF Shape
<1>2. s.cur \in Nat /\ s.changes \in BOOLEAN
  BY DEF Shape
<1>3. s = [status |-> s.status, steps |-> s.steps, cur |-> s.cur, changes |-> s.changes]
  BY DEF Shape, IsStatus
<1> QED BY <1>1, <1>2, <1>3 DEF StatusRecord

\* So are the statuses without steps.
LEMMA InitialIsRecord == InitialStatus \in StatusRecord /\ InitFailStatus \in StatusRecord
<1>1. <<>> \in Seq(StepRecord)
  OBVIOUS
<1> QED BY <1>1 DEF InitialStatus, InitFailStatus, StatusRecord, Terminal

\* Types.
LEMMA Types ==
  ASSUME TypeRest, EndInv, RefInv, StatusInv
  PROVE  TypeOK
<1>1. run \in RunConfig /\ ip \in 1..CompleteAt(run) /\ logSize \in Nat /\ NSteps(run) \in Nat
  <2>1. run \in RunConfig /\ ip \in 1..CompleteAt(run) /\ logSize \in Nat
    BY DEF StatusInv, EditInv
  <2> QED BY <2>1, StepAtFacts
<1>2. ip \in 1..Len(Command(run))
  BY <1>1, Schedule
<1>3. runStatus \in StatusRecord
  <2>1. CASE pc \in {"setup", "notStarted"}
    BY <2>1, InitialIsRecord DEF StatusInv, EditInv
  <2>2. CASE pc \notin {"setup", "notStarted"}
    <3>1. Shape(runStatus, NSteps(run))
      BY <2>2 DEF StatusInv, EditInv
    <3>2. runStatus.status \in {"IN_PROGRESS"} \cup Terminal
      BY DEF RefInv, Terminal
    <3> QED BY <1>1, <3>1, <3>2, ShapeIsRecord
  <2> QED BY <2>1, <2>2
<1>4. reportStatus \in StatusRecord
  <2>1. CASE pc \in {"setup", "notStarted", "registering"}
    BY <2>1, InitialIsRecord DEF StatusInv, PublishInv
  <2>2. CASE pc \in {"executing", "failing", "panicking"} \/ Panicked
    <3>1. Shape(reportStatus, NSteps(run))
      BY <2>2 DEF StatusInv, PublishInv
    <3>2. reportStatus.status \in {"IN_PROGRESS"} \cup Terminal
      BY DEF RefInv, Terminal
    <3> QED BY <1>1, <3>1, <3>2, ShapeIsRecord
  <2>3. CASE pc \in {"signal", "ended"}
    BY <1>3, <2>3, InitialIsRecord DEF StatusInv, PublishInv
  <2> QED BY <2>1, <2>2, <2>3 DEF RefInv, Working
<1>5. mesh \in [status: {"IN_PROGRESS"} \cup Terminal,
               by: {"none", "runner", "meshfed"}, abort: BOOLEAN]
  <2>1. mesh = [status |-> mesh.status, by |-> mesh.by, abort |-> mesh.abort]
    BY DEF EndInv, IsMesh
  <2>2. mesh.status \in {"IN_PROGRESS"} \cup Terminal /\ mesh.by \in {"none", "runner", "meshfed"}
        /\ mesh.abort \in BOOLEAN
    BY DEF RefInv, TypeRest
  <2> QED BY <2>1, <2>2
<1>6. pc \in {"setup", "registering", "executing", "failing", "signal", "ended", "notStarted",
               "panicking", "dying", "dead"}
  BY DEF RefInv, Working, Panicked
<1>7. abortRequested \in BOOLEAN /\ late \in BOOLEAN
  BY DEF RefInv
<1> QED BY <1>1, <1>2, <1>3, <1>4, <1>5, <1>6, <1>7 DEF TypeOK, TypeRest

\* The report of a command that returned: what was published last, or the failure
\* without steps.
LEMMA FinalReport ==
  ASSUME StatusInv, pc = "ended", Report.steps # <<>>
  PROVE  Report = runStatus /\ Concluded(runStatus)
<1>1. InitFailStatus.steps = <<>>
  BY DEF InitFailStatus, InitialStatus
<1>2. Report = reportStatus
  BY DEF Report
<1> QED BY <1>1, <1>2 DEF StatusInv, PublishInv

\* The log is cut into the steps, without gap or overlap.
LEMMA LogFacts ==
  ASSUME StatusInv
  PROVE  LogsPartitioned
<1> SUFFICES ASSUME pc = "ended", Report.steps # <<>>
             PROVE  /\ Report.steps[1].from = 0
                    /\ \A i \in 1..Report.cur - 1 : Report.steps[i].to = Report.steps[i + 1].from
                    /\ Report.steps[Report.cur].to = logSize
  BY DEF LogsPartitioned
<1>1. Report = runStatus /\ Concluded(runStatus)
  BY FinalReport
<1> QED BY <1>1 DEF Concluded, Cuts

\* A success is complete, and a failure explained.
LEMMA ReportFacts ==
  ASSUME StatusInv, EndInv, RefInv, ShownInv
  PROVE  SuccessIsComplete /\ FailureExplained
<1>1. FailureExplained
  <2> SUFFICES ASSUME obs \in {"final", "ended"}, Report.status = "FAILED"
               PROVE  IF Report.steps = <<>> THEN ip = 1 /\ logSize = 0
                      ELSE Report.steps[Report.cur].user # "none"
    BY DEF FailureExplained
  <2>1. CASE pc = "notStarted"
    <3>1. Report.steps = <<>>
      BY <2>1 DEF Report, InitFailStatus, InitialStatus
    <3> QED BY <2>1, <3>1 DEF StatusInv, EditInv
  <2>2. CASE pc = "ended" /\ Report.steps # <<>>
    <3>1. Report = runStatus /\ Concluded(runStatus)
      BY <2>2, FinalReport
    <3> QED BY <2>2, <3>1 DEF Concluded
  <2>3. CASE pc = "ended" /\ Report.steps = <<>>
    <3>1. Report = reportStatus
      BY <2>3 DEF Report
    <3>2. reportStatus = runStatus => reportStatus.steps # <<>>
      <4>1. Shape(runStatus, NSteps(run)) /\ NSteps(run) \in 1..6
        <5>1. run \in RunConfig /\ ip \in 1..CompleteAt(run) /\ Shape(runStatus, NSteps(run))
          BY <2>3 DEF StatusInv, EditInv
        <5> QED BY <5>1, StepAtFacts
      <4>2. DOMAIN runStatus.steps = 1..NSteps(run)
        BY <4>1 DEF Shape
      <4>3. 1 \in DOMAIN runStatus.steps
        BY <4>1, <4>2
      <4> QED BY <4>3
    <3> QED BY <2>3, <3>1, <3>2 DEF StatusInv, PublishInv
  <2>4. CASE Panicked
    BY <2>4 DEF RefInv, Panicked, Report
  <2> QED BY <2>1, <2>2, <2>3, <2>4 DEF EndInv, RefInv
<1>2. SuccessIsComplete
  <2> SUFFICES ASSUME mesh.status = "SUCCEEDED"
               PROVE  /\ \A i \in DOMAIN Report.steps : Report.steps[i].status = "SUCCEEDED"
                      /\ IF run.behavior = "DETECT" THEN uploaded /\ Report.changes
                         ELSE Report.steps[Len(Report.steps)].outputs
    BY DEF SuccessIsComplete
  <2>1. pc = "ended" /\ reportStatus.status = "SUCCEEDED"
    BY DEF ShownInv
  <2>2. Report = reportStatus /\ reportStatus # InitFailStatus
    BY <2>1 DEF Report, InitFailStatus, InitialStatus
  <2>3. Report = runStatus /\ Shape(runStatus, NSteps(run)) /\ Concluded(runStatus)
    BY <2>1, <2>2 DEF StatusInv, EditInv, PublishInv
  <2>4. runStatus.steps \in [1..NSteps(run) -> StepRecord] /\ NSteps(run) \in Nat
    <3>1. run \in RunConfig /\ ip \in 1..CompleteAt(run)
      BY DEF StatusInv, EditInv
    <3> QED BY <2>3, <3>1, StepAtFacts DEF Shape
  <2>5. DOMAIN runStatus.steps = 1..NSteps(run) /\ Len(runStatus.steps) = NSteps(run)
    BY <2>4, FunctionsAreSequences
  <2> QED BY <2>1, <2>2, <2>3, <2>5 DEF Concluded
<1> QED BY <1>1, <1>2

\* Publishing never takes a step back.
Forward == \A i \in DOMAIN reportStatus.steps :
             /\ i \in DOMAIN reportStatus'.steps
             /\ Leads(reportStatus.steps[i].status, reportStatus'.steps[i].status)

\* Whatever step publishes a status, it leads from the published one.
LEMMA ForwardNext ==
  ASSUME StatusInv, EndInv, RefInv, Next, reportStatus' # reportStatus
  PROVE  Forward
<1> DEFINE n == NSteps(run)
           s == runStatus
           p == reportStatus
<1>0. /\ run \in RunConfig /\ ip \in 1..CompleteAt(run) /\ logSize \in Nat
  BY DEF StatusInv, EditInv
<1>n. n \in Nat
  BY <1>0, StepAtFacts
<1>1. CASE Register \/ RegisterFails
  <2>1. reportStatus = InitialStatus
    BY <1>1 DEF Register, RegisterFails, StatusInv, PublishInv
  <2>2. DOMAIN reportStatus.steps = {}
    BY <2>1 DEF InitialStatus
  <2> QED BY <2>2 DEF Forward
<1>2. ASSUME pc \in {"executing", "failing"}, Shape(reportStatus', n),
             \A i \in 1..n : Leads(p.steps[i].status, reportStatus'.steps[i].status)
      PROVE  Forward
  <2>1. DOMAIN p.steps = 1..n /\ DOMAIN reportStatus'.steps = 1..n
    BY <1>2 DEF StatusInv, PublishInv, Shape
  <2> QED BY <1>2, <2>1 DEF Forward
<1>3. StatusInv'
  BY StatusNext
<1>4. n = NSteps(run)
  OBVIOUS
<1>5. ASSUME pc = "executing"
      PROVE  /\ Shape(s, n) /\ Proceeds(s) /\ s.cur \in 1..n /\ s.cur = StepAt(run, ip)
             /\ \A i \in 1..n : p.steps[i].status = s.steps[i].status /\ s.steps[i].status \in StepStatus
  BY <1>5 DEF StatusInv, EditInv, PublishInv, Shape, StepRecord, StepStatus
<1>6. CASE WriteLog
  <2>1. /\ pc = "executing" /\ logSize' \in Nat
        /\ reportStatus' = setCurrentStepMessage(s, "none", logSize')
    BY <1>0, <1>6 DEF WriteLog, Performing
  <2>2. PICK none \in {"none", "script", "error"}, size \in Nat : none = "none" /\ size = logSize'
    BY <2>1
  <2> DEFINE t == setCurrentStepMessage(s, none, size)
  <2>3. Shape(s, n)
    BY <1>5, <2>1
  <2>4. Shape(t, n)
    BY <1>n, <2>3, MessageShape
  <2>5. Keeps(t, s, n)
    BY <1>n, <2>3, MessageFacts
  <2>6. reportStatus' = t
    BY <2>1, <2>2
  <2> HIDE DEF t
  <2>7. \A i \in 1..n : Leads(p.steps[i].status, t.steps[i].status)
    BY <1>5, <2>1, <2>5, LeadsFacts DEF Keeps
  <2> QED BY <1>2, <2>1, <2>4, <2>6, <2>7
<1>7. CASE AdvanceStep
  <2>1. /\ pc = "executing" /\ reportStatus' = runStatus' /\ Command(run)[ip].name = "advanceStep"
    BY <1>7 DEF AdvanceStep, Executing, CurrentOp
  <2>2. PICK user \in {"none", "script", "error"} :
          runStatus' = nextStep(setCurrentStepMessage(s, user, logSize), run, logSize)
    BY <1>7 DEF AdvanceStep, StepMessages
  <2>3. Shape(s, n) /\ Proceeds(s)
    BY <1>5, <2>1
  <2>4. CASE run.async
    <3> DEFINE t == setCurrentStepMessage(s, user, logSize)
    <3>1. Shape(t, n)
      BY <1>0, <1>n, <2>3, MessageShape
    <3>2. Keeps(t, s, n)
      BY <1>0, <1>n, <2>3, MessageFacts
    <3>3. reportStatus' = t
      BY <2>1, <2>2, <2>4 DEF nextStep
    <3> HIDE DEF t
    <3>4. \A i \in 1..n : Leads(p.steps[i].status, t.steps[i].status)
      BY <1>5, <2>1, <3>2, LeadsFacts DEF Keeps
    <3> QED BY <1>2, <2>1, <3>1, <3>3, <3>4
  <2>5. CASE ~run.async
    <3> DEFINE t == nextStep(setCurrentStepMessage(s, user, logSize), run, logSize)
    <3>1. s.cur < n
      BY <1>0, <1>5, <2>1, <2>5, StepAtFacts
    <3> HIDE DEF s, n
    <3>2. Shape(t, n) /\ \A i \in 1..n : Leads(s.steps[i].status, t.steps[i].status)
      BY <1>0, <1>n, <1>4, <2>3, <2>5, <3>1, AdvanceFacts
    <3> HIDE DEF t
    <3>3. reportStatus' = t
      BY <2>1, <2>2 DEF t
    <3> QED BY <1>2, <1>5, <2>1, <3>2, <3>3
  <2> QED BY <2>4, <2>5
<1>8. CASE CompleteRun
  <2>1. /\ pc = "executing" /\ pc' = "signal" /\ reportStatus' = runStatus' /\ run' = run
        /\ runStatus' = completeStatus(s, logSize)
    BY <1>8 DEF CompleteRun, Executing
  <2>2. runStatus'.status = "SUCCEEDED"
    BY <2>1, CompleteStatus DEF EndInv
  <2>3. reportStatus' # InitFailStatus
    BY <2>1, <2>2 DEF InitFailStatus, InitialStatus
  <2>4. Shape(runStatus', n) /\ \A i \in 1..n : runStatus'.steps[i].status = "SUCCEEDED"
    BY <1>3, <2>1, <2>2, <2>3 DEF StatusInv, EditInv, PublishInv, Concluded
  <2>5. \A i \in 1..n : Leads(p.steps[i].status, "SUCCEEDED")
    <3> SUFFICES ASSUME NEW i \in 1..n PROVE Leads(p.steps[i].status, "SUCCEEDED")
      OBVIOUS
    <3>1. s.steps[i].status \in {"PENDING", "IN_PROGRESS", "SUCCEEDED"}
      BY <1>5, <2>1 DEF Proceeds
    <3> QED BY <1>5, <2>1, <3>1, LeadsFacts DEF StepStatus
  <2> QED BY <1>2, <2>1, <2>4, <2>5
<1>9. CASE OpFails
  <2> DEFINE f == failRunAndNotFinishedSteps(s)
  <2>1. /\ pc = "executing" /\ logSize' \in Nat
        /\ reportStatus' = setCurrentStepMessage(f, "none", logSize')
    BY <1>0, <1>9 DEF OpFails, Performing
  <2>2. PICK none \in {"none", "script", "error"}, size \in Nat : none = "none" /\ size = logSize'
    BY <2>1
  <2>3. Shape(s, n) /\ Proceeds(s)
    BY <1>5, <2>1
  <2> HIDE DEF s, n
  <2>4. Shape(f, n)
    BY <1>n, <2>3, FailFacts
  <2>5. \A i \in 1..n : Leads(s.steps[i].status, f.steps[i].status)
    BY <1>n, <1>4, <2>3, FailLeads
  <2> HIDE DEF f
  <2> DEFINE t == setCurrentStepMessage(f, none, size)
  <2>6. Shape(t, n)
    BY <1>n, <2>4, MessageShape
  <2>7. Keeps(t, f, n)
    BY <1>n, <2>4, MessageFacts
  <2>8. reportStatus' = t
    BY <2>1, <2>2
  <2> HIDE DEF t
  <2>9. \A i \in 1..n : Leads(p.steps[i].status, t.steps[i].status)
    BY <1>5, <2>1, <2>5, <2>7 DEF Keeps
  <2> QED BY <1>2, <2>1, <2>6, <2>8, <2>9
<1>10. CASE FailCommits
  <2>1. /\ pc = "failing" /\ logSize' \in Nat /\ reportStatus' = runStatus'
    BY <1>0, <1>10 DEF FailCommits
  <2>2. PICK user \in {"none", "script", "error"}, size \in Nat :
          size = logSize' /\ runStatus' = setCurrentStepMessage(s, user, size)
    BY <1>10, <2>1 DEF FailCommits, FailMessages
  <2>3. Shape(s, n) /\ \A i \in 1..n : Leads(p.steps[i].status, s.steps[i].status)
    BY <2>1 DEF StatusInv, EditInv, PublishInv
  <2> DEFINE t == setCurrentStepMessage(s, user, size)
  <2>4. Shape(t, n)
    BY <1>n, <2>3, MessageShape
  <2>5. Keeps(t, s, n)
    BY <1>n, <2>3, MessageFacts
  <2>6. reportStatus' = t
    BY <2>1, <2>2
  <2> HIDE DEF t
  <2>7. \A i \in 1..n : Leads(p.steps[i].status, t.steps[i].status)
    BY <2>3, <2>5 DEF Keeps
  <2> QED BY <1>2, <2>1, <2>4, <2>6, <2>7
<1>11. Register \/ RegisterFails \/ WriteLog \/ AdvanceStep \/ CompleteRun \/ OpFails \/ FailCommits
  BY DEF Next, Work, Observe, SetUp, SetUpFails, StartFails, OpSucceeds, Tick, PeriodicAnswer, Done,
         FinalAttempt, GiveUp, Timeout, LateArrival, UserAborts, Returned, GetTFPanics, ProcessDies, vars
<1> QED BY <1>1, <1>6, <1>7, <1>8, <1>9, <1>10, <1>11

-----------------------------------------------------------------------------
\* For every configuration of a run and any output, a run that meshStack shows as
\* SUCCEEDED has finished all its steps and stored its outputs or its plan, and a
\* failure is reported with a reason, or without steps by a run of which nothing
\* was executed (tfcmd.go, tfplan.go, worker.go).
THEOREM ReportTheorem == Spec => []ReportIsTrue
<1>1. TypeRest /\ EndInv /\ RefInv /\ StatusInv /\ ShownInv => ReportIsTrue
  BY Types, ReportFacts DEF ReportIsTrue
<1> QED BY <1>1, TypeRestInvariant, EndInvariant, RefInvariant, StatusInvariant, ShownInvariant, PTL

\* However much was logged, and wherever the command failed, its final report
\* attributes every line to one step (runstatus.go, setCurrentStepMessage, nextStep).
THEOREM LogsTheorem == Spec => []LogsPartitioned
<1>1. StatusInv => LogsPartitioned
  BY LogFacts
<1> QED BY <1>1, StatusInvariant, PTL

\* No published step goes back to an earlier state, nor from one result to another
\* (runstatus.go, failRunAndNotFinishedSteps; tfcmd.go, commitStatus).
THEOREM RegressTheorem == Spec => StepsNeverRegress
<1>1. ASSUME EndInv, RefInv, StatusInv, [Next]_vars
      PROVE  [\A i \in DOMAIN reportStatus.steps :
                /\ i \in DOMAIN reportStatus'.steps
                /\ Rank[reportStatus.steps[i].status] <= Rank[reportStatus'.steps[i].status]
                /\ Rank[reportStatus.steps[i].status] = 2 =>
                     reportStatus'.steps[i].status = reportStatus.steps[i].status]_reportStatus
  <2>1. CASE reportStatus' = reportStatus
    BY <2>1
  <2>2. CASE reportStatus' # reportStatus
    <3>1. Next
      BY <1>1, <2>2 DEF vars
    <3>2. Forward
      BY <1>1, <2>2, <3>1, ForwardNext
    <3> QED BY <3>2 DEF Forward, Leads
  <2> QED BY <2>1, <2>2
<1> QED BY <1>1, EndInvariant, RefInvariant, StatusInvariant, PTL DEF Spec, StepsNeverRegress
=============================================================================
