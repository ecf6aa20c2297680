-------------------------- MODULE InProcessProofs --------------------------
(***************************************************************************)
(* Proofs about InProcess: for any set of runs and versions and any limit, *)
(* the state is well-typed, the process exits only when its runs have      *)
(* ended, a run never works with a binary that another one is installing,  *)
(* and never more runs execute than configured.                            *)
(***************************************************************************)
EXTENDS InProcess, FiniteSetTheorems, TLAPS

\* TypeOK alone is not inductive: that dispatched stays within the capacity
\* follows from the guard of DrainLoop, a step before the run is claimed.  A run
\* that meshfed offers has no goroutine yet.
TypeInv ==
  /\ TypeOK
  /\ \A r \in Runs : mesh[r] = "offered" => pc[r] = "idle"
  /\ ctl = "fetch" => dispatched < capacity
  /\ ctl = "report" => cur \in Runs

\* The steps that are not of the goroutine of a run.
MainStep ==
  \/ Registration \/ Main \/ Fetch \/ Report \/ GiveUp \/ StopLoop \/ Stopped
  \/ Deadline \/ Signal \/ SecondSignal

Places == {"idle", "begin", "lock", "use", "report", "leave", "gone", "panic"} \cup InGetTF
Files == {"none", "partial", "unlinked", "complete"}

-----------------------------------------------------------------------------
(* Types.                                                                  *)

\* The initial state is well-typed.
LEMMA TypeInit == Init => TypeInv
<1> SUFFICES ASSUME Init PROVE TypeInv
  OBVIOUS
<1>1. /\ stopping \in BOOLEAN /\ deadline \in BOOLEAN
      /\ registered \in BOOLEAN /\ faulty \in BOOLEAN
  BY Zenon DEF Init
<1>2. QED
  BY <1>1 DEF Init, TypeInv, TypeOK, InGetTF, Ended

\* The steps of the main goroutine keep the types.
LEMMA TypeMain ==
  ASSUME TypeInv, MainStep
  PROVE  TypeInv'
<1> USE DEF TypeInv, TypeOK, loop, binaries, start, meshfed, Ended
<1>1. CASE Registration \/ newDispatcher \/ RegisterAgain \/ GiveUp \/ StopLoop
           \/ Deadline \/ Signal \/ SecondSignal \/ Exit
  BY <1>1 DEF Registration, RegisterController, RegisterFails, newDispatcher, RegisterAgain,
     GiveUp, StopLoop, Deadline, Signal, SecondSignal, Exit, Wait
<1>2. CASE StartDrain
  <2>1. availableCapacity \in Nat
    BY LimitAssumption DEF availableCapacity, maxDrainPerCycleUnlimited
  <2>2. QED
    BY <1>2, <2>1 DEF StartDrain
<1>3. CASE DrainLoop
  BY <1>3 DEF DrainLoop, DrainContinues, EndDrain
<1>4. CASE FetchNothing
  BY <1>4 DEF FetchNothing, EndDrain
<1>5. CASE FetchFails
  BY <1>5 DEF FetchFails, EndDrain, Claim
<1>6. ASSUME NEW r \in Runs, FetchRun(r) PROVE TypeInv'
  <2>1. dispatched' \in 0..capacity' /\ capacity' \in Nat /\ active' \in Int
    BY <1>6 DEF FetchRun, Dispatch
  <2>2. pc' \in [Runs -> Places] /\ mesh' \in [Runs -> {"offered", "claimed", "FAILED", "ended"}]
    BY <1>6 DEF FetchRun, Dispatch, Claim, Places
  <2>3. ctl' = "drain" /\ UNCHANGED <<cur, stopping, deadline, registered, faulty, lock, disk,
                                      broken, unstarted>>
    BY <1>6 DEF FetchRun
  <2>4. \A s \in Runs : mesh'[s] = "offered" => pc'[s] = "idle"
    BY <1>6 DEF FetchRun, Dispatch, Claim
  <2>5. QED
    BY <2>1, <2>2, <2>3, <2>4 DEF Places
<1>7. ASSUME NEW r \in Runs, FetchUnhandled(r) PROVE TypeInv'
  BY <1>7 DEF FetchUnhandled, Claim
<1>8. CASE reportRunFailure \/ reportRunFailureFails
  <2>1. mesh' \in [Runs -> {"offered", "claimed", "FAILED", "ended"}]
    BY <1>8 DEF reportRunFailure, reportRunFailureFails
  <2>2. EndDrain /\ UNCHANGED <<stopping, active, pc, binaries, start, unstarted>>
    BY <1>8 DEF reportRunFailure, reportRunFailureFails
  <2>3. faulty' \in BOOLEAN
    BY <1>8, Zenon DEF reportRunFailure, reportRunFailureFails
  <2>4. \A s \in Runs : mesh'[s] = "offered" => pc'[s] = "idle"
    BY <1>8 DEF reportRunFailure, reportRunFailureFails
  <2>5. QED
    BY <2>1, <2>2, <2>3, <2>4 DEF EndDrain
<1>9. CASE Stopped
  BY <1>9 DEF Stopped, vars
<1>10. QED
  BY <1>1, <1>2, <1>3, <1>4, <1>5, <1>6, <1>7, <1>8, <1>9 DEF MainStep, Main, Fetch, Report

\* So do those of the goroutine of a run.
LEMMA TypeGoroutine ==
  ASSUME TypeInv, NEW r \in Runs, Goroutine(r) \/ Lock(r)
  PROVE  TypeInv'
<1> USE VersionsAssumption, RunsAssumption
    DEF TypeInv, TypeOK, loop, binaries, start, meshfed, Ended, Alive, Goto, InGetTF, Ver
<1>1. CASE ExecuteFails(r) \/ Begin(r)
  BY <1>1 DEF ExecuteFails, Begin
<1>7. CASE ReportEnd(r)
  BY <1>7 DEF ReportEnd
<1>8. CASE Leave(r)
  BY <1>8 DEF Leave
<1>2. CASE Lock(r) \/ Use(r) \/ Panic(r)
  BY <1>2 DEF Lock, MutexFree, Use, Panic
<1>3. CASE Stat(r) \/ Reset(r)
  BY <1>3 DEF Stat, Reset, ReturnTF, Installed
<1>4. CASE GetTFFails(r) \/ InstallFails(r)
  BY <1>4 DEF GetTFFails, InstallFails, ReturnError
<1>5. CASE Download(r) \/ Write(r) \/ Link(r)
  BY <1>5 DEF Download, Write, Link, ReturnTF
<1>6. QED
  BY <1>1, <1>2, <1>3, <1>4, <1>5, <1>7, <1>8 DEF Goroutine, GetTF

\* Every step keeps the types.
LEMMA TypeNext == TypeInv /\ [Next]_vars => TypeInv'
<1>1. TypeInv /\ UNCHANGED vars => TypeInv'
  BY DEF TypeInv, TypeOK, vars, loop, binaries, start, meshfed
<1>2. QED
  BY <1>1, TypeMain, TypeGoroutine DEF Next, MainStep

\* The process is always in one of its states (the run InProcess checks it as a
\* part of ExitSound).
THEOREM TypeCorrect == Spec => []TypeInv
  BY TypeInit, TypeNext, PTL DEF Spec

-----------------------------------------------------------------------------
\* The main goroutine touches neither the binaries nor, unless it dispatches a
\* run, the count and the goroutines.
LEMMA MainFrame ==
  ASSUME MainStep
  PROVE  /\ UNCHANGED binaries
         /\ UNCHANGED <<pc, active>> \/ \E r \in Runs : FetchRun(r)
<1> USE DEF binaries
<1>1. CASE Registration \/ GiveUp \/ StopLoop \/ Stopped \/ Deadline \/ Signal \/ SecondSignal
  BY <1>1 DEF Registration, RegisterController, RegisterFails, GiveUp, StopLoop, Stopped,
     Deadline, Signal, SecondSignal, vars
<1>2. CASE newDispatcher \/ RegisterAgain \/ StartDrain \/ DrainLoop \/ Exit
  BY <1>2 DEF newDispatcher, RegisterAgain, StartDrain, DrainLoop, Exit
<1>3. CASE Fetch
  BY <1>3 DEF Fetch, FetchNothing, FetchFails, FetchRun, FetchUnhandled
<1>4. CASE reportRunFailure \/ reportRunFailureFails
  BY <1>4 DEF reportRunFailure, reportRunFailureFails
<1>5. QED
  BY <1>1, <1>2, <1>3, <1>4 DEF MainStep, Main, Report

-----------------------------------------------------------------------------
(* The binaries.                                                           *)

\* The inductive invariant of the cache: only the holder of the mutex is within
\* GetTF; where it is there says what its file looks like; and a file that is
\* not complete is being written or was left by a failed installation.
BinInv ==
  /\ \A r \in Runs : pc[r] \in InGetTF => lock = r
  /\ \A r \in Runs : pc[r] \in {"reset", "download"} => disk[Ver(r)] = "none"
  /\ \A r \in Runs : pc[r] = "write" => disk[Ver(r)] = "partial"
  /\ \A r \in Runs : pc[r] = "link" => disk[Ver(r)] = "unlinked"
  /\ \A v \in Versions : disk[v] \in {"partial", "unlinked"} =>
       v \in broken \/ \E r \in Runs : pc[r] \in {"write", "link"} /\ Ver(r) = v
  /\ BinariesSound

\* No run has started, no file exists.
LEMMA BinInit == Init => BinInv
  BY VersionsAssumption DEF Init, BinInv, BinariesSound, InGetTF, Ver

\* Steps that leave the binaries alone, and move a run at most between places
\* outside of GetTF and use, keep it.
LEMMA BinElsewhere ==
  ASSUME BinInv, TypeInv, UNCHANGED binaries,
         pc' = pc \/ \E r \in Runs, p \in Places \ (InGetTF \cup {"use"}) :
                        pc[r] \notin InGetTF \cup {"panic"} /\ pc' = [pc EXCEPT ![r] = p]
  PROVE  BinInv'
  BY VersionsAssumption
     DEF BinInv, TypeInv, TypeOK, BinariesSound, binaries, Places, InGetTF, Ver

\* The main goroutine has nothing to do with the binaries; a run that it
\* dispatches was offered, and is not within GetTF.
LEMMA BinMain ==
  ASSUME BinInv, TypeInv, MainStep
  PROVE  BinInv'
<1>1. CASE \E r \in Runs : FetchRun(r)
  <2>1. PICK r \in Runs : FetchRun(r)
    BY <1>1
  <2>2. pc[r] = "idle" /\ pc' = [pc EXCEPT ![r] = "begin"] /\ UNCHANGED binaries
    BY <2>1 DEF FetchRun, Claim, Dispatch, TypeInv
  <2>3. QED
    BY <2>2, BinElsewhere DEF Places, InGetTF
<1>2. CASE ~ \E r \in Runs : FetchRun(r)
  BY <1>2, MainFrame, BinElsewhere
<1>3. QED
  BY <1>1, <1>2

\* The goroutine of a run keeps it: within GetTF it is alone.
LEMMA BinGoroutine ==
  ASSUME BinInv, TypeInv, NEW r \in Runs, Goroutine(r) \/ Lock(r)
  PROVE  BinInv'
<1> USE DEF Goto
<1>0. /\ r # NoRun /\ \A s \in Runs : Ver(s) \in Versions
      /\ pc \in [Runs -> Places] /\ disk \in [Versions -> Files]
      /\ broken \subseteq Versions
  BY RunsAssumption, VersionsAssumption DEF TypeInv, TypeOK, Ver, Places, Files
<1>1. CASE ExecuteFails(r) \/ Begin(r) \/ ReportEnd(r) \/ Leave(r) \/ Use(r)
  <2>1. UNCHANGED binaries
    BY <1>1 DEF ExecuteFails, Begin, ReportEnd, Leave, Use
  <2>2. pc[r] \notin InGetTF \cup {"panic"}
        /\ \E p \in Places \ (InGetTF \cup {"use"}) : pc' = [pc EXCEPT ![r] = p]
    BY <1>1 DEF ExecuteFails, Begin, ReportEnd, Leave, Use, Places, InGetTF
  <2>3. QED
    BY <2>1, <2>2, BinElsewhere
<1>2. CASE Panic(r)
  BY <1>2, BinElsewhere DEF Panic
<1>3. CASE Lock(r)
  <2>1. /\ pc'[r] = "stat" /\ \A s \in Runs \ {r} : pc'[s] = pc[s]
        /\ lock' = r /\ UNCHANGED <<disk, broken>>
    BY <1>0, <1>3 DEF Lock
  <2>2. \A s \in Runs : pc[s] \notin InGetTF
    BY <1>3, RunsAssumption DEF Lock, MutexFree, BinInv
  <2>3. BinariesSound'
    <3>1. pc[r] = "lock"
      BY <1>3 DEF Lock
    <3> QED BY <2>1, <3>1 DEF BinInv, BinariesSound, Ver
  <2>4. QED
    BY <2>1, <2>2, <2>3 DEF BinInv, InGetTF, Ver
<1>4. CASE Stat(r)
  BY <1>0, <1>4 DEF Stat, Installed, ReturnTF, BinInv, BinariesSound, InGetTF, Ver, Places, Files
<1>5. CASE Reset(r)
  <2>1. /\ pc[r] = "reset" /\ \A s \in Runs \ {r} : pc'[s] = pc[s] /\ pc[s] \notin InGetTF
        /\ pc'[r] = (IF Ver(r) \in Malformed THEN "panic" ELSE "download")
        /\ pc'[r] = "download" => lock' = r
        /\ UNCHANGED broken
    BY <1>0, <1>5 DEF Reset, BinInv, InGetTF
  <2>2. \A v \in Versions : disk'[v] = IF v = Ver(r) \/ Ver(r) \in Empty THEN "none" ELSE disk[v]
    BY <1>5 DEF Reset
  <2>3. BinariesSound'
    <3> SUFFICES ASSUME NEW s \in Runs, pc'[s] = "use"
                 PROVE  \/ disk'[Ver(s)] = "complete"
                        \/ disk'[Ver(s)] # "none" /\ Ver(s) \in broken'
                        \/ \E q \in Runs : pc'[q] = "panic" /\ Ver(q) \in Empty
      BY DEF BinariesSound, Ver
    <3>1. CASE Ver(r) \in Empty
      BY <2>1, <3>1, VersionsAssumption
    <3>2. CASE Ver(r) \notin Empty
      <4>1. s # r /\ pc[s] = "use" /\ disk[Ver(r)] = "none"
        BY <2>1, <3>2 DEF BinInv
      <4>2. CASE \E q \in Runs : pc[q] = "panic" /\ Ver(q) \in Empty
        BY <2>1, <4>2
      <4>3. CASE disk[Ver(s)] # "none"
        BY <1>0, <2>1, <2>2, <3>2, <4>1, <4>3 DEF BinInv, BinariesSound
      <4> QED BY <4>1, <4>2, <4>3 DEF BinInv, BinariesSound
    <3> QED BY <3>1, <3>2
  <2> QED BY <1>0, <2>1, <2>2, <2>3 DEF BinInv, InGetTF, Ver
<1>6. CASE GetTFFails(r)
  BY <1>0, <1>6 DEF GetTFFails, ReturnError, BinInv, BinariesSound, InGetTF, Ver, Places, Files
<1>7. CASE Download(r)
  BY <1>0, <1>7 DEF Download, BinInv, BinariesSound, InGetTF, Ver, Places, Files
<1>8. CASE Write(r)
  <2>1. /\ \A s \in Runs \ {r} : pc'[s] = pc[s] /\ pc[s] \notin InGetTF
        /\ \A v \in Versions \ {Ver(r)} : disk'[v] = disk[v]
        /\ disk[Ver(r)] = "partial" /\ UNCHANGED broken
    BY <1>0, <1>8 DEF Write, ReturnTF, BinInv, InGetTF
  <2>2. \/ disk'[Ver(r)] = "unlinked" /\ pc'[r] = "link" /\ lock' = r
        \/ disk'[Ver(r)] = "complete" /\ pc'[r] = "use"
    BY <1>0, <1>8 DEF Write, ReturnTF, BinInv, InGetTF
  <2>3. BinariesSound'
    <3>1. pc[r] = "write"
      BY <1>8 DEF Write
    <3> QED BY <1>0, <2>1, <2>2, <3>1 DEF BinInv, BinariesSound
  <2>4. \A v \in Versions : disk'[v] \in {"partial", "unlinked"} =>
          v \in broken' \/ \E s \in Runs : pc'[s] \in {"write", "link"} /\ Ver(s) = v
    <3>1. ASSUME NEW v \in Versions, v # Ver(r), disk'[v] \in {"partial", "unlinked"}
          PROVE  v \in broken'
      BY <1>0, <2>1, <3>1 DEF BinInv, InGetTF
    <3>2. QED
      BY <1>0, <2>2, <3>1
  <2>5. QED
    BY <1>0, <2>1, <2>2, <2>3, <2>4 DEF BinInv, InGetTF, Ver
<1>9. CASE Link(r)
  BY <1>0, <1>9 DEF Link, ReturnTF, BinInv, BinariesSound, InGetTF, Ver, Places, Files
<1>10. CASE InstallFails(r)
  BY <1>0, <1>10 DEF InstallFails, ReturnError, BinInv, BinariesSound, InGetTF, Ver, Places, Files
<1>11. QED
  BY <1>1, <1>2, <1>3, <1>4, <1>5, <1>6, <1>7, <1>8, <1>9, <1>10 DEF Goroutine, GetTF

\* A run works with a complete binary, unless an installation of its version
\* has failed (GetTF), for any set of runs and versions.
THEOREM BinariesTheorem == Spec => []BinariesSound
<1>1. TypeInv /\ BinInv /\ [Next]_vars => BinInv'
  <2>1. TypeInv /\ BinInv /\ UNCHANGED vars => BinInv'
    BY BinElsewhere DEF vars
  <2>2. QED
    BY <2>1, BinMain, BinGoroutine DEF Next, MainStep
<1>2. BinInv => BinariesSound
  BY DEF BinInv
<1>3. QED
  BY <1>1, <1>2, BinInit, TypeCorrect, PTL DEF Spec

-----------------------------------------------------------------------------
(* The limit.                                                              *)

\* The inductive invariant of the limit: active is the number of goroutines,
\* and while drainRuns works with the capacity it took, the limit has room for
\* every run that it may still dispatch.
CountInv ==
  /\ active = Cardinality(Goroutines)
  /\ MaxConcurrentJobs > 0 =>
       /\ active <= MaxConcurrentJobs
       /\ ctl \in {"drain", "fetch"} => active + capacity - dispatched <= MaxConcurrentJobs

\* There are finitely many goroutines.
LEMMA GoroutinesFinite == IsFiniteSet(Goroutines) /\ Cardinality(Goroutines) \in Nat
<1>1. Goroutines \subseteq Runs
  BY DEF Goroutines
<1>2. QED
  BY <1>1, RunsAssumption, FS_Subset, FS_CardinalityType

\* A step that changes neither the goroutines nor the count of a drain keeps
\* the invariant, unless it enters the loop.
LEMMA CountElsewhere ==
  ASSUME CountInv, UNCHANGED <<pc, active>>,
         \/ ctl' \notin {"drain", "fetch"}
         \/ ctl \in {"drain", "fetch"} /\ UNCHANGED <<capacity, dispatched>>
  PROVE  CountInv'
<1>1. Goroutines' = Goroutines
  BY DEF Goroutines
<1>2. QED
  BY <1>1 DEF CountInv

\* The main goroutine keeps it: StartDrain takes what is free, FetchRun uses up
\* one of it.
LEMMA CountMain ==
  ASSUME CountInv, TypeInv, MainStep
  PROVE  CountInv'
<1> USE DEF loop
<1>1. CASE Registration \/ GiveUp \/ StopLoop \/ SecondSignal \/ newDispatcher
           \/ RegisterAgain \/ Exit
  BY <1>1, CountElsewhere DEF Registration, RegisterController, RegisterFails, GiveUp,
     StopLoop, SecondSignal, newDispatcher, RegisterAgain, Exit
<1>2. CASE Deadline \/ Signal \/ Stopped
  BY <1>2, CountElsewhere DEF Deadline, Signal, Stopped, vars
<1>3. CASE StartDrain
  <2>1. Goroutines' = Goroutines
    BY <1>3 DEF StartDrain, Goroutines
  <2>2. MaxConcurrentJobs > 0 => active + availableCapacity <= MaxConcurrentJobs
    BY <1>3, LimitAssumption DEF StartDrain, availableCapacity, TypeInv, TypeOK
  <2>3. availableCapacity \in Nat
    BY LimitAssumption DEF availableCapacity, maxDrainPerCycleUnlimited, TypeInv, TypeOK
  <2>4. QED
    BY <1>3, <2>1, <2>2, <2>3 DEF StartDrain, CountInv, TypeInv, TypeOK
<1>4. CASE DrainLoop
  BY <1>4, CountElsewhere DEF DrainLoop, EndDrain
<1>5. CASE FetchNothing \/ FetchFails \/ reportRunFailure \/ reportRunFailureFails
  BY <1>5, CountElsewhere DEF FetchNothing, FetchFails, reportRunFailure,
     reportRunFailureFails, EndDrain
<1>6. ASSUME NEW r \in Runs, FetchUnhandled(r) PROVE CountInv'
  BY <1>6, CountElsewhere DEF FetchUnhandled
<1>7. ASSUME NEW r \in Runs, FetchRun(r) PROVE CountInv'
  <2>1. Goroutines' = Goroutines \cup {r} /\ r \notin Goroutines
    BY <1>7 DEF FetchRun, Claim, Dispatch, Goroutines, TypeInv, TypeOK
  <2>2. Cardinality(Goroutines') = Cardinality(Goroutines) + 1
    BY <2>1, GoroutinesFinite, FS_AddElement
  <2>3. /\ active' = active + 1 /\ active \in Int /\ capacity \in Nat /\ dispatched \in Nat
        /\ capacity' = capacity /\ dispatched' = dispatched + 1 /\ dispatched < capacity
        /\ ctl = "fetch" /\ ctl' = "drain"
    BY <1>7 DEF FetchRun, Dispatch, TypeInv, TypeOK
  <2>4. QED
    BY <2>2, <2>3, LimitAssumption DEF CountInv
<1>8. QED
  BY <1>1, <1>2, <1>3, <1>4, <1>5, <1>6, <1>7 DEF MainStep, Main, Fetch, Report

\* The goroutine of a run keeps it: the last step of a run is the only one that
\* counts.
LEMMA CountGoroutine ==
  ASSUME CountInv, TypeInv, NEW r \in Runs, Goroutine(r) \/ Lock(r)
  PROVE  CountInv'
<1>1. CASE Leave(r)
  <2>1. Goroutines' = Goroutines \ {r} /\ r \in Goroutines
    BY <1>1 DEF Leave, Goto, Goroutines, TypeInv, TypeOK
  <2>2. Cardinality(Goroutines') = Cardinality(Goroutines) - 1
    BY <2>1, GoroutinesFinite, FS_RemoveElement
  <2>3. /\ active' = active - 1 /\ active \in Int /\ capacity \in Nat /\ dispatched \in Nat
        /\ UNCHANGED <<ctl, capacity, dispatched>>
    BY <1>1 DEF Leave, loop, TypeInv, TypeOK
  <2>4. QED
    BY <2>2, <2>3, LimitAssumption DEF CountInv
<1>2. CASE Panic(r)
  BY <1>2, CountElsewhere DEF Panic
<1>3. CASE ~Leave(r) /\ ~Panic(r)
  <2>1. /\ UNCHANGED <<ctl, capacity, dispatched, active>>
        /\ pc[r] \notin {"idle", "gone"}
        /\ \E p \in Places \ {"idle", "gone"} : pc' = [pc EXCEPT ![r] = p]
    BY <1>3 DEF Goroutine, GetTF, ExecuteFails, Begin, ReportEnd, Use, Lock, Stat, Reset,
       GetTFFails, Download, Write, Link, InstallFails, ReturnTF, ReturnError, Goto, loop,
       Places, InGetTF
  <2>2. Goroutines' = Goroutines
    BY <2>1 DEF Goroutines, TypeInv, TypeOK
  <2>3. QED
    BY <2>1, <2>2 DEF CountInv
<1>4. QED
  BY <1>1, <1>2, <1>3

\* The number of executing runs never exceeds maxConcurrentJobs (drainRuns,
\* Dispatcher.ActiveRuns), for every limit and any number of runs.
THEOREM CapacityTheorem == Spec => []CapacityRespected
<1>1. Init => CountInv
  <2>1. Init => Goroutines = {}
    BY DEF Init, Goroutines
  <2>2. QED
    BY <2>1, FS_EmptySet, LimitAssumption DEF Init, CountInv
<1>2. TypeInv /\ CountInv /\ [Next]_vars => CountInv'
  <2>1. CountInv /\ UNCHANGED vars => CountInv'
    BY DEF CountInv, Goroutines, vars, loop
  <2>2. QED
    BY <2>1, CountMain, CountGoroutine DEF Next, MainStep
<1>3. CountInv => CapacityRespected
  BY DEF CountInv, CapacityRespected
<1>4. QED
  BY <1>1, <1>2, <1>3, TypeCorrect, PTL DEF Spec

-----------------------------------------------------------------------------
(* The end of the process.                                                 *)

\* The inductive invariant of the exit: unless a request failed or the process
\* was killed, a claimed run has a goroutine that still has to report it, could
\* not be started, or is the one whose failure the controller reports.
ExitInv ==
  /\ ctl = "exited" => Goroutines = {}
  /\ ~faulty /\ ctl # "killed" => \A r \in Runs : mesh[r] = "claimed" =>
       \/ pc[r] \notin {"idle", "leave", "gone"}
       \/ r \in unstarted
       \/ ctl = "report" /\ cur = r

\* The main goroutine keeps it.
LEMMA ExitMain ==
  ASSUME ExitInv, TypeInv, MainStep
  PROVE  ExitInv'
<1> USE DEF ExitInv, Goroutines, loop, meshfed
<1>1. CASE Registration \/ GiveUp \/ StopLoop \/ SecondSignal \/ newDispatcher
           \/ RegisterAgain
  BY <1>1 DEF Registration, RegisterController, RegisterFails, GiveUp,
     StopLoop, SecondSignal, newDispatcher, RegisterAgain
<1>2. CASE Exit
  BY <1>2 DEF Exit, Wait
<1>3. CASE Deadline \/ Signal \/ Stopped
  BY <1>3 DEF Deadline, Signal, Stopped, vars
<1>4. CASE StartDrain \/ DrainLoop
  BY <1>4 DEF StartDrain, DrainLoop, EndDrain
<1>5. CASE FetchNothing
  BY <1>5 DEF FetchNothing, EndDrain
<1>6. CASE FetchFails \/ reportRunFailureFails
  BY <1>6 DEF FetchFails, reportRunFailureFails, EndDrain
<1>7. CASE reportRunFailure
  BY <1>7 DEF reportRunFailure, EndDrain, TypeInv, TypeOK
<1>8. ASSUME NEW r \in Runs, FetchUnhandled(r) PROVE ExitInv'
  BY <1>8 DEF FetchUnhandled, Claim, TypeInv, TypeOK
<1>9. ASSUME NEW r \in Runs, FetchRun(r) PROVE ExitInv'
  BY <1>9 DEF FetchRun, Claim, Dispatch, TypeInv, TypeOK
<1>10. QED
  BY <1>1, <1>2, <1>3, <1>4, <1>5, <1>6, <1>7, <1>8, <1>9 DEF MainStep, Main, Fetch, Report

\* The goroutine of a run keeps it: it leaves only after its report.
LEMMA ExitGoroutine ==
  ASSUME ExitInv, TypeInv, NEW r \in Runs, Goroutine(r) \/ Lock(r)
  PROVE  ExitInv'
<1> USE DEF ExitInv, Goroutines, loop, meshfed, Alive, Ended, Goto
<1>1. CASE ExecuteFails(r)
  BY <1>1 DEF ExecuteFails, TypeInv, TypeOK
<1>2. CASE ReportEnd(r)
  BY <1>2 DEF ReportEnd, TypeInv, TypeOK
<1>3. CASE Leave(r)
  BY <1>3 DEF Leave, TypeInv, TypeOK
<1>4. CASE Panic(r)
  BY <1>4 DEF Panic
<1>5. CASE Lock(r) \/ Begin(r) \/ Use(r) \/ GetTF(r)
  <2>1. /\ UNCHANGED <<ctl, cur, mesh, faulty, unstarted>> /\ ctl # "exited"
        /\ \E p \in Places \ {"idle", "leave", "gone"} : pc' = [pc EXCEPT ![r] = p]
    BY <1>5 DEF GetTF, Begin, Use, Lock, Stat, Reset, GetTFFails, Download, Write, Link,
       InstallFails, ReturnTF, ReturnError, Places, InGetTF
  <2>2. QED
    BY <2>1 DEF TypeInv, TypeOK
<1>6. QED
  BY <1>1, <1>2, <1>3, <1>4, <1>5 DEF Goroutine

\* When the process exits, no run of it is at work, and every run that it could
\* start has been told its end (main, dispatcher.Wait).
THEOREM ExitTheorem == Spec => []ExitSound
<1>1. Init => ExitInv
  BY DEF Init, ExitInv
<1>2. TypeInv /\ ExitInv /\ [Next]_vars => ExitInv'
  <2>1. ExitInv /\ UNCHANGED vars => ExitInv'
    BY DEF ExitInv, Goroutines, vars, loop, meshfed
  <2>2. QED
    BY <2>1, ExitMain, ExitGoroutine DEF Next, MainStep
<1>3. TypeInv /\ ExitInv => ExitSound
  BY DEF TypeInv, ExitInv, ExitSound, ExitAfterRuns, Goroutines
<1>4. QED
  BY <1>1, <1>2, <1>3, TypeCorrect, PTL DEF Spec
=============================================================================
