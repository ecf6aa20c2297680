----------------------------- MODULE InProcess ------------------------------
(***************************************************************************)
(* run-controller with its in-process dispatcher: the controller registers *)
(* at meshfed, then claims runs while fewer than the limit are active, and *)
(* executes each claimed run in a goroutine of its own process.  All runs  *)
(* share the directory of tofu and terraform binaries (TfBinaries), which  *)
(* one of them at a time fills under a mutex, and all die with the process.*)
(*                                                                         *)
(* What a run does besides, and what it reports, is module TfRun; here a   *)
(* run ends well or not, hangs, or panics.  Runs that the controller       *)
(* cannot decrypt are in module RunController.                             *)
(***************************************************************************)
EXTENDS Integers, FiniteSets

CONSTANTS
  Runs,               \* the runs meshfed offers
  NoRun,              \* no run
  NoHandler,          \* runs of a type without an executor
  Manual,             \* runs of the manual executor, which uses no binaries
  Versions,           \* the versions of terraform and tofu the runs ask for
  Malformed,          \* those that are no versions
  Empty,              \* the empty ones, whose directory is the install directory
  Tofu,               \* those newer than terraform 1.5.5
  VersionOf,          \* the version each run asks for
  MaxConcurrentJobs   \* AppConfig.MaxConcurrentJobs; negative: unlimited

ASSUME RunsAssumption == /\ IsFiniteSet(Runs)
                         /\ NoRun \notin Runs
                         /\ NoHandler \subseteq Runs
                         /\ Manual \subseteq Runs
ASSUME VersionsAssumption == /\ VersionOf \in [Runs -> Versions]
                             /\ Malformed \subseteq Versions
                             /\ Empty \subseteq Malformed
                             /\ Tofu \subseteq Versions
\* ReadConfig replaces 0 by a default.
ASSUME LimitAssumption == MaxConcurrentJobs \in Int \ {0}

VARIABLES
  ctl,        \* where the main goroutine is
  capacity,   \* drainRuns: capacity
  dispatched, \* drainRuns: dispatched
  cur,        \* the run whose failure is being reported
  stopping,   \* the context of the signals is done
  deadline,   \* the ten minutes for the registration are over
  active,     \* Dispatcher.active
  pc,         \* where the goroutine of each run is
  lock,       \* the run that holds TfBinaries.mutex
  disk,       \* the file 'terraform' in the directory of each version
  \* external
  mesh,       \* meshfed's view of every run
  \* history
  registered, \* meshfed has confirmed the registration
  broken,     \* versions of which an installation failed
  faulty,     \* a request to meshfed failed
  unstarted   \* runs whose executor returned or panicked before any report

loop     == <<capacity, dispatched, cur>>
binaries == <<lock, disk, broken>>
start    == <<deadline, registered>>
meshfed  == <<mesh, faulty, unstarted>>
vars == <<ctl, loop, stopping, active, pc, binaries, start, meshfed>>

Ended == {"exited", "fatal", "killed"}
Alive == ctl \notin Ended
\* The goroutines that Dispatcher.runs waits for.
Goroutines == {r \in Runs : pc[r] \notin {"idle", "gone"}}

Init ==
  /\ ctl = "create"
  /\ capacity = 0 /\ dispatched = 0 /\ cur = NoRun
  /\ stopping = FALSE
  /\ active = 0
  /\ pc = [r \in Runs |-> "idle"]
  /\ lock = NoRun
  /\ disk = [v \in Versions |-> "none"]
  /\ deadline = FALSE /\ registered = FALSE
  /\ mesh = [r \in Runs |-> "offered"]
  /\ broken = {} /\ faulty = FALSE /\ unstarted = {}

-----------------------------------------------------------------------------
(* main and registerController.                                            *)

\* newDispatcher creates the install directory of the binaries, or exits.
newDispatcher ==
  /\ ctl = "create"
  /\ ctl' \in {"register", "fatal"}
  /\ UNCHANGED <<loop, stopping, active, pc, binaries, start, meshfed>>

\* The deferred cancel ends the context with the deadline.
RegisterController ==
  /\ ctl = "register"
  /\ ctl' = "select"
  /\ registered' = TRUE
  /\ deadline' = FALSE
  /\ UNCHANGED <<loop, stopping, active, pc, binaries, meshfed>>

\* An error, or 404: the controller does not exist in meshfed yet.
RegisterFails ==
  /\ ctl = "register"
  /\ ctl' = "retry"
  /\ UNCHANGED <<loop, stopping, active, pc, binaries, start, meshfed>>

RegisterAgain ==
  /\ ctl = "retry"
  /\ ctl' = "register"
  /\ UNCHANGED <<loop, stopping, active, pc, binaries, start, meshfed>>

\* The context that registerController selects on.
RegistrationDone_NoDeadline == stopping
RegistrationDone == stopping \/ deadline
GiveUp ==
  /\ ctl = "retry"
  /\ RegistrationDone
  /\ ctl' = "fatal"
  /\ UNCHANGED <<loop, stopping, active, pc, binaries, start, meshfed>>

Deadline ==
  /\ ctl \in {"register", "retry"}
  /\ ~deadline
  /\ deadline' = TRUE
  /\ UNCHANGED <<ctl, loop, stopping, active, pc, binaries, registered, meshfed>>

Signal ==
  /\ Alive
  /\ ~stopping
  /\ stopping' = TRUE
  /\ UNCHANGED <<ctl, loop, active, pc, binaries, start, meshfed>>

\* stopOnSignal has restored the default: another signal ends the process.
\* Before that, while Run is still at work, it is swallowed.
SecondSignal ==
  /\ ctl = "wait"
  /\ ctl' = "killed"
  /\ UNCHANGED <<loop, stopping, active, pc, binaries, start, meshfed>>

\* dispatcher.Wait: main returns once every goroutine has ended.
Wait_Not == ctl = "wait"
Wait == ctl = "wait" /\ Goroutines = {}
Exit ==
  /\ Wait
  /\ ctl' = "exited"
  /\ UNCHANGED <<loop, stopping, active, pc, binaries, start, meshfed>>

-----------------------------------------------------------------------------
(* The poll loop (controller.go).                                          *)

maxDrainPerCycleUnlimited == 10

availableCapacity ==
  IF MaxConcurrentJobs < 0 THEN maxDrainPerCycleUnlimited
  ELSE IF MaxConcurrentJobs > active THEN MaxConcurrentJobs - active ELSE 0

StartDrain ==
  /\ ctl = "select"
  /\ availableCapacity > 0
  /\ ctl' = "drain"
  /\ capacity' = availableCapacity
  /\ dispatched' = 0
  /\ UNCHANGED <<cur, stopping, active, pc, binaries, start, meshfed>>

EndDrain == ctl' = "select" /\ capacity' = 0 /\ dispatched' = 0 /\ cur' = NoRun

DrainContinues_NoLimit == ~stopping
DrainContinues == dispatched < capacity /\ ~stopping

DrainLoop ==
  /\ ctl = "drain"
  /\ IF DrainContinues THEN ctl' = "fetch" /\ UNCHANGED loop ELSE EndDrain
  /\ UNCHANGED <<stopping, active, pc, binaries, start, meshfed>>

StopLoop ==
  /\ ctl = "select"
  /\ stopping
  /\ ctl' = "wait"
  /\ UNCHANGED <<loop, stopping, active, pc, binaries, start, meshfed>>

Claim(r) ==
  /\ mesh[r] = "offered"
  /\ mesh' = [mesh EXCEPT ![r] = "claimed"]

FetchNothing ==
  /\ ctl = "fetch"
  /\ \A r \in Runs : mesh[r] # "offered"
  /\ EndDrain
  /\ UNCHANGED <<stopping, active, pc, binaries, start, meshfed>>

\* The run of a lost answer stays claimed.
FetchFails ==
  /\ ctl = "fetch"
  /\ EndDrain
  /\ faulty' = TRUE
  /\ UNCHANGED mesh \/ \E r \in Runs : Claim(r)
  /\ UNCHANGED <<stopping, active, pc, binaries, start, unstarted>>

\* Dispatch counts the run before its goroutine starts.
Dispatch_CountedByGoroutine(r) ==
  /\ pc' = [pc EXCEPT ![r] = "begin"]
  /\ UNCHANGED active
Dispatch(r) ==
  /\ pc' = [pc EXCEPT ![r] = "begin"]
  /\ active' = active + 1

FetchRun(r) ==
  /\ ctl = "fetch"
  /\ r \notin NoHandler
  /\ Claim(r)
  /\ Dispatch(r)
  /\ ctl' = "drain"
  /\ dispatched' = dispatched + 1
  /\ UNCHANGED <<capacity, cur, stopping, binaries, start, faulty, unstarted>>

\* NoHandlerError.
FetchUnhandled(r) ==
  /\ ctl = "fetch"
  /\ r \in NoHandler
  /\ Claim(r)
  /\ ctl' = "report"
  /\ cur' = r
  /\ UNCHANGED <<capacity, dispatched, stopping, active, pc, binaries, start, faulty, unstarted>>

\* reportRunFailure registers and updates, neither repeated.
reportRunFailure ==
  /\ ctl = "report"
  /\ mesh' = [mesh EXCEPT ![cur] = "FAILED"]
  /\ EndDrain
  /\ UNCHANGED <<stopping, active, pc, binaries, start, faulty, unstarted>>

reportRunFailureFails ==
  /\ ctl = "report"
  /\ faulty' = TRUE
  /\ mesh' \in {mesh, [mesh EXCEPT ![cur] = "FAILED"]}
  /\ EndDrain
  /\ UNCHANGED <<stopping, active, pc, binaries, start, unstarted>>

-----------------------------------------------------------------------------
(* Dispatcher.execute, the goroutine of a run.                             *)

Goto(r, label) == pc' = [pc EXCEPT ![r] = label]
Ver(r) == VersionOf[r]

\* The executor returns an error, or panics, before it reports anything: the
\* goroutine logs that and ends.
ExecuteFails(r) ==
  /\ Alive
  /\ pc[r] = "begin"
  /\ Goto(r, "leave")
  /\ unstarted' = unstarted \cup {r}
  /\ UNCHANGED <<ctl, loop, stopping, active, binaries, start, mesh, faulty>>

\* A run comes to GetTF, or to its report: a manual run, a run that fails
\* before it has its binary.
Begin(r) ==
  /\ Alive
  /\ pc[r] = "begin"
  /\ \/ r \notin Manual /\ Goto(r, "lock")
     \/ Goto(r, "report")
  /\ UNCHANGED <<ctl, loop, stopping, active, binaries, start, meshfed>>

\* The end of the run is reported; meshfed may refuse it for good.
ReportEnd(r) ==
  /\ Alive
  /\ pc[r] = "report"
  /\ Goto(r, "leave")
  /\ \/ mesh' = [mesh EXCEPT ![r] = "ended"] /\ UNCHANGED faulty
     \/ faulty' = TRUE /\ UNCHANGED mesh
  /\ UNCHANGED <<ctl, loop, stopping, active, binaries, start, unstarted>>

\* The deferred decrement.
Leave(r) ==
  /\ Alive
  /\ pc[r] = "leave"
  /\ Goto(r, "gone")
  /\ active' = active - 1
  /\ UNCHANGED <<ctl, loop, stopping, binaries, start, meshfed>>

-----------------------------------------------------------------------------
(* TfBinaries.GetTF.                                                       *)

MutexFree_NoMutex == TRUE
MutexFree == lock = NoRun

Lock(r) ==
  /\ Alive
  /\ pc[r] = "lock"
  /\ MutexFree
  /\ lock' = r
  /\ Goto(r, "stat")
  /\ UNCHANGED <<ctl, loop, stopping, active, disk, broken, start, meshfed>>

\* GetTF returns a binary or an error, and unlocks.
ReturnTF(r) == lock' = NoRun /\ Goto(r, "use")
ReturnError_KeepsLock(r) == lock' = lock /\ Goto(r, "report")
ReturnError(r) == lock' = NoRun /\ Goto(r, "report")

\* "file exists, is no dir: we assume it's a previously installed tf binary".
Installed(v) == disk[v] # "none"
Stat(r) ==
  /\ Alive
  /\ pc[r] = "stat"
  /\ IF Installed(Ver(r)) THEN ReturnTF(r) ELSE Goto(r, "reset") /\ UNCHANGED lock
  /\ UNCHANGED <<ctl, loop, stopping, active, disk, broken, start, meshfed>>

\* RemoveAll and MkdirAll of the version's directory, with an empty version that
\* of all versions, then the version is parsed.  version.Must panics: the deferred
\* calls unlock the mutex and tell the observer, then the process ends, because
\* the recover of execute is on another goroutine.
Reset(r) ==
  /\ Alive
  /\ pc[r] = "reset"
  /\ disk' = [v \in Versions |-> IF v = Ver(r) \/ Ver(r) \in Empty THEN "none" ELSE disk[v]]
  /\ IF Ver(r) \in Malformed
     THEN lock' = NoRun /\ Goto(r, "panic")
     ELSE UNCHANGED lock /\ Goto(r, "download")
  /\ UNCHANGED <<ctl, loop, stopping, active, broken, start, meshfed>>

Panic(r) ==
  /\ Alive
  /\ pc[r] = "panic"
  /\ ctl' = "killed"
  /\ UNCHANGED <<loop, stopping, active, pc, binaries, start, meshfed>>

\* The directory cannot be reset, or the download fails.
GetTFFails(r) ==
  /\ Alive
  /\ pc[r] \in {"reset", "download"}
  /\ ReturnError(r)
  /\ UNCHANGED <<ctl, loop, stopping, active, disk, broken, start, meshfed>>

\* The download has come; the file is created.
Download(r) ==
  /\ Alive
  /\ pc[r] = "download"
  /\ Goto(r, "write")
  /\ disk' = [disk EXCEPT ![Ver(r)] = "partial"]
  /\ UNCHANGED <<ctl, loop, stopping, active, lock, broken, start, meshfed>>

\* The file has its content; tofu still needs its link.
Write(r) ==
  /\ Alive
  /\ pc[r] = "write"
  /\ IF Ver(r) \in Tofu
     THEN /\ disk' = [disk EXCEPT ![Ver(r)] = "unlinked"]
          /\ Goto(r, "link") /\ UNCHANGED lock
     ELSE /\ disk' = [disk EXCEPT ![Ver(r)] = "complete"]
          /\ ReturnTF(r)
  /\ UNCHANGED <<ctl, loop, stopping, active, broken, start, meshfed>>

Link(r) ==
  /\ Alive
  /\ pc[r] = "link"
  /\ disk' = [disk EXCEPT ![Ver(r)] = "complete"]
  /\ ReturnTF(r)
  /\ UNCHANGED <<ctl, loop, stopping, active, broken, start, meshfed>>

\* What was written so far stays.
InstallFails(r) ==
  /\ Alive
  /\ pc[r] \in {"write", "link"}
  /\ broken' = broken \cup {Ver(r)}
  /\ ReturnError(r)
  /\ UNCHANGED <<ctl, loop, stopping, active, disk, start, meshfed>>

\* The commands of the run with its binary come to an end.
Use(r) ==
  /\ Alive
  /\ pc[r] = "use"
  /\ Goto(r, "report")
  /\ UNCHANGED <<ctl, loop, stopping, active, binaries, start, meshfed>>

-----------------------------------------------------------------------------
GetTF(r) == Stat(r) \/ Reset(r) \/ GetTFFails(r) \/ Download(r) \/ Write(r)
            \/ Link(r) \/ InstallFails(r)
Goroutine(r) == ExecuteFails(r) \/ Begin(r) \/ GetTF(r) \/ Use(r) \/ ReportEnd(r)
                \/ Leave(r) \/ Panic(r)
Fetch == FetchNothing \/ FetchFails \/ \E r \in Runs : FetchRun(r) \/ FetchUnhandled(r)
Registration == RegisterController \/ RegisterFails
Report == reportRunFailure \/ reportRunFailureFails
Main == newDispatcher \/ RegisterAgain \/ StartDrain \/ DrainLoop \/ Exit
Stopped == ctl \in Ended /\ UNCHANGED vars

Next ==
  \/ Registration \/ Main \/ Fetch \/ Report \/ GiveUp \/ StopLoop \/ Stopped
  \/ Deadline \/ Signal \/ SecondSignal
  \/ \E r \in Runs : Goroutine(r) \/ Lock(r)

\* A run is in a call without a deadline: the clone of its sources, its
\* commands, or the download of tofu, for which it holds the mutex.  The
\* download of terraform ends with the context of the run.
Unbounded(r) ==
  \/ pc[r] = "begin" /\ r \notin Manual
  \/ pc[r] = "use"
  \/ pc[r] = "download" /\ Ver(r) \in Tofu

\* Goroutines are scheduled, time passes, and requests with a deadline end.
\* A select that finds the context done again and again takes that case in
\* the end.  The main goroutine's requests (the registration, the fetch, the
\* report of a failure) have no deadline and need not end, nor need the calls of
\* a run that have none; signals need not come.  A run takes each of its steps
\* once, so that it is enough that some goroutine proceeds; the mutex need not be
\* fair.
Fairness ==
  /\ WF_vars(Main) /\ WF_vars(Deadline)
  /\ SF_vars(GiveUp) /\ SF_vars(StopLoop)
  /\ WF_vars(\E r \in Runs : ~Unbounded(r) /\ (Goroutine(r) \/ Lock(r)))

Spec == Init /\ [][Next]_vars /\ Fairness

-----------------------------------------------------------------------------
(* Properties.                                                             *)

InGetTF == {"stat", "reset", "download", "write", "link"}

\* Type invariant.
TypeOK ==
  /\ ctl \in {"create", "register", "retry", "select", "drain", "fetch",
              "report", "wait"} \cup Ended
  /\ capacity \in Nat
  /\ dispatched \in 0..capacity
  /\ cur \in Runs \cup {NoRun}
  /\ stopping \in BOOLEAN /\ deadline \in BOOLEAN
  /\ registered \in BOOLEAN /\ faulty \in BOOLEAN
  /\ active \in Int
  /\ pc \in [Runs -> {"idle", "begin", "lock", "use", "report", "leave", "gone",
                      "panic"} \cup InGetTF]
  /\ lock \in Runs \cup {NoRun}
  /\ disk \in [Versions -> {"none", "partial", "unlinked", "complete"}]
  /\ mesh \in [Runs -> {"offered", "claimed", "FAILED", "ended"}]
  /\ broken \subseteq Versions
  /\ unstarted \subseteq Runs

\* Never more runs execute than configured, although runs end and are
\* dispatched while drainRuns works with the count it took at its start.
CapacityRespected ==
  MaxConcurrentJobs > 0 => Cardinality(Goroutines) <= MaxConcurrentJobs

\* A run works with a completely installed binary that nobody is replacing,
\* also when another run installs the same version at the same time.  The
\* exceptions are a version of which an installation failed half-way: what is
\* left of it is taken for a previously installed binary (GetTF), and the moment
\* between the removal of all binaries for an empty version and the panic that
\* then ends the process with all its runs.
BinariesSound ==
  \A r \in Runs : pc[r] = "use" =>
    \/ disk[Ver(r)] = "complete"
    \/ disk[Ver(r)] # "none" /\ Ver(r) \in broken
    \/ \E q \in Runs : pc[q] = "panic" /\ Ver(q) \in Empty

\* When the process exits after a signal no run is cut off, and every claimed
\* run has been told its end, except when meshfed did not take the report, and
\* for runs that cannot be started, which only the log tells of
\* (build.Dispatcher: "Wait blocks until every run dispatched to this process
\* has finished").
ExitAfterRuns ==
  ctl = "exited" =>
    /\ Goroutines = {}
    /\ ~faulty => \A r \in Runs : mesh[r] = "claimed" => r \in unstarted

\* The registration ends: with success or, after ten minutes or a signal, with
\* the process.  Only a request that never ends, which has neither a timeout nor
\* the context, is not given up.
RegistrationEnds == <>(registered \/ ~Alive) \/ <>[](ctl = "register")

Executing(r) == Alive /\ r \in Goroutines
\* A run waits for the mutex while its holder is in a call without a deadline.
Blocked(r) == pc[r] = "lock" /\ lock # NoRun /\ Unbounded(lock)

\* Every dispatched run ends, unless it hangs, the process dies, or another
\* run hangs in the download of tofu, which no timeout or abort ends and which
\* keeps every other run from its binary.
RunsEnd ==
  \A r \in Runs \ NoHandler : <>[]Executing(r) => <>[]Unbounded(r) \/ <>[]Blocked(r)

\* A signal ends the process, unless a request of the main goroutine is never
\* answered (the registration, the fetch, the report of a failure), or a run
\* hangs.
StopCompletes ==
  <>[](stopping /\ Alive) =>
    <>[](ctl \in {"register", "fetch", "report"} \/ \E r \in Runs : Unbounded(r))

\* A panicking run is recovered and ends alone: nothing but a second signal
\* ends the process while runs are at work (dispatcher_test.go,
\* Test_PanickingRun_IsRecoveredAndNoLongerActive).
PanicIsRecovered == ctl = "killed" => stopping

\* The process exits in order: its goroutines have ended, and every run that it
\* could start has been told its end, if meshfed took the report (main, Wait).
ExitSound == TypeOK /\ ExitAfterRuns

\* The process leaves its registration and, after a signal, ends, unless a call
\* without deadline hangs (registerController, Controller.Run, Wait).
ComesToAnEnd == RegistrationEnds /\ StopCompletes
=============================================================================
