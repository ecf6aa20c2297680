----------------------------- MODULE RunReport -----------------------------
(***************************************************************************)
(* What a runner promises meshStack about one run, whatever it executes    *)
(* and however requests fail: it reports an end only once its own work has *)
(* ended, the reported end is the result of that work, an abort that it    *)
(* has seen is reported as ABORTED, an abort nobody asked for never is,    *)
(* and the success of an asynchronous run is left to the external pipeline *)
(* to report.  TfRun is shown to implement this specification.             *)
(***************************************************************************)
VARIABLES async,   \* the run continues in an external pipeline
          result,  \* the outcome of the runner's work, "none" while it works
          abort,   \* a user asked meshStack to abort the run
          seen,    \* the runner has learned of the abort
          shown    \* the status meshStack shows

vars == <<async, result, abort, seen, shown>>

Init ==
  /\ async \in BOOLEAN
  /\ result = "none"
  /\ abort = FALSE
  /\ seen = FALSE
  /\ shown = "IN_PROGRESS"

\* A meshStack that does not wait for the runner ends the run at once.
RequestAbort ==
  /\ ~abort
  /\ shown = "IN_PROGRESS"
  /\ abort' = TRUE
  /\ shown' \in {"IN_PROGRESS", "ABORTED"}
  /\ UNCHANGED <<async, result, seen>>

\* The answer to a progress report may update what meshStack shows as well.
SeeAbort ==
  /\ abort
  /\ seen' = TRUE
  /\ UNCHANGED <<async, result, abort, shown>>

EndWork ==
  /\ result = "none"
  /\ result' \in {"SUCCEEDED", "FAILED"}
  /\ UNCHANGED <<async, abort, seen, shown>>

ReportEnd ==
  /\ result # "none"
  /\ shown = "IN_PROGRESS"
  /\ shown' = IF seen THEN "ABORTED" ELSE result
  /\ shown' = "SUCCEEDED" => ~async
  /\ UNCHANGED <<async, result, abort, seen>>

Next == RequestAbort \/ SeeAbort \/ EndWork \/ ReportEnd

Spec == Init /\ [][Next]_vars
=============================================================================
