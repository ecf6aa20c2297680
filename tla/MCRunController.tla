--------------------------- MODULE MCRunController --------------------------
(***************************************************************************)
(* RunController for TLC: a configuration file has no negative numbers.    *)
(***************************************************************************)
EXTENDS RunController

\* maxConcurrentJobs: -1
Unlimited == -1
=============================================================================
