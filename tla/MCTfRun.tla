------------------------------ MODULE MCTfRun ------------------------------
(***************************************************************************)
(* TfRun for TLC: one run of every behavior in every shape that its control *)
(* depends on.                                                             *)
(***************************************************************************)
EXTENDS TfRun

Config(behavior, async, artifact, httpBackend, script, mode) ==
  [behavior |-> behavior, async |-> async, artifact |-> artifact,
   httpBackend |-> httpBackend, script |-> script, mode |-> mode]

MCRunConfigs ==
  { Config("APPLY",   FALSE, FALSE, FALSE, TRUE,  "polling"),
    Config("APPLY",   FALSE, TRUE,  TRUE,  FALSE, "single"),
    Config("APPLY",   TRUE,  FALSE, FALSE, FALSE, "polling"),
    Config("DETECT",  FALSE, FALSE, TRUE,  TRUE,  "single"),
    Config("DESTROY", FALSE, FALSE, FALSE, FALSE, "polling"),
    Config("DESTROY", TRUE,  FALSE, TRUE,  TRUE,  "single") }
=============================================================================
