-------------------------- MODULE MCPipelineRunner --------------------------
(***************************************************************************)
(* PipelineRunner for TLC: the implementations of the runs.                *)
(***************************************************************************)
EXTENDS PipelineRunner, TLC

Impl(provider, async, workflow) ==
  [provider |-> provider, async |-> async, workflow |-> workflow]

\* Every provider, with every use of async.
MCEach ==
  [Runs -> { Impl("github", FALSE, "a"), Impl("github", TRUE, "a"),
             Impl("azure", FALSE, "a"), Impl("azure", TRUE, "a"),
             Impl("gitlab", FALSE, "a") }]

\* Runs that are polled.
MCPolled == [Runs -> {Impl("github", FALSE, "a"), Impl("azure", FALSE, "a")}]

\* Orders that are left out of the run with pods; the theorems leave out none.
\* What a pipeline does matters when a run looks at it, so it progresses while a
\* run polls it, or ends as somebody else's while a run searches; others start
\* theirs while a run searches.  And a bound: one pipeline at a time has jobs.
MCWatched ==
  \/ workflows' = workflows
  \/ pc' # pc
  \/ Len(workflows') > Len(workflows) /\ \E r \in Runs : pc[r] = "find"
  \/ \E i \in DOMAIN workflows, r \in Runs :
       /\ workflows'[i] # workflows[i]
       /\ \/ /\ pc[r] = "find" /\ workflows[i].run = Foreign
             /\ workflows'[i].jobs = workflows[i].jobs
          \/ /\ pc[r] \in {"poll", "jobs"} /\ ~Complete(r) /\ i = followed[r]
             /\ workflows'[i].jobs # workflows[i].jobs =>
                  \A k \in DOMAIN workflows \ {i} : Present(workflows[k].jobs) = {}

\* Nothing tells the jobs of a pipeline apart.
MCSymmetry == Permutations(Jobs)

\* GitHub runs of the same workflow.
MCSameWorkflow == [Runs -> {Impl("github", FALSE, "a")}]
=============================================================================
