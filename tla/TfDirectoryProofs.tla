------------------------- MODULE TfDirectoryProofs --------------------------
(***************************************************************************)
(* Proofs about TfDirectory, for every set of building blocks, workspace   *)
(* names and file names, and any number of runs.                           *)
(***************************************************************************)
EXTENDS TfDirectory, FiniteSetTheorems, TLAPS

-----------------------------------------------------------------------------
(* What is in the directory, stage by stage.                               *)

\* The commits that the sources may come from.
Meant == IF AmbiguousAtAzure THEN {block.branch, block.tag} ELSE {MeantCommit}

Fetched(c)   == Override(AuthFiles, SourcesAt(c))
Complete(c)  == Override(Fetched(c), FileInputs)
Declaring(c) == Override(Complete(c), RunVarsFile(Complete(c)))
BackendFile  == [n \in {Backend} |-> RunnerFile("runner", {}, TRUE)]

Prepared == {"env", "files", "vars", "backend", "init", "list", "select", "new", "tofu", "delete"}
Ready == {"init", "list", "select", "new", "tofu", "delete"}

\* The block is one of Blocks, and the commit is one of it.
BlockInv ==
  /\ block \in Blocks
  /\ pc = "checkout" => block.ref
  /\ pc = "copy" => clone \in Meant /\ clone # NoCommit
  /\ pc \in Prepared => clone = NoCommit
  /\ clone \in Commits \cup {NoCommit}

\* The directory holds what the steps so far have written, in their order.
DirInv ==
  /\ pc \in {"idle", "prepare"} => dir = None
  /\ pc \in {"clone", "checkout", "copy"} => dir = AuthFiles
  /\ pc \in {"env", "files"} => \E c \in Meant : c # NoCommit /\ dir = Fetched(c)
  /\ pc = "vars" => \E c \in Meant : c # NoCommit /\ dir = Complete(c)
  /\ pc = "backend" => \E c \in Meant : c # NoCommit /\ dir = Declaring(c)
  /\ pc \in Ready =>
       \E c \in Meant :
         /\ c # NoCommit
         /\ \/ where \in {"sources", "local"} /\ dir = Declaring(c)
            \/ /\ where = "meshStack" /\ block.fallback
               /\ dir = Override(Declaring(c), BackendFile)
               /\ Backend \notin DOMAIN Declaring(c)
               /\ ~HasBackend(Declaring(c), Parsed(Declaring(c)))

\* The environment and the values are those of the inputs and of this run.
Envs == {InputEnv} \cup (IF block.fallback THEN {Override(InputEnv, HttpAuth)} ELSE {})
ValuesInv ==
  /\ pc \in Prepared \ {"env"} => env \in Envs
  /\ pc \in Ready \cup {"vars", "backend"} => \A k \in Inputs : IsFile(k) => ~IsEnv(k)
  /\ pc \in Ready \cup {"backend"} => tfvars = Override(InputValues, MeshStackValues)
  /\ pc \notin Ready \cup {"backend"} => tfvars = None
  /\ pc \notin Prepared \ {"env"} => env = None

-----------------------------------------------------------------------------
(* The commit.                                                             *)

\* checkoutRef resolves to the branch, before the tag, before the hash.
LEMMA CheckoutMeant ==
  ASSUME block.ref
  PROVE  checkoutRef = MeantCommit
<1> DEFINE commits == <<block.branch, block.tag, block.hash>>
           known == {i \in DOMAIN commits : commits[i] # NoCommit}
           first == CHOOSE i \in known : \A j \in known : i <= j
<1>1. DOMAIN commits = 1..3 /\ commits[1] = block.branch /\ commits[2] = block.tag
        /\ commits[3] = block.hash
  OBVIOUS
<1>2. checkoutRef = IF known = {} THEN NoCommit ELSE commits[first]
  BY DEF checkoutRef, FirstKnown
<1> HIDE DEF commits
<1>3. ASSUME known # {}
      PROVE  first \in known /\ \A j \in known : first <= j
  <2>1. \E i \in known : \A j \in known : i <= j
    <3>1. CASE 1 \in known
      BY <1>1, <3>1
    <3>2. CASE 1 \notin known /\ 2 \in known
      BY <1>1, <3>2
    <3>3. CASE 1 \notin known /\ 2 \notin known
      BY <1>1, <1>3, <3>3
    <3> QED BY <3>1, <3>2, <3>3
  <2> QED BY <2>1
<1>4. MeantCommit = IF block.branch # NoCommit THEN block.branch
                    ELSE IF block.tag # NoCommit THEN block.tag ELSE block.hash
  BY DEF MeantCommit
<1>5. CASE known = {}
  BY <1>1, <1>2, <1>4, <1>5
<1>6. CASE known # {}
  <2>1. first \in {1, 2, 3} /\ commits[first] # NoCommit
    BY <1>1, <1>3, <1>6
  <2>2. CASE first = 1
    BY <1>1, <1>2, <1>4, <1>6, <2>1, <2>2
  <2>3. CASE first = 2
    <3>1. 1 \notin known
      BY <1>3, <1>6, <2>3
    <3> QED BY <1>1, <1>2, <1>4, <1>6, <2>1, <2>3, <3>1
  <2>4. CASE first = 3
    <3>1. 1 \notin known /\ 2 \notin known
      BY <1>3, <1>6, <2>4
    <3> QED BY <1>1, <1>2, <1>4, <1>6, <2>1, <2>4, <3>1
  <2> QED BY <2>1, <2>2, <2>3, <2>4
<1> QED BY <1>5, <1>6

\* What git checks out is meant, at Azure DevOps too.
LEMMA AzureMeant ==
  ASSUME block.ref, block.azure, NEW c \in azureCheckoutRef, c # NoCommit
  PROVE  c \in Meant
  BY DEF azureCheckoutRef, Meant, AmbiguousAtAzure, MeantCommit

-----------------------------------------------------------------------------
(* The stages are inductive.                                               *)

\* Everything the stages are built from depends on the block alone.
LEMMA BlockFrame ==
  ASSUME block' = block
  PROVE  /\ Meant' = Meant /\ Commits' = Commits /\ AuthFiles' = AuthFiles
         /\ \A c : Fetched(c)' = Fetched(c) /\ Complete(c)' = Complete(c)
         /\ \A c : Declaring(c)' = Declaring(c)
         /\ Inputs' = Inputs /\ FileInputs' = FileInputs /\ InputValues' = InputValues
         /\ \A k : IsFile(k)' = IsFile(k) /\ IsEnv(k)' = IsEnv(k)
         /\ Envs' = Envs
<1>1. Meant' = Meant /\ Commits' = Commits /\ AuthFiles' = AuthFiles
  BY DEF Meant, AmbiguousAtAzure, MeantCommit, Commits, AuthFiles
<1>2. Inputs' = Inputs /\ FileInputs' = FileInputs
        /\ \A k : IsFile(k)' = IsFile(k) /\ IsEnv(k)' = IsEnv(k)
  BY DEF Inputs, FileInputs, IsFile, IsEnv
<1>3. \A c : Fetched(c)' = Fetched(c) /\ Complete(c)' = Complete(c)
  BY <1>1, <1>2 DEF Fetched, Complete, SourcesAt
<1>4. \A c : Declaring(c)' = Declaring(c)
  BY <1>3 DEF Declaring
<1>5. InputValues' = InputValues
  <2>1. \A k : VarName(k)' = VarName(k)
    BY <1>2 DEF VarName, IsTfVar
  <2>2. Written' = Written
    BY <1>2 DEF Written, IsTfVar, Shadowed
  <2> QED BY <2>1, <2>2 DEF InputValues
<1>6. Envs' = Envs
  BY <1>2 DEF Envs, InputEnv
<1> QED BY <1>1, <1>2, <1>3, <1>4, <1>5, <1>6

\* The values of meshStack's variables depend on the run and its mode.
LEMMA ValuesFrame ==
  ASSUME mode' = mode, run' = run
  PROVE  MeshStackValues' = MeshStackValues
  BY DEF MeshStackValues, includeRunScopedVars

\* A step that keeps the directory and stays after init keeps its stage.
LEMMA ReadyFrame ==
  ASSUME BlockInv, DirInv, ValuesInv, pc \in Ready, pc' \in Ready,
         UNCHANGED <<block, run, mode, clone, dir, env, tfvars, where>>
  PROVE  BlockInv' /\ DirInv' /\ ValuesInv'
<1> USE BlockFrame, ValuesFrame
<1>1. BlockInv'
  BY DEF BlockInv, Ready, Prepared
<1>2. DirInv'
  BY DEF DirInv, Ready, HasBackend, Parsed, BackendFile
<1>3. ValuesInv'
  BY DEF ValuesInv, Ready, Prepared
<1> QED BY <1>1, <1>2, <1>3

\* The end of a run leaves nothing behind.
LEMMA LeaveFrame ==
  ASSUME BlockInv, Leave, block' = block
  PROVE  BlockInv' /\ DirInv' /\ ValuesInv'
<1> USE BlockFrame DEF Leave
<1>1. BlockInv'
  BY DEF BlockInv, Prepared
<1>2. DirInv'
  BY DEF DirInv, Ready
<1>3. ValuesInv'
  BY DEF ValuesInv, Ready, Prepared
<1> QED BY <1>1, <1>2, <1>3

\* A directory in its stage.
StageInv == BlockInv /\ DirInv /\ ValuesInv

\* A step keeps the stages.
LEMMA StageStep ==
  ASSUME StageInv, [Next]_vars
  PROVE  StageInv'
<1> USE BlockFrame, ValuesFrame, BlocksAssumption
<1> BlockInv /\ DirInv /\ ValuesInv
  BY DEF StageInv
<1> SUFFICES BlockInv' /\ DirInv' /\ ValuesInv'
  BY DEF StageInv
<1>1. CASE UNCHANGED vars
  <2> USE <1>1 DEF vars, files, state, history
  <2>1. BlockInv'
    BY DEF BlockInv
  <2>2. DirInv'
    BY DEF DirInv, HasBackend, Parsed, BackendFile
  <2>3. ValuesInv'
    BY DEF ValuesInv
  <2> QED BY <2>1, <2>2, <2>3
<1>2. ASSUME NEW m \in Modes, NEW w \in Names, StartRun(m, w)
      PROVE  BlockInv' /\ DirInv' /\ ValuesInv'
  <2> USE <1>2 DEF StartRun, files
  <2>1. BlockInv'
    BY DEF BlockInv, Prepared
  <2>2. DirInv'
    BY DEF DirInv, Ready
  <2>3. ValuesInv'
    BY DEF ValuesInv, Ready, Prepared
  <2> QED BY <2>1, <2>2, <2>3
<1>3. CASE Prepare
  <2> USE <1>3 DEF Prepare
  <2>1. BlockInv'
    BY DEF BlockInv, Prepared
  <2>2. DirInv'
    <3>1. \E S, f : AuthFiles = [n \in S |-> f]
      <4>1. CASE ~block.ssh
        <5>1. None = [n \in {} |-> 0]
          BY DEF None
        <5> QED BY <4>1, <5>1 DEF AuthFiles
      <4>2. CASE block.ssh
        BY <4>2 DEF AuthFiles
      <4> QED BY <4>1, <4>2
    <3>2. DOMAIN None = {}
      BY DEF None
    <3>3. Override(None, AuthFiles) = AuthFiles
      BY <3>1, <3>2 DEF Override
    <3> QED BY <3>3 DEF DirInv, Ready
  <2>3. ValuesInv'
    BY DEF ValuesInv, Ready, Prepared
  <2> QED BY <2>1, <2>2, <2>3
<1>4. CASE Clone
  <2> USE <1>4 DEF Clone
  <2>1. block.head # NoCommit
    BY DEF BlockInv
  <2>2. ~block.ref => block.head \in Meant
    BY DEF Meant, AmbiguousAtAzure, MeantCommit
  <2>3. BlockInv'
    BY <2>1, <2>2 DEF BlockInv, Prepared, Commits
  <2>4. DirInv'
    BY DEF DirInv, Ready
  <2>5. ValuesInv'
    BY DEF ValuesInv, Ready, Prepared
  <2> QED BY <2>3, <2>4, <2>5
<1>5. CASE Checkout
  <2> USE <1>5 DEF Checkout
  <2>1. block.ref
    BY DEF BlockInv
  <2>2. clone' \in Meant /\ clone' # NoCommit
    <3>1. CASE block.azure
      BY <2>1, <3>1, AzureMeant
    <3>2. CASE ~block.azure
      BY <2>1, <3>2, CheckoutMeant DEF Meant, AmbiguousAtAzure
    <3> QED BY <3>1, <3>2
  <2>3. Meant \ {NoCommit} \subseteq Commits
    BY DEF Meant, MeantCommit, Commits
  <2>4. BlockInv'
    BY <2>2, <2>3 DEF BlockInv, Prepared
  <2>5. DirInv'
    BY DEF DirInv, Ready
  <2>6. ValuesInv'
    BY DEF ValuesInv, Ready, Prepared
  <2> QED BY <2>4, <2>5, <2>6
<1>6. CASE Copy
  <2> USE <1>6 DEF Copy
  <2>1. BlockInv'
    BY DEF BlockInv, Prepared
  <2>2. dir' = Fetched(clone) /\ clone \in Meant /\ clone # NoCommit
    BY DEF DirInv, BlockInv, done, Fetched
  <2>3. DirInv'
    BY <2>2 DEF DirInv, Ready
  <2>4. ValuesInv'
    BY DEF ValuesInv, Ready, Prepared
  <2> QED BY <2>1, <2>3, <2>4
<1>7. CASE buildTfEnv
  <2> USE <1>7 DEF buildTfEnv
  <2>1. BlockInv'
    BY DEF BlockInv, Prepared
  <2>2. DirInv'
    BY DEF DirInv, Ready
  <2>3. ValuesInv'
    BY DEF ValuesInv, Ready, Prepared, Envs
  <2> QED BY <2>1, <2>2, <2>3
<1>8. CASE saveInputFiles
  <2> USE <1>8 DEF saveInputFiles
  <2>1. BlockInv'
    BY DEF BlockInv, Prepared
  <2>2. PICK c \in Meant : c # NoCommit /\ dir = Fetched(c)
    BY DEF DirInv
  <2>3. dir' = Complete(c)
    BY <2>2 DEF Complete
  <2>4. DirInv'
    BY <2>2, <2>3 DEF DirInv, Ready
  <2>5. ValuesInv'
    BY DEF ValuesInv, Ready, Prepared
  <2> QED BY <2>1, <2>4, <2>5
<1>9. CASE WriteVars
  <2> USE <1>9 DEF WriteVars
  <2>1. BlockInv'
    BY DEF BlockInv, Prepared
  <2>2. PICK c \in Meant : c # NoCommit /\ dir = Complete(c)
    BY DEF DirInv
  <2>3. dir' = Declaring(c)
    BY <2>2 DEF Declaring
  <2>4. DirInv'
    BY <2>2, <2>3 DEF DirInv, Ready
  <2>5. ValuesInv'
    BY DEF ValuesInv, Ready, Prepared
  <2> QED BY <2>1, <2>4, <2>5
<1>10. CASE ChooseBackend
  <2> USE <1>10 DEF ChooseBackend, createMeshStackHttpBackendFile
  <2>1. BlockInv'
    BY DEF BlockInv, Prepared
  <2>2. PICK c \in Meant : c # NoCommit /\ dir = Declaring(c)
    BY DEF DirInv
  <2>3. \/ where' \in {"sources", "local"} /\ dir' = Declaring(c)
        \/ /\ where' = "meshStack" /\ block.fallback
           /\ dir' = Override(Declaring(c), BackendFile)
           /\ Backend \notin DOMAIN Declaring(c)
           /\ ~HasBackend(Declaring(c), Parsed(Declaring(c)))
    BY <2>2 DEF BackendFile, detectBackend
  <2>4. DirInv'
    BY <2>2, <2>3 DEF DirInv, Ready, HasBackend, Parsed, BackendFile
  <2>5. ValuesInv'
    BY DEF ValuesInv, Ready, Prepared
  <2> QED BY <2>1, <2>4, <2>5
<1>11. CASE TofuInit
  BY <1>11, ReadyFrame DEF TofuInit, files, state, Ready
<1>12. CASE ListWorkspaces
  BY <1>12, ReadyFrame DEF ListWorkspaces, files, state, Ready
<1>13. ASSUME NEW w \in Names, SelectWorkspace(w)
       PROVE  BlockInv' /\ DirInv' /\ ValuesInv'
  BY <1>13, ReadyFrame DEF SelectWorkspace, files, Ready
<1>14. CASE SelectFails
  BY <1>14, ReadyFrame DEF SelectFails, AfterSelectFails, files, Ready
<1>15. CASE NewWorkspace
  BY <1>15, ReadyFrame DEF NewWorkspace, files, Ready
<1>16. CASE Tofu
  <2>1. CASE mode = "DESTROY" /\ UsesWorkspaces
    BY <1>16, <2>1, ReadyFrame DEF Tofu, files, Ready
  <2>2. CASE ~(mode = "DESTROY" /\ UsesWorkspaces)
    BY <1>16, <2>2, LeaveFrame DEF Tofu
  <2> QED BY <2>1, <2>2
<1>17. CASE TofuFails
  BY <1>17, LeaveFrame DEF TofuFails
<1>18. CASE DeleteWorkspace
  BY <1>18, LeaveFrame DEF DeleteWorkspace
<1>19. CASE Fail
  BY <1>19, LeaveFrame DEF Fail
<1>20. CASE NoMoreRuns
  BY <1>1, <1>20 DEF NoMoreRuns
<1> QED BY <1>1, <1>2, <1>3, <1>4, <1>5, <1>6, <1>7, <1>8, <1>9, <1>10, <1>11, <1>12,
           <1>13, <1>14, <1>15, <1>16, <1>17, <1>18, <1>19, <1>20 DEF Next

\* A new block has written nothing.
LEMMA StageInit ==
  ASSUME Init
  PROVE  StageInv
<1>1. BlockInv
  BY DEF Init, BlockInv, Prepared
<1>2. DirInv
  BY DEF Init, DirInv, Ready
<1>3. ValuesInv
  BY DEF Init, ValuesInv, Ready, Prepared
<1> QED BY <1>1, <1>2, <1>3 DEF StageInv

\* So the directory is in its stage throughout.
LEMMA Stages == Spec => []StageInv
<1>1. Init => StageInv
  BY StageInit
<1>2. StageInv /\ [Next]_vars => StageInv'
  BY StageStep
<1> QED BY <1>1, <1>2, PTL DEF Spec

-----------------------------------------------------------------------------
(* Values of a plan.                                                       *)

\* The values that a plan is made with: those of no run in particular.
PlanValues == Override(InputValues, [v \in MeshStackVars \ RunScoped |-> 0])

\* A plan that is kept was made with these values.
PlanInv ==
  /\ planned \in {None, PlanValues}
  /\ mode = "REPLAY" => planned = PlanValues

\* A DETECT and an APPLY that replays its plan compute the same values.
LEMMA PlanValuesOfMode ==
  ASSUME mode \in {"DETECT", "REPLAY"}
  PROVE  Override(InputValues, MeshStackValues) = PlanValues
<1>1. MeshStackValues = [v \in MeshStackVars \ RunScoped |-> 0]
  BY DEF MeshStackValues, includeRunScopedVars
<1> QED BY <1>1 DEF PlanValues

\* A step keeps the plan with its values.
LEMMA PlanStep ==
  ASSUME StageInv, PlanInv, [Next]_vars
  PROVE  PlanInv'
<1>1. PlanValues' = PlanValues
  <2>1. block' = block
    BY DEF Next, vars, StartRun, Prepare, Clone, Checkout, Copy, buildTfEnv, saveInputFiles,
           WriteVars, ChooseBackend, TofuInit, ListWorkspaces, SelectWorkspace, SelectFails,
           NewWorkspace, Tofu, TofuFails, DeleteWorkspace, Fail, NoMoreRuns
  <2> QED BY <2>1, BlockFrame DEF PlanValues
<1>2. CASE Tofu
  <2>1. mode = "DETECT" => tfvars = PlanValues
    BY <1>2, PlanValuesOfMode DEF StageInv, ValuesInv, Tofu, Ready
  <2>2. mode' \in {mode, "none"}
    BY <1>2 DEF Tofu, Leave
  <2> QED BY <1>1, <1>2, <2>1, <2>2 DEF PlanInv, Tofu
<1>3. ASSUME NEW m \in Modes, NEW w \in Names, StartRun(m, w)
      PROVE  PlanInv'
  BY <1>1, <1>3 DEF PlanInv, StartRun, history
<1>4. CASE UNCHANGED planned /\ mode' \in {mode, "none"}
  BY <1>1, <1>4 DEF PlanInv
<1> QED
  BY <1>2, <1>3, <1>4
     DEF Next, vars, history, Leave, Prepare, Clone, Checkout, Copy, buildTfEnv, saveInputFiles,
         WriteVars, ChooseBackend, TofuInit, ListWorkspaces, SelectWorkspace, SelectFails,
         NewWorkspace, TofuFails, DeleteWorkspace, Fail, NoMoreRuns

\* For every set of blocks, an APPLY that replays a plan gives tofu the values
\* that the DETECT had, however many runs lie between them (vars, tfcmd.go).
THEOREM ReplayTheorem == Spec => []ReplayHasSameValues
<1>1. Init => PlanInv
  BY DEF Init, PlanInv
<1>2. StageInv /\ PlanInv /\ [Next]_vars => PlanInv'
  BY PlanStep
<1>3. StageInv /\ PlanInv => ReplayHasSameValues
  BY PlanValuesOfMode DEF ReplayHasSameValues, StageInv, ValuesInv, PlanInv, Ready
<1> QED BY <1>1, <1>2, <1>3, Stages, PTL DEF Spec

-----------------------------------------------------------------------------
(* The files that tofu finds.                                              *)

\* The names of the files that the authentication leaves, and what they are.
LEMMA AuthFacts ==
  /\ DOMAIN AuthFiles \subseteq {SshCert, KnownHosts}
  /\ \A n \in DOMAIN AuthFiles : AuthFiles[n] = RunnerFile("auth", {}, FALSE)
  /\ block.ssh => SshCert \in DOMAIN AuthFiles
<1>1. CASE ~block.ssh
  <2>1. DOMAIN None = {}
    BY DEF None
  <2> QED BY <1>1, <2>1 DEF AuthFiles
<1>2. CASE block.ssh
  BY <1>2 DEF AuthFiles
<1> QED BY <1>1, <1>2

\* The user's files, with the sources of commit c.
WantedAt(c) == Override(SourcesAt(c), FileInputs)

\* Which commit it is changes nothing but who wrote a file.
LEMMA WantedFacts ==
  ASSUME NEW c
  PROVE  /\ DOMAIN WantedAt(c) = DOMAIN Wanted
         /\ c = MeantCommit => WantedAt(c) = Wanted
         /\ \A n \in DOMAIN Wanted :
              /\ WantedAt(c)[n].declares = Wanted[n].declares
              /\ WantedAt(c)[n].backend = Wanted[n].backend
              /\ WantedAt(c)[n].parses = Wanted[n].parses
<1> DEFINE S(x) == SourcesAt(x)
<1>1. \A x : DOMAIN S(x) = DOMAIN block.sources
  BY DEF SourcesAt
<1>2. \A x : \A n \in DOMAIN block.sources :
        /\ S(x)[n].declares = block.sources[n].declares
        /\ S(x)[n].backend = block.sources[n].backend
        /\ S(x)[n].parses = block.sources[n].parses
  BY DEF SourcesAt
<1> HIDE DEF S
<1>3. WantedAt(c) = Override(S(c), FileInputs) /\ Wanted = Override(S(MeantCommit), FileInputs)
  BY DEF S, WantedAt, Wanted
<1> QED BY <1>1, <1>2, <1>3 DEF Override

\* The directory before the runner adds to it: the user's files, and the files
\* of the authentication where the user has none of that name.
LEMMA CompleteFacts ==
  ASSUME NEW c
  PROVE  /\ DOMAIN Complete(c) = DOMAIN AuthFiles \cup DOMAIN Wanted
         /\ \A n \in DOMAIN Wanted : Complete(c)[n] = WantedAt(c)[n]
         /\ \A n \in DOMAIN AuthFiles \ DOMAIN Wanted : Complete(c)[n] = AuthFiles[n]
<1> DEFINE S == SourcesAt(c)
           W == DOMAIN S \cup DOMAIN FileInputs
<1>1. DOMAIN WantedAt(c) = W
  BY DEF WantedAt, Override
<1>2. DOMAIN Wanted = W
  BY <1>1, WantedFacts
<1>3. Complete(c) = Override(Override(AuthFiles, S), FileInputs)
  BY DEF Complete, Fetched
<1> HIDE DEF S
<1>4. WantedAt(c) = Override(S, FileInputs)
  BY DEF S, WantedAt
<1> QED BY <1>2, <1>3, <1>4 DEF Override

\* The file of declarations comes in addition, if none has its name.
LEMMA DeclaringFacts ==
  ASSUME NEW c
  PROVE  /\ DOMAIN Complete(c) \subseteq DOMAIN Declaring(c)
         /\ \A n \in DOMAIN Declaring(c) \ DOMAIN Complete(c) : n = RunVars
         /\ \A n \in DOMAIN Complete(c) : Declaring(c)[n] = Complete(c)[n]
         /\ LET missing == MeshStackVars \ ParseVariableInputs(Complete(c))
            IN IF missing = {} \/ RunVars \in DOMAIN Complete(c)
               THEN DOMAIN Declaring(c) = DOMAIN Complete(c)
               ELSE /\ RunVars \in DOMAIN Declaring(c)
                    /\ Declaring(c)[RunVars] = RunnerFile("runner", missing, FALSE)
<1> DEFINE d == Complete(c)
           missing == MeshStackVars \ ParseVariableInputs(d)
<1>1. Declaring(c) = Override(d, RunVarsFile(d))
  BY DEF Declaring
<1>2. CASE missing = {} \/ RunVars \in DOMAIN d
  <2>1. RunVarsFile(d) = None
    BY <1>2 DEF RunVarsFile
  <2>2. DOMAIN None = {}
    BY DEF None
  <2> HIDE DEF d, missing
  <2>3. DOMAIN Declaring(c) = DOMAIN d /\ \A n \in DOMAIN d : Declaring(c)[n] = d[n]
    BY <1>1, <2>1, <2>2 DEF Override
  <2> QED BY <1>2, <2>3 DEF d, missing
<1>3. CASE ~(missing = {} \/ RunVars \in DOMAIN d)
  <2>1. RunVarsFile(d) = [n \in {RunVars} |-> RunnerFile("runner", missing, FALSE)]
    BY <1>3 DEF RunVarsFile
  <2> HIDE DEF d, missing
  <2>2. /\ DOMAIN Declaring(c) = DOMAIN d \cup {RunVars}
        /\ Declaring(c)[RunVars] = RunnerFile("runner", missing, FALSE)
        /\ \A n \in DOMAIN d \ {RunVars} : Declaring(c)[n] = d[n]
    BY <1>1, <2>1 DEF Override
  <2> QED BY <1>3, <2>2 DEF d, missing
<1> QED BY <1>2, <1>3

-----------------------------------------------------------------------------
(* One state.                                                              *)

\* The user's files configure a backend.
OwnBackend == HasBackend(Wanted, Read(Wanted))

\* What tofu reads when files are added that are not .tofu files.
LEMMA ReadAdds ==
  ASSUME NEW w, NEW d, DOMAIN w \subseteq DOMAIN d,
         \A n \in DOMAIN d \ DOMAIN w : n \notin TofuFiles
  PROVE  /\ Read(w) = Read(d) \cap DOMAIN w
         /\ Read(d) \ DOMAIN w \subseteq TfFiles
         /\ \A n \in DOMAIN d \cap {RunVars, Backend} : n \in Read(d)
  BY NamesAssumption, HidesAssumption DEF Read, TofuFiles

\* The authentication and the runner write no .tofu file, so tofu reads the
\* user's configuration and the declarations.
LEMMA ReadDeclaring ==
  ASSUME NEW c
  PROVE  /\ DOMAIN Wanted \subseteq DOMAIN Declaring(c)
         /\ \A n \in DOMAIN Declaring(c) \ DOMAIN Wanted :
              n \notin TofuFiles /\ (n \in DOMAIN AuthFiles \/ n = RunVars)
         /\ Read(Wanted) = Read(Declaring(c)) \cap DOMAIN Wanted
         /\ \A n \in Read(Declaring(c)) \ DOMAIN Wanted : n = RunVars /\ n \notin DOMAIN Complete(c)
         /\ \A n \in DOMAIN Wanted : Declaring(c)[n].backend = Wanted[n].backend
<1> DEFINE D == Declaring(c)
           C == Complete(c)
<1>1. /\ DOMAIN C \subseteq DOMAIN D
      /\ \A n \in DOMAIN C : D[n] = C[n]
      /\ \A n \in DOMAIN D \ DOMAIN C : n = RunVars
  BY DeclaringFacts
<1>2. /\ DOMAIN C = DOMAIN AuthFiles \cup DOMAIN Wanted
      /\ \A n \in DOMAIN Wanted : C[n].backend = Wanted[n].backend
  BY CompleteFacts, WantedFacts
<1>3. DOMAIN AuthFiles \cap (TfFiles \cup TofuFiles) = {} /\ RunVars \notin TofuFiles
  BY AuthFacts, NamesAssumption DEF TofuFiles
<1> HIDE DEF C, D
<1>4. /\ DOMAIN Wanted \subseteq DOMAIN D
      /\ \A n \in DOMAIN D \ DOMAIN Wanted :
           n \notin TofuFiles /\ (n \in DOMAIN AuthFiles \/ (n = RunVars /\ n \notin DOMAIN C))
      /\ \A n \in DOMAIN Wanted : D[n].backend = Wanted[n].backend
  BY <1>1, <1>2, <1>3
<1>5. Read(Wanted) = Read(D) \cap DOMAIN Wanted /\ Read(D) \ DOMAIN Wanted \subseteq TfFiles
  BY <1>4, ReadAdds
<1>6. \A n \in Read(D) \ DOMAIN Wanted : n = RunVars /\ n \notin DOMAIN C
  BY <1>3, <1>4, <1>5 DEF Read
<1> QED BY <1>4, <1>5, <1>6 DEF C, D

\* What the runner and the authentication write has no backend, so tofu finds
\* the one of the user or none.
LEMMA OwnBackendFound ==
  ASSUME NEW c
  PROVE  HasBackend(Declaring(c), Read(Declaring(c))) <=> OwnBackend
<1> DEFINE D == Declaring(c)
<1>1. /\ DOMAIN Wanted \subseteq DOMAIN D
      /\ Read(Wanted) = Read(D) \cap DOMAIN Wanted
      /\ \A n \in Read(D) \ DOMAIN Wanted : n = RunVars /\ n \notin DOMAIN Complete(c)
      /\ \A n \in DOMAIN Wanted : D[n].backend = Wanted[n].backend
  BY ReadDeclaring
<1>2. ASSUME NEW n \in Read(D) \ DOMAIN Wanted
      PROVE  D[n].backend = FALSE
  <2>1. n = RunVars /\ n \notin DOMAIN Complete(c) /\ n \in DOMAIN D
    BY <1>1, <1>2 DEF Read
  <2>2. D[n] = RunnerFile("runner", MeshStackVars \ ParseVariableInputs(Complete(c)), FALSE)
    BY <2>1, DeclaringFacts
  <2> QED BY <2>2 DEF RunnerFile
<1> HIDE DEF D
<1>3. HasBackend(D, Read(D)) <=> OwnBackend
  BY <1>1, <1>2 DEF OwnBackend, HasBackend
<1> QED BY <1>3 DEF D

\* With the user's backend and meshStack's, tofu refuses the configuration.
LEMMA OneBackend ==
  ASSUME NEW c, dir = Override(Declaring(c), BackendFile), Backend \notin DOMAIN Declaring(c),
         Valid(dir)
  PROVE  ~OwnBackend
<1> DEFINE D == Declaring(c)
<1> HIDE DEF D
<1>1. /\ DOMAIN dir = DOMAIN D \cup {Backend} /\ Backend \notin DOMAIN D
      /\ dir[Backend] = RunnerFile("runner", {}, TRUE)
      /\ \A n \in DOMAIN D : dir[n] = D[n]
  BY DEF Override, BackendFile, D
<1>2. Backend \notin TofuFiles
  BY NamesAssumption DEF TofuFiles
<1>3. Read(D) = Read(dir) \cap DOMAIN D /\ Backend \in Read(dir)
  BY <1>1, <1>2, ReadAdds
<1>4. dir[Backend].backend
  BY <1>1 DEF RunnerFile
<1>5. \A n \in Read(dir) : dir[n].backend => n = Backend
  BY <1>3, <1>4 DEF Valid
<1>6. ~HasBackend(D, Read(D))
  BY <1>1, <1>3, <1>5 DEF HasBackend
<1> QED BY <1>6, OwnBackendFound DEF D

\* The backend and the workspace follow from the block, but for the name.
WorkspaceInv ==
  /\ where = "sources" => OwnBackend
  /\ where = "local" => ~OwnBackend
  /\ where = "meshStack" /\ pc # "init" => ~OwnBackend
  /\ pc \in Ready => where \in {"sources", "local", "meshStack"}
  /\ pc \notin Ready => where = "none"
  /\ pc \in {"list", "select", "new", "delete"} => where # "meshStack"
  /\ pc \notin {"tofu", "delete"} => workspace = InitialWorkspace
  /\ pc \in {"tofu", "delete"} /\ where = "meshStack" => workspace = InitialWorkspace
  /\ pc \in {"tofu", "delete"} /\ where # "meshStack" => workspace \in Names
  /\ pc \in {"tofu", "delete"} /\ where = "sources" => workspace \in workspaces
  /\ pc # "idle" => suggested \in Names

\* Unless a selection has failed, the backend has at most one workspace of the
\* block, and none when one is made; a state is in the backend of the block,
\* and its workspace exists.
StateInv ==
  /\ ~split => \A v, w \in workspaces \cap Names : v = w
  /\ ~split /\ pc = "new" /\ where = "sources" => workspaces \cap Names = {}
  /\ \A s \in holds :
       \/ s = <<"meshStack", InitialWorkspace>> /\ ~OwnBackend
       \/ /\ OwnBackend
          /\ \E w \in Names : s = <<"sources", w>> /\ (~split => w \in workspaces)
  /\ ~split /\ pc = "delete" /\ where = "sources" => holds = {}

\* A step keeps the workspace with the block.
LEMMA WorkspaceStep ==
  ASSUME StageInv, WorkspaceInv, [Next]_vars
  PROVE  WorkspaceInv'
<1>1. block' = block
  BY DEF Next, vars, StartRun, Prepare, Clone, Checkout, Copy, buildTfEnv, saveInputFiles,
         WriteVars, ChooseBackend, TofuInit, ListWorkspaces, SelectWorkspace, SelectFails,
         NewWorkspace, Tofu, TofuFails, DeleteWorkspace, Fail, NoMoreRuns
<1>2. OwnBackend' = OwnBackend
  <2>1. Wanted' = Wanted
    BY <1>1, BlockFrame DEF Wanted, SourcesAt, MeantCommit
  <2> QED BY <2>1 DEF OwnBackend, HasBackend, Read
<1>3. CASE UNCHANGED <<pc, where, workspace, workspaces, suggested>>
  BY <1>2, <1>3 DEF WorkspaceInv
<1>4. ASSUME Leave
      PROVE  WorkspaceInv'
  BY <1>4 DEF WorkspaceInv, Leave, Ready
<1>5. ASSUME NEW m \in Modes, NEW w \in Names, StartRun(m, w)
      PROVE  WorkspaceInv'
  BY <1>2, <1>5 DEF WorkspaceInv, StartRun, state, Ready
<1>6. CASE Prepare \/ Clone \/ Checkout \/ Copy \/ buildTfEnv \/ saveInputFiles \/ WriteVars
  <2>1. /\ pc \notin Ready \cup {"idle"} /\ pc' \notin Ready \cup {"idle"}
        /\ UNCHANGED <<where, workspace, workspaces, suggested>>
    BY <1>6 DEF Prepare, Clone, Checkout, Copy, buildTfEnv, saveInputFiles, WriteVars, state, Ready
  <2> QED BY <1>2, <2>1 DEF WorkspaceInv, Ready
<1>7. CASE ChooseBackend
  <2>1. PICK c \in Meant : dir = Declaring(c)
    BY <1>7 DEF ChooseBackend, createMeshStackHttpBackendFile, StageInv, DirInv
  <2>2. /\ where' = "sources" => OwnBackend
        /\ where' = "local" => ~OwnBackend
        /\ where' \in {"sources", "local", "meshStack"}
    BY <1>7, <2>1, OwnBackendFound DEF ChooseBackend, createMeshStackHttpBackendFile, detectBackend
  <2> QED BY <1>2, <1>7, <2>2 DEF ChooseBackend, createMeshStackHttpBackendFile, WorkspaceInv, Ready
<1>8. CASE TofuInit \/ ListWorkspaces
  <2>1. TofuInit /\ where = "meshStack" => ~OwnBackend
    <3> SUFFICES ASSUME TofuInit, where = "meshStack"
                 PROVE  ~OwnBackend
      OBVIOUS
    <3>1. PICK c \in Meant : dir = Override(Declaring(c), BackendFile)
                             /\ Backend \notin DOMAIN Declaring(c)
      BY DEF TofuInit, StageInv, DirInv, Ready
    <3>2. Valid(dir)
      BY DEF TofuInit
    <3> QED BY <3>1, <3>2, OneBackend
  <2> QED BY <1>2, <1>8, <2>1 DEF TofuInit, ListWorkspaces, UsesWorkspaces, WorkspaceInv, state, Ready
<1>9. ASSUME NEW w \in Names, SelectWorkspace(w)
      PROVE  WorkspaceInv'
  BY <1>2, <1>9 DEF SelectWorkspace, Available, WorkspaceInv, Ready
<1>10. CASE SelectFails
  BY <1>2, <1>10 DEF SelectFails, AfterSelectFails, WorkspaceInv, Ready
<1>11. CASE NewWorkspace
  BY <1>2, <1>11 DEF NewWorkspace, WorkspaceInv, Ready
<1>12. CASE Tofu
  <2>1. CASE mode = "DESTROY" /\ UsesWorkspaces
    BY <1>2, <1>12, <2>1 DEF Tofu, UsesWorkspaces, WorkspaceInv, Ready
  <2>2. CASE ~(mode = "DESTROY" /\ UsesWorkspaces)
    BY <1>4, <1>12, <2>2 DEF Tofu
  <2> QED BY <2>1, <2>2
<1>13. CASE TofuFails \/ DeleteWorkspace \/ Fail
  BY <1>4, <1>13 DEF TofuFails, DeleteWorkspace, Fail
<1> QED BY <1>3, <1>5, <1>6, <1>7, <1>8, <1>9, <1>10, <1>11, <1>12, <1>13
           DEF Next, NoMoreRuns, vars, state

\* A step keeps the states in one place.
LEMMA StateStep ==
  ASSUME StageInv, WorkspaceInv, StateInv, [Next]_vars
  PROVE  StateInv'
<1>1. block' = block
  BY DEF Next, vars, StartRun, Prepare, Clone, Checkout, Copy, buildTfEnv, saveInputFiles,
         WriteVars, ChooseBackend, TofuInit, ListWorkspaces, SelectWorkspace, SelectFails,
         NewWorkspace, Tofu, TofuFails, DeleteWorkspace, Fail, NoMoreRuns
<1>2. OwnBackend' = OwnBackend
  <2>1. Wanted' = Wanted
    BY <1>1, BlockFrame DEF Wanted, SourcesAt, MeantCommit
  <2> QED BY <2>1 DEF OwnBackend, HasBackend, Read
<1>3. CASE UNCHANGED <<workspaces, holds, split>> /\ pc' \notin {"new", "delete"}
  BY <1>2, <1>3 DEF StateInv
<1>4. CASE UNCHANGED vars
  BY <1>2, <1>4 DEF StateInv, vars, state, history
<1>5. CASE ListWorkspaces
  BY <1>2, <1>5 DEF ListWorkspaces, OfBlock, Available, StateInv, state, history
<1>6. CASE SelectFails
  BY <1>2, <1>6 DEF SelectFails, StateInv
<1>7. CASE NewWorkspace
  BY <1>2, <1>7 DEF NewWorkspace, StateInv, WorkspaceInv, Ready, history
<1>8. CASE Fail
  BY <1>2, <1>8 DEF Fail, Leave, StateInv, WorkspaceInv, Ready, history
<1>9. CASE DeleteWorkspace
  <2>1. CASE where = "sources"
    BY <1>2, <1>9, <2>1 DEF DeleteWorkspace, Leave, StateInv, history
  <2>2. CASE where = "local"
    BY <1>2, <1>9, <2>2 DEF DeleteWorkspace, Leave, StateInv, WorkspaceInv, history
  <2> QED BY <1>9, <2>1, <2>2 DEF DeleteWorkspace, WorkspaceInv, Ready
<1>10. CASE TofuFails
  <2>1. pc' = "idle" /\ UNCHANGED <<workspaces, split>>
    BY <1>10 DEF TofuFails, Leave
  <2>2. holds' = holds \/ (where # "local" /\ holds' = holds \cup {State})
    BY <1>10 DEF TofuFails
  <2>3. where # "local" => \/ State = <<"meshStack", InitialWorkspace>> /\ ~OwnBackend
                           \/ /\ OwnBackend
                              /\ \E w \in Names : State = <<"sources", w>> /\ w \in workspaces
    BY <1>10 DEF TofuFails, State, WorkspaceInv, Ready
  <2> QED BY <1>2, <2>1, <2>2, <2>3 DEF StateInv
<1>11. CASE Tofu
  <2>1. UNCHANGED <<workspaces, split>> /\ pc' \in {"idle", "delete"}
    BY <1>11 DEF Tofu, Leave
  <2>2. where # "local" => \/ State = <<"meshStack", InitialWorkspace>> /\ ~OwnBackend
                           \/ /\ OwnBackend
                              /\ \E w \in Names : State = <<"sources", w>> /\ w \in workspaces
    BY <1>11 DEF Tofu, State, WorkspaceInv, Ready
  <2>3. \/ holds' = holds
        \/ holds' = holds \ {State}
        \/ where # "local" /\ holds' = holds \cup {State}
    BY <1>11 DEF Tofu
  <2>4. \A s \in holds' :
          \/ s = <<"meshStack", InitialWorkspace>> /\ ~OwnBackend
          \/ /\ OwnBackend
             /\ \E w \in Names : s = <<"sources", w>> /\ (~split => w \in workspaces)
    BY <2>2, <2>3 DEF StateInv
  <2>5. ASSUME ~split, pc' = "delete", where' = "sources"
        PROVE  holds' = {}
    <3>1. where = "sources" /\ mode = "DESTROY"
      BY <1>11, <2>5 DEF Tofu, Leave
    <3>2. holds' = holds \ {State}
      BY <1>11, <3>1 DEF Tofu
    <3>3. workspace \in Names \cap workspaces /\ State = <<"sources", workspace>> /\ OwnBackend
      BY <1>11, <3>1 DEF Tofu, State, WorkspaceInv, Ready
    <3>4. \A s \in holds : s = State
      BY <2>5, <3>3 DEF StateInv
    <3> QED BY <3>2, <3>4
  <2> QED BY <1>2, <2>1, <2>4, <2>5 DEF StateInv
<1>12. ASSUME NEW m \in Modes, NEW w \in Names, StartRun(m, w)
       PROVE  StateInv'
  BY <1>3, <1>12 DEF StartRun, state, history
<1>13. ASSUME NEW w \in Names, SelectWorkspace(w)
       PROVE  StateInv'
  BY <1>3, <1>13 DEF SelectWorkspace, history
<1>14. CASE \/ Prepare \/ Clone \/ Checkout \/ Copy \/ buildTfEnv \/ saveInputFiles \/ WriteVars
            \/ ChooseBackend \/ TofuInit
  BY <1>3, <1>14 DEF Prepare, Clone, Checkout, Copy, buildTfEnv, saveInputFiles, WriteVars,
                     ChooseBackend, TofuInit, state, history
<1> QED BY <1>4, <1>5, <1>6, <1>7, <1>8, <1>9, <1>10, <1>11, <1>12, <1>13, <1>14
           DEF Next, NoMoreRuns

\* The invariants of the workspaces hold throughout.
LEMMA States == Spec => [](WorkspaceInv /\ StateInv)
<1>1. Init => WorkspaceInv /\ StateInv
  BY NamesAssumption DEF Init, WorkspaceInv, StateInv, Ready
<1>2. StageInv /\ WorkspaceInv /\ StateInv /\ [Next]_vars => (WorkspaceInv /\ StateInv)'
  BY WorkspaceStep, StateStep
<1> QED BY <1>1, <1>2, Stages, PTL DEF Spec

\* For every block, however many runs it has, however often the name of its
\* workspace changes and whatever fails: its resources are in one state, unless
\* a WorkspaceSelect has failed (useWorkspaceIfNeeded, selectWorkspace).
THEOREM OneStateTheorem == Spec => []OneState
<1>1. WorkspaceInv /\ StateInv => OneState
  <2> SUFFICES ASSUME StateInv, ~split
               PROVE  Cardinality(holds) <= 1
    BY DEF OneState
  <2>1. \A s, t \in holds : s = t
    BY DEF StateInv
  <2>2. CASE holds = {}
    BY <2>2, FS_EmptySet
  <2>3. CASE holds # {}
    <3>1. PICK s \in holds : TRUE
      BY <2>3
    <3>2. holds = {s}
      BY <2>1, <3>1
    <3>3. Cardinality({s}) = 1
      BY FS_Singleton
    <3> QED BY <3>2, <3>3
  <2> QED BY <2>2, <2>3
<1> QED BY <1>1, States, PTL

-----------------------------------------------------------------------------
(* The directory when tofu starts.                                         *)

\* What init has when it starts, as far as the properties ask: the runner has
\* changed no file, and added one of declarations and one of a backend at most.
LEMMA AtInit ==
  ASSUME StageInv, pc = "init"
  PROVE  \E c \in Meant :
           /\ c # NoCommit
           /\ DOMAIN Declaring(c) \subseteq DOMAIN dir
           /\ \A n \in DOMAIN Declaring(c) : dir[n] = Declaring(c)[n]
           /\ \A n \in DOMAIN dir \ DOMAIN Declaring(c) :
                /\ n = Backend /\ block.fallback
                /\ dir[n] = RunnerFile("runner", {}, TRUE)
                /\ ~HasBackend(Declaring(c), Parsed(Declaring(c)))
<1>1. PICK c \in Meant :
        /\ c # NoCommit
        /\ \/ where \in {"sources", "local"} /\ dir = Declaring(c)
           \/ /\ where = "meshStack" /\ block.fallback
              /\ dir = Override(Declaring(c), BackendFile)
              /\ Backend \notin DOMAIN Declaring(c)
              /\ ~HasBackend(Declaring(c), Parsed(Declaring(c)))
  BY DEF StageInv, DirInv, Ready
<1>2. CASE dir = Declaring(c)
  BY <1>1, <1>2
<1>3. CASE dir = Override(Declaring(c), BackendFile) /\ Backend \notin DOMAIN Declaring(c)
             /\ block.fallback /\ ~HasBackend(Declaring(c), Parsed(Declaring(c)))
  <2>1. /\ DOMAIN dir = DOMAIN Declaring(c) \cup {Backend}
        /\ dir[Backend] = RunnerFile("runner", {}, TRUE)
        /\ \A n \in DOMAIN Declaring(c) : dir[n] = Declaring(c)[n]
    BY <1>3 DEF Override, BackendFile
  <2> QED BY <1>1, <1>3, <2>1
<1> QED BY <1>1, <1>2, <1>3

\* So every file of the user is there, untouched.
LEMMA UserFiles ==
  ASSUME NEW c,
         DOMAIN Declaring(c) \subseteq DOMAIN dir,
         \A n \in DOMAIN Declaring(c) : dir[n] = Declaring(c)[n]
  PROVE  /\ DOMAIN Wanted \subseteq DOMAIN dir
         /\ \A n \in DOMAIN Wanted : dir[n] = WantedAt(c)[n]
         /\ \A n \in DOMAIN AuthFiles \ DOMAIN Wanted :
              n \in DOMAIN dir /\ dir[n] = RunnerFile("auth", {}, FALSE)
<1>1. /\ DOMAIN Complete(c) \subseteq DOMAIN Declaring(c)
      /\ \A n \in DOMAIN Complete(c) : Declaring(c)[n] = Complete(c)[n]
  BY DeclaringFacts
<1>2. /\ DOMAIN Complete(c) = DOMAIN AuthFiles \cup DOMAIN Wanted
      /\ \A n \in DOMAIN Wanted : Complete(c)[n] = WantedAt(c)[n]
      /\ \A n \in DOMAIN AuthFiles \ DOMAIN Wanted : Complete(c)[n] = AuthFiles[n]
  BY CompleteFacts
<1> QED BY <1>1, <1>2, AuthFacts

\* The sources of the right commit arrive.
LEMMA SourcesLemma ==
  ASSUME StageInv
  PROVE  SourcesArrive
<1> SUFFICES ASSUME pc = "init", ~AmbiguousAtAzure
             PROVE  /\ clone = NoCommit
                    /\ \A n \in DOMAIN Wanted : n \in DOMAIN dir /\ dir[n] = Wanted[n]
  BY DEF SourcesArrive
<1>1. clone = NoCommit
  BY DEF StageInv, BlockInv, Prepared
<1>2. PICK c \in Meant :
        /\ DOMAIN Declaring(c) \subseteq DOMAIN dir
        /\ \A n \in DOMAIN Declaring(c) : dir[n] = Declaring(c)[n]
  BY AtInit
<1>3. WantedAt(c) = Wanted
  BY WantedFacts DEF Meant
<1> QED BY <1>1, <1>2, <1>3, UserFiles

\* The key is kept.
LEMMA KeyLemma ==
  ASSUME StageInv
  PROVE  KeyForModules
<1> SUFFICES ASSUME pc = "init", block.ssh
             PROVE  /\ SshCert \in DOMAIN dir
                    /\ dir[SshCert].by = "auth" \/ SshCert \in DOMAIN Wanted
  BY DEF KeyForModules
<1>1. PICK c \in Meant :
        /\ DOMAIN Declaring(c) \subseteq DOMAIN dir
        /\ \A n \in DOMAIN Declaring(c) : dir[n] = Declaring(c)[n]
  BY AtInit
<1>2. SshCert \in DOMAIN AuthFiles
  BY AuthFacts
<1> QED BY <1>1, <1>2, UserFiles DEF RunnerFile

\* What the runner adds keeps a valid configuration valid.
LEMMA ConfigurationLemma ==
  ASSUME StageInv
  PROVE  ConfigurationKept
<1> DEFINE read == Read(dir)
<1> SUFFICES ASSUME pc = "init", Valid(Wanted), ~Misread
             PROVE  /\ Valid(dir)
                    /\ RunVars \in DOMAIN Wanted \/ MeshStackVars \subseteq Declared(dir, read)
  BY DEF ConfigurationKept
<1>1. PICK c \in Meant :
        /\ DOMAIN Declaring(c) \subseteq DOMAIN dir
        /\ \A n \in DOMAIN Declaring(c) : dir[n] = Declaring(c)[n]
        /\ \A n \in DOMAIN dir \ DOMAIN Declaring(c) :
             /\ n = Backend /\ block.fallback
             /\ dir[n] = RunnerFile("runner", {}, TRUE)
             /\ ~HasBackend(Declaring(c), Parsed(Declaring(c)))
  BY AtInit
<1> DEFINE C == Complete(c)
           D == Declaring(c)
           missing == MeshStackVars \ ParseVariableInputs(C)
<1>2. /\ DOMAIN C \subseteq DOMAIN D
      /\ \A n \in DOMAIN D \ DOMAIN C : n = RunVars
      /\ \A n \in DOMAIN C : D[n] = C[n]
  BY DeclaringFacts
<1>3. IF missing = {} \/ RunVars \in DOMAIN C
      THEN DOMAIN D = DOMAIN C
      ELSE RunVars \in DOMAIN D /\ D[RunVars] = RunnerFile("runner", missing, FALSE)
  BY DeclaringFacts
<1>4. /\ DOMAIN C = DOMAIN AuthFiles \cup DOMAIN Wanted
      /\ \A n \in DOMAIN Wanted : /\ C[n].declares = Wanted[n].declares
                                  /\ C[n].backend = Wanted[n].backend
                                  /\ C[n].parses = Wanted[n].parses
  <2>1. /\ DOMAIN C = DOMAIN AuthFiles \cup DOMAIN Wanted
        /\ \A n \in DOMAIN Wanted : C[n] = WantedAt(c)[n]
    BY CompleteFacts
  <2>2. \A n \in DOMAIN Wanted : /\ WantedAt(c)[n].declares = Wanted[n].declares
                                 /\ WantedAt(c)[n].backend = Wanted[n].backend
                                 /\ WantedAt(c)[n].parses = Wanted[n].parses
    BY WantedFacts
  <2> HIDE DEF C
  <2> QED BY <2>1, <2>2
<1>5. DOMAIN AuthFiles \cap (TfFiles \cup JsonFiles \cup TofuFiles) = {}
  BY AuthFacts, NamesAssumption DEF TofuFiles
<1> HIDE DEF C, D
<1>6. \A n \in DOMAIN Wanted : /\ n \in DOMAIN C /\ n \in DOMAIN D /\ n \in DOMAIN dir
                               /\ dir[n].declares = Wanted[n].declares
                               /\ dir[n].backend = Wanted[n].backend
                               /\ dir[n].parses = Wanted[n].parses
  BY <1>1, <1>2, <1>4 DEF D
\* The runner has misread nothing, and no file is hidden.
<1>7. \A n \in JsonFiles \cap DOMAIN dir : dir[n].parses /\ dir[n].declares \cap MeshStackVars = {}
  BY DEF Misread
<1>8. ASSUME NEW n, n \in TofuFiles, n \in DOMAIN dir
       PROVE  /\ dir[n].declares \cap MeshStackVars = {}
              /\ block.fallback => ~dir[n].backend
              /\ Hides[n] \notin DOMAIN dir
  BY <1>8 DEF Misread
<1>9. read = DOMAIN dir \cap (TfFiles \cup TofuFiles)
  <2>1. ASSUME NEW k, k \in DOMAIN dir, k \in {Hides[n] : n \in DOMAIN dir \cap TofuFiles}
        PROVE  FALSE
    <3>1. PICK n \in DOMAIN dir \cap TofuFiles : k = Hides[n]
      BY <2>1
    <3> QED BY <1>8, <2>1, <3>1
  <2> QED BY <2>1 DEF Read
<1>10. Read(Wanted) = DOMAIN Wanted \cap (TfFiles \cup TofuFiles)
  <2>1. ASSUME NEW k, k \in DOMAIN Wanted, k \in {Hides[n] : n \in DOMAIN Wanted \cap TofuFiles}
        PROVE  FALSE
    <3>1. PICK n \in DOMAIN Wanted \cap TofuFiles : k = Hides[n]
      BY <2>1
    <3>2. n \in DOMAIN dir /\ k \in DOMAIN dir
      BY <1>6, <2>1
    <3> QED BY <1>8, <3>1, <3>2
  <2> QED BY <2>1 DEF Read
<1> HIDE DEF read
<1>11. \A n \in Read(Wanted) : Wanted[n].parses
  BY DEF Valid
<1>12. \A m, n \in Read(Wanted) : m # n => Wanted[m].declares \cap Wanted[n].declares = {}
  BY DEF Valid
\* The runner could parse every file it read.
<1>13. ParseVariableInputs(C) = Declared(C, Parsed(C))
  <2>1. \A n \in Parsed(C) : C[n].parses
    <3> SUFFICES ASSUME NEW n \in Parsed(C) PROVE C[n].parses
      OBVIOUS
    <3>1. n \in DOMAIN Wanted
      BY <1>4, <1>5 DEF Parsed
    <3>2. CASE n \in TfFiles
      BY <1>4, <1>11, <1>10, <3>1, <3>2
    <3>3. CASE n \in JsonFiles
      BY <1>4, <1>6, <1>7, <3>1, <3>3
    <3> QED BY <3>2, <3>3 DEF Parsed
  <2> QED BY <2>1 DEF ParseVariableInputs
\* What tofu reads, file by file.
<1>14. ASSUME NEW n \in read
       PROVE  \/ n \in DOMAIN Wanted
              \/ n = RunVars /\ n \notin DOMAIN C /\ n \in DOMAIN D
                   /\ dir[n] = RunnerFile("runner", missing, FALSE)
              \/ n = Backend /\ n \notin DOMAIN D /\ dir[n] = RunnerFile("runner", {}, TRUE)
                   /\ ~HasBackend(D, Parsed(D))
  <2>1. CASE n \notin DOMAIN D
    BY <1>1, <1>9, <2>1 DEF D
  <2>2. CASE n \in DOMAIN D \ DOMAIN C
    <3>1. n = RunVars
      BY <1>2, <2>2
    <3>2. D[n] = RunnerFile("runner", missing, FALSE)
      BY <1>3, <2>2, <3>1
    <3> QED BY <1>1, <1>9, <2>2, <3>1, <3>2 DEF D
  <2>3. CASE n \in DOMAIN C
    BY <1>4, <1>5, <1>9, <2>3
  <2> QED BY <2>1, <2>2, <2>3
<1>15. \A n \in Read(Wanted) : Wanted[n].declares \cap missing = {}
  <2> SUFFICES ASSUME NEW n \in Read(Wanted)
               PROVE  Wanted[n].declares \cap missing = {}
    OBVIOUS
  <2>1. CASE n \in TfFiles
    <3>1. n \in Parsed(C) /\ n \in DOMAIN Wanted
      BY <1>6, <1>10, <2>1 DEF Parsed
    <3>2. Wanted[n].declares \subseteq ParseVariableInputs(C)
      BY <1>4, <1>13, <3>1 DEF Declared
    <3> QED BY <3>2
  <2>2. CASE n \in TofuFiles
    <3>1. Wanted[n].declares \cap MeshStackVars = {}
      <4>1. n \in DOMAIN dir /\ dir[n].declares = Wanted[n].declares
        BY <1>6, <1>10
      <4> QED BY <1>8, <2>2, <4>1
    <3> QED BY <3>1
  <2> QED BY <1>10, <2>1, <2>2
<1> HIDE DEF missing
<1>16. \A n \in read : dir[n].parses
  BY <1>6, <1>11, <1>14, <1>9, <1>10 DEF RunnerFile
<1>17. ASSUME NEW m \in read, NEW n \in read, m # n
       PROVE  dir[m].declares \cap dir[n].declares = {}
  <2>1. CASE m \in DOMAIN Wanted /\ n \in DOMAIN Wanted
    BY <1>6, <1>12, <1>17, <1>9, <1>10, <2>1
  <2>2. CASE m \notin DOMAIN Wanted
    <3>1. dir[m].declares = {} \/ (m = RunVars /\ dir[m].declares = missing)
      BY <1>14, <2>2 DEF RunnerFile
    <3>2. n \in DOMAIN Wanted \/ dir[n].declares = {} \/ n = RunVars
      BY <1>14 DEF RunnerFile
    <3> QED BY <1>6, <1>15, <1>17, <1>9, <1>10, <3>1, <3>2
  <2>3. CASE n \notin DOMAIN Wanted
    <3>1. dir[n].declares = {} \/ (n = RunVars /\ dir[n].declares = missing)
      BY <1>14, <2>3 DEF RunnerFile
    <3>2. m \in DOMAIN Wanted \/ dir[m].declares = {} \/ m = RunVars
      BY <1>14 DEF RunnerFile
    <3> QED BY <1>6, <1>15, <1>17, <1>9, <1>10, <3>1, <3>2
  <2> QED BY <2>1, <2>2, <2>3
<1>18. ASSUME NEW m \in read, NEW n \in read, dir[m].backend, dir[n].backend
       PROVE  m = n
  <2>1. CASE \E k \in read : k \notin DOMAIN D
    <3>1. block.fallback /\ ~HasBackend(D, Parsed(D))
      BY <1>1, <1>9, <2>1 DEF D
    <3>2. ASSUME NEW k \in read, dir[k].backend
          PROVE  k = Backend
      <4>1. k \in TfFiles \cap DOMAIN dir
        <5>1. k \in DOMAIN dir /\ k \in TfFiles \cup TofuFiles
          BY <1>9, <3>2
        <5> QED BY <1>8, <3>1, <3>2, <5>1
      <4>2. CASE k \in DOMAIN D
        BY <1>1, <3>1, <3>2, <4>1, <4>2 DEF HasBackend, Parsed, D
      <4> QED BY <1>1, <4>1, <4>2 DEF D
    <3> QED BY <1>18, <3>2
  <2>2. CASE \A k \in read : k \in DOMAIN D
    <3>1. \A k \in read : dir[k].backend => k \in DOMAIN Wanted
      BY <1>14, <2>2 DEF RunnerFile
    <3>2. m \in Read(Wanted) /\ n \in Read(Wanted) /\ Wanted[m].backend /\ Wanted[n].backend
      BY <1>6, <1>18, <1>9, <1>10, <3>1
    <3> QED BY <3>2 DEF Valid
  <2> QED BY <2>1, <2>2
<1>19. ASSUME RunVars \notin DOMAIN Wanted, NEW v \in MeshStackVars
       PROVE  v \in Declared(dir, read)
  <2>1. CASE v \in ParseVariableInputs(C)
    <3>1. PICK n \in Parsed(C) : v \in C[n].declares
      BY <1>13, <2>1 DEF Declared
    <3>2. n \in DOMAIN Wanted
      BY <1>4, <1>5 DEF Parsed
    <3>3. n \in DOMAIN dir /\ v \in dir[n].declares
      BY <1>4, <1>6, <3>1, <3>2
    <3>4. n \in read
      BY <1>19, <1>7, <1>9, <3>1, <3>3 DEF Parsed
    <3> QED BY <3>3, <3>4 DEF Declared
  <2>2. CASE v \notin ParseVariableInputs(C)
    <3>1. v \in missing
      BY <1>19, <2>2 DEF missing
    <3>2. RunVars \in TfFiles /\ RunVars \notin DOMAIN C
      BY <1>4, <1>5, <1>19, NamesAssumption
    <3>3. RunVars \in DOMAIN D /\ D[RunVars] = RunnerFile("runner", missing, FALSE)
      BY <1>3, <3>1, <3>2 DEF missing
    <3>4. RunVars \in read /\ v \in dir[RunVars].declares
      BY <1>1, <1>9, <3>1, <3>2, <3>3 DEF RunnerFile, D
    <3> QED BY <3>4 DEF Declared
  <2> QED BY <2>1, <2>2
<1> QED BY <1>16, <1>17, <1>18, <1>19 DEF Valid, read

\* A variable gets the value of one input.
LEMMA InputValueFacts ==
  ASSUME NEW k \in Written
  PROVE  /\ VarName(k) \in DOMAIN InputValues
         /\ InputValues[VarName(k)] = k
<1> DEFINE v == VarName(k)
<1>1. ASSUME NEW j \in Written, VarName(j) = v
      PROVE  j = k
  <2>1. CASE IsTfVar(j) /\ IsTfVar(k)
    BY <1>1, <2>1, TrimmedAssumption DEF VarName, IsTfVar
  <2>2. CASE IsTfVar(j) /\ ~IsTfVar(k)
    BY <1>1, <2>2 DEF VarName, Written, Shadowed
  <2>3. CASE ~IsTfVar(j) /\ IsTfVar(k)
    BY <1>1, <2>3 DEF VarName, Written, Shadowed
  <2>4. CASE ~IsTfVar(j) /\ ~IsTfVar(k)
    BY <1>1, <2>4 DEF VarName
  <2> QED BY <2>1, <2>2, <2>3, <2>4
<1> HIDE DEF v
<1>2. (CHOOSE j \in Written : VarName(j) = v) = k
  BY <1>1 DEF v
<1>3. v \in {VarName(j) : j \in Written}
  BY DEF v
<1> QED BY <1>2, <1>3 DEF InputValues, v

\* Every input reaches tofu.
LEMMA InputsLemma ==
  ASSUME StageInv
  PROVE  InputsReachTofu
<1> SUFFICES ASSUME pc = "init", NEW k \in Inputs
             PROVE  CASE IsFile(k) -> dir[k] = block.inputs[k].file
                      [] ~IsFile(k) /\ IsTfVar(k) -> LET x == Trimmed[k] IN
                           \/ x \in DOMAIN MeshStackValues
                           \/ x \in DOMAIN tfvars /\ tfvars[x] = IF x \in Inputs THEN x ELSE k
                           \/ x \in Inputs /\ (IsFile(x) \/ IsEnv(x))
                      [] ~IsFile(k) /\ IsEnv(k) /\ ~IsTfVar(k) ->
                           /\ k \in DOMAIN env
                           /\ env[k] = "input" \/ (block.fallback /\ k \in DOMAIN HttpAuth)
                      [] OTHER -> \/ k \in DOMAIN MeshStackValues
                                  \/ k \in DOMAIN tfvars /\ tfvars[k] = k
  BY DEF InputsReachTofu
<1>1. /\ env \in Envs
      /\ tfvars = Override(InputValues, MeshStackValues)
      /\ IsFile(k) => ~IsEnv(k)
  BY DEF StageInv, ValuesInv, Prepared, Ready
<1>2. ASSUME NEW j \in Written, VarName(j) \notin DOMAIN MeshStackValues
      PROVE  VarName(j) \in DOMAIN tfvars /\ tfvars[VarName(j)] = j
  <2>1. VarName(j) \in DOMAIN InputValues /\ InputValues[VarName(j)] = j
    BY InputValueFacts
  <2> QED BY <1>1, <1>2, <2>1 DEF Override
<1>3. CASE IsFile(k)
  <2>1. PICK c \in Meant :
          /\ DOMAIN Declaring(c) \subseteq DOMAIN dir
          /\ \A n \in DOMAIN Declaring(c) : dir[n] = Declaring(c)[n]
    BY AtInit
  <2>2. k \in DOMAIN FileInputs /\ FileInputs[k] = block.inputs[k].file
    BY <1>3 DEF FileInputs
  <2>3. k \in DOMAIN WantedAt(c) /\ WantedAt(c)[k] = block.inputs[k].file
    BY <2>2 DEF WantedAt, Override
  <2>4. k \in DOMAIN Wanted
    BY <2>3, WantedFacts
  <2>5. dir[k] = block.inputs[k].file
    BY <2>1, <2>3, <2>4, UserFiles
  <2>6. ~IsTfVar(k)
    BY <1>1, <1>3 DEF IsTfVar
  <2> QED BY <1>3, <2>5, <2>6
<1>4. CASE ~IsFile(k) /\ IsTfVar(k)
  <2> DEFINE x == Trimmed[k]
  <2>1. CASE x \notin Inputs
    <3>1. k \in Written /\ VarName(k) = x
      BY <1>4, <2>1 DEF Written, Shadowed, VarName
    <3> QED BY <1>2, <1>4, <2>1, <3>1
  <2>2. CASE x \in Inputs /\ ~IsFile(x) /\ ~IsEnv(x)
    <3>1. x \in Written /\ VarName(x) = x
      BY <2>2 DEF Written, VarName, IsTfVar
    <3> QED BY <1>2, <1>4, <2>2, <3>1
  <2>3. CASE x \in Inputs /\ (IsFile(x) \/ IsEnv(x))
    BY <1>4, <2>3
  <2> QED BY <2>1, <2>2, <2>3
<1>5. CASE ~IsFile(k) /\ IsEnv(k) /\ ~IsTfVar(k)
  <2>1. k \in DOMAIN InputEnv /\ InputEnv[k] = "input"
    BY <1>5 DEF InputEnv, IsTfVar
  <2>2. k \in DOMAIN env /\ (env[k] = "input" \/ (block.fallback /\ k \in DOMAIN HttpAuth))
    <3>1. CASE env = InputEnv
      BY <2>1, <3>1
    <3>2. CASE block.fallback /\ env = Override(InputEnv, HttpAuth)
      <4> HIDE DEF InputEnv, HttpAuth
      <4> QED BY <2>1, <3>2 DEF Override
    <3> QED BY <1>1, <3>1, <3>2 DEF Envs
  <2> QED BY <1>5, <2>2
<1>6. CASE ~IsFile(k) /\ ~IsEnv(k)
  <2>1. k \in Written /\ VarName(k) = k /\ ~IsTfVar(k)
    BY <1>6 DEF Written, VarName, IsTfVar
  <2> QED BY <1>2, <1>6, <2>1
<1> QED BY <1>3, <1>4, <1>5, <1>6

-----------------------------------------------------------------------------
(* Types, and the whole.                                                   *)

\* The ranges that no other invariant states.
RangeInv ==
  /\ run \in 0..MaxRuns
  /\ mode \in Modes \cup {"none"}
  /\ suggested \in Names \cup {"none"}
  /\ pc \in Places
  /\ workspaces \subseteq Names \cup Others \cup {InitialWorkspace}
  /\ split \in BOOLEAN

\* A step keeps the ranges.
LEMMA RangeStep ==
  ASSUME StageInv, WorkspaceInv, RangeInv, [Next]_vars
  PROVE  RangeInv'
<1> USE NamesAssumption DEF RangeInv, Modes, Places
<1>1. CASE UNCHANGED vars
  BY <1>1 DEF vars, state, history
<1>2. ASSUME NEW m \in Modes, NEW w \in Names, StartRun(m, w)
      PROVE  RangeInv'
  BY <1>2 DEF StartRun, state, history
<1>3. CASE \/ Prepare \/ Clone \/ Checkout \/ Copy \/ buildTfEnv \/ saveInputFiles \/ WriteVars
           \/ ChooseBackend \/ TofuInit \/ ListWorkspaces
  BY <1>3 DEF Prepare, Clone, Checkout, Copy, buildTfEnv, saveInputFiles, WriteVars,
              ChooseBackend, createMeshStackHttpBackendFile, TofuInit, ListWorkspaces, state, history
<1>4. ASSUME NEW w \in Names, SelectWorkspace(w)
      PROVE  RangeInv'
  BY <1>4 DEF SelectWorkspace, history
<1>5. CASE SelectFails
  <2>1. split' \in BOOLEAN
    BY <1>5, Zenon DEF SelectFails
  <2> QED BY <1>5, <2>1 DEF SelectFails, AfterSelectFails
<1>6. CASE NewWorkspace
  BY <1>6 DEF NewWorkspace, WorkspaceInv, history
<1>7. CASE Tofu
  BY <1>7 DEF Tofu, Leave
<1>8. CASE TofuFails
  BY <1>8 DEF TofuFails, Leave
<1>9. CASE DeleteWorkspace
  BY <1>9 DEF DeleteWorkspace, Leave, history
<1>10. CASE Fail
  BY <1>10 DEF Fail, Leave, WorkspaceInv, history
<1>11. CASE NoMoreRuns
  BY <1>1, <1>11 DEF NoMoreRuns
<1> QED BY <1>1, <1>2, <1>3, <1>4, <1>5, <1>6, <1>7, <1>8, <1>9, <1>10, <1>11 DEF Next

\* Who may have written the files.
LEMMA WriterLemma ==
  ASSUME StageInv, pc \in Places
  PROVE  \A n \in DOMAIN dir : dir[n].by \in Commits \cup {"auth", "input", "runner"}
<1> DEFINE By == Commits \cup {"auth", "input", "runner"}
           OK(d) == \A n \in DOMAIN d : d[n].by \in By
<1>1. OK(None)
  <2>1. DOMAIN None = {}
    BY DEF None
  <2> QED BY <2>1
<1>2. OK(AuthFiles)
  BY AuthFacts DEF RunnerFile
<1>3. \A c \in Meant : c # NoCommit => OK(SourcesAt(c))
  <2>1. Meant \ {NoCommit} \subseteq Commits
    BY DEF Meant, MeantCommit, Commits
  <2> QED BY <2>1 DEF SourcesAt
<1>4. OK(FileInputs)
  BY BlocksAssumption DEF StageInv, BlockInv, FileInputs, Inputs, IsFile
<1>5. \A d : OK(RunVarsFile(d))
  <2> SUFFICES ASSUME NEW d PROVE OK(RunVarsFile(d))
    OBVIOUS
  <2>1. CASE RunVarsFile(d) = None
    BY <1>1, <2>1
  <2>2. CASE RunVarsFile(d) # None
    <3>1. \E x : RunVarsFile(d) = [n \in {RunVars} |-> RunnerFile("runner", x, FALSE)]
      BY <2>2 DEF RunVarsFile
    <3> QED BY <3>1 DEF RunnerFile
  <2> QED BY <2>1, <2>2
<1>6. OK(BackendFile)
  BY DEF BackendFile, RunnerFile
<1> HIDE DEF By
<1>7. \A f, g : OK(f) /\ OK(g) => OK(Override(f, g))
  BY DEF Override
<1> HIDE DEF OK
<1>8. \A c \in Meant : c # NoCommit => /\ OK(Fetched(c)) /\ OK(Complete(c)) /\ OK(Declaring(c))
                                       /\ OK(Override(Declaring(c), BackendFile))
  <2> SUFFICES ASSUME NEW c \in Meant, c # NoCommit
               PROVE  /\ OK(Fetched(c)) /\ OK(Complete(c)) /\ OK(Declaring(c))
                      /\ OK(Override(Declaring(c), BackendFile))
    OBVIOUS
  <2>1. OK(Fetched(c))
    BY <1>2, <1>3, <1>7 DEF Fetched
  <2>2. OK(Complete(c))
    BY <1>4, <1>7, <2>1 DEF Complete
  <2>3. OK(Declaring(c))
    BY <1>5, <1>7, <2>2 DEF Declaring
  <2> QED BY <1>6, <1>7, <2>1, <2>2, <2>3
<1>9. OK(dir)
  BY <1>1, <1>2, <1>8 DEF StageInv, DirInv, Ready, Places
<1> QED BY <1>9 DEF OK, By

\* The values are of inputs or of runs.
LEMMA ValuesTyped ==
  ASSUME StageInv, RangeInv
  PROVE  \A v \in DOMAIN tfvars :
           tfvars[v] \in IF v \in DOMAIN MeshStackValues THEN 0..MaxRuns ELSE Inputs
<1>1. CASE tfvars = None
  <2>1. DOMAIN None = {}
    BY DEF None
  <2> QED BY <1>1, <2>1
<1>2. CASE tfvars = Override(InputValues, MeshStackValues)
  <2>1. \A v \in DOMAIN MeshStackValues : MeshStackValues[v] \in 0..MaxRuns
    BY NamesAssumption DEF MeshStackValues, RangeInv
  <2>2. \A v \in DOMAIN InputValues : InputValues[v] \in Inputs
    BY DEF InputValues, Written
  <2> QED BY <1>2, <2>1, <2>2 DEF Override
<1> QED BY <1>1, <1>2 DEF StageInv, ValuesInv

\* The invariants give the types.
LEMMA Types ==
  ASSUME StageInv, WorkspaceInv, StateInv, RangeInv
  PROVE  TypeOK
<1>1. block \in Blocks /\ clone \in Commits \cup {NoCommit}
  BY DEF StageInv, BlockInv
<1>2. \A k \in DOMAIN env : IF env[k] = "input" THEN k \in Inputs
                            ELSE env[k] = "runner" /\ k \in DOMAIN HttpAuth
  <2>1. DOMAIN None = {}
    BY DEF None
  <2>2. \A k \in DOMAIN InputEnv : k \in Inputs /\ InputEnv[k] = "input"
    BY DEF InputEnv
  <2>3. \A k \in DOMAIN HttpAuth : HttpAuth[k] = "runner"
    BY DEF HttpAuth
  <2>4. env = None \/ env = InputEnv \/ env = Override(InputEnv, HttpAuth)
    BY DEF StageInv, ValuesInv, Envs
  <2> QED BY <2>1, <2>2, <2>3, <2>4 DEF Override
<1>3. where \in {"none", "sources", "local", "meshStack"}
  BY DEF WorkspaceInv
<1>4. workspace \in Names \cup {InitialWorkspace}
  BY DEF WorkspaceInv
<1>5. holds \subseteq {"sources", "meshStack"} \X (Names \cup {InitialWorkspace})
  BY DEF StateInv
<1>6. \A n \in DOMAIN dir : dir[n].by \in Commits \cup {"auth", "input", "runner"}
  BY WriterLemma DEF RangeInv
<1> QED BY <1>1, <1>2, <1>3, <1>4, <1>5, <1>6, ValuesTyped DEF TypeOK, RangeInv

\* For every block, every file name and any number of runs: tofu finds what the
\* block says, whoever else has written into its directory.
THEOREM DirectoryTheorem == Spec => []DirectorySound
<1>1. Init => RangeInv
  <2> SUFFICES ASSUME Init PROVE RangeInv
    OBVIOUS
  <2>1. split \in BOOLEAN
    BY Zenon DEF Init
  <2> QED BY <2>1, NamesAssumption DEF Init, RangeInv, Places
<1>2. StageInv /\ WorkspaceInv /\ RangeInv /\ [Next]_vars => RangeInv'
  BY RangeStep
<1>3. StageInv /\ WorkspaceInv /\ StateInv /\ RangeInv => DirectorySound
  BY Types, SourcesLemma, KeyLemma, ConfigurationLemma, InputsLemma DEF DirectorySound
<1> QED BY <1>1, <1>2, <1>3, Stages, States, PTL DEF Spec
=============================================================================
