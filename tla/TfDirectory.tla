---------------------------- MODULE TfDirectory -----------------------------
(***************************************************************************)
(* What tofu works on in the runs of one building block: the working       *)
(* directory, which every run fills anew with the sources of the block     *)
(* (gitsource.go, git.go), files of the authentication (authSsh.go), file  *)
(* inputs, variables and a backend (tfcmd.go), and the state of tofu,      *)
(* which outlives the runs in a workspace of the backend.                  *)
(*                                                                         *)
(* A file is what the code tells apart: who wrote it, which variables it   *)
(* declares, whether it configures a backend and whether it can be parsed. *)
(* How a run reports, ends early or is aborted is module TfRun; here every *)
(* step may fail.  Directories inside the sources are left out.            *)
(***************************************************************************)
EXTENDS Integers, FiniteSets

CONSTANTS
  Blocks,     \* the building blocks to consider, one per behaviour
  TfFiles,    \* names of files that tofu reads and the runner parses
  Hides,      \* names of .tofu files -> the .tf file that tofu skips for it
  JsonFiles,  \* names of other files with the suffix .json
  Trimmed,    \* names of inputs with the prefix TF_VAR_ -> without it
  Names,      \* the workspace names of the block: they end in its id
  Others,     \* workspaces of other blocks in the same backend
  NoCommit,   \* no commit
  MaxRuns     \* bound: runs of the block

RunVars == "meshStack_run_vars.tf"
Backend == "meshStack_httpbackend.tf"
SshCert == "ssh_cert"
KnownHosts == "known_hosts_tmp"
InitialWorkspace == "default"

ASSUME NamesAssumption == /\ {RunVars, Backend} \subseteq TfFiles
                          /\ TfFiles \cap JsonFiles = {}
                          /\ {SshCert, KnownHosts} \cap (TfFiles \cup JsonFiles) = {}
                          /\ DOMAIN Hides \cap (TfFiles \cup JsonFiles
                                                 \cup {SshCert, KnownHosts}) = {}
                          /\ Names \cap Others = {}
                          /\ InitialWorkspace \notin Names \cup Others
                          /\ MaxRuns \in Nat
\* No block has a .tofu file named like a file of the runner.
ASSUME HidesAssumption == \A n \in DOMAIN Hides : Hides[n] \notin {RunVars, Backend}
\* The names of inputs differ, so they do without their prefix.
ASSUME TrimmedAssumption ==
  \A j, k \in DOMAIN Trimmed : Trimmed[j] = Trimmed[k] => j = k
\* A repository has a commit to clone; the content of a file input is the user's.
ASSUME BlocksAssumption ==
  \A b \in Blocks :
    /\ b.head # NoCommit
    /\ \A k \in DOMAIN b.inputs : b.inputs[k].kind = "FILE" => b.inputs[k].file.by = "input"

VARIABLES
  block,      \* the building block
  run,        \* the number of the current run, its id
  mode,       \* its behaviour; "REPLAY": an APPLY of the plan of a DETECT
  suggested,  \* its suggestedWorkspace
  pc,         \* where the command is
  clone,      \* the commit checked out in tmp-clone-meshstack
  dir,        \* the files in the working directory: name -> file
  env,        \* the environment of tofu: name -> who has set it
  tfvars,     \* the generated file of values: variable -> value
  where,      \* the backend that init has chosen
  workspace,  \* the workspace that is selected
  \* external
  workspaces, \* those in the backend of the sources
  \* history
  planned,    \* the values at the last DETECT that stored its plan
  holds,      \* the states with resources of the block
  split       \* WorkspaceSelect failed and the run went on

files    == <<clone, dir, env, tfvars>>
state    == <<where, workspace, workspaces>>
history  == <<planned, holds, split>>
vars == <<block, run, mode, suggested, pc, files, state, history>>

Modes == {"DETECT", "APPLY", "REPLAY", "DESTROY"}
None == <<>>
Override(f, g) == [n \in DOMAIN f \cup DOMAIN g |-> IF n \in DOMAIN g THEN g[n] ELSE f[n]]
RunnerFile(who, declared, backend) ==
  [by |-> who, declares |-> declared, backend |-> backend, parses |-> TRUE]

Init ==
  /\ block \in Blocks
  /\ run = 0
  /\ mode = "none" /\ suggested = "none"
  /\ pc = "idle"
  /\ clone = NoCommit /\ dir = None /\ env = None /\ tfvars = None
  /\ where = "none" /\ workspace = InitialWorkspace
  /\ workspaces = Others \cup {InitialWorkspace}
  /\ planned = None /\ holds = {} /\ split = FALSE

\* A run starts in a directory of its own.  The identifiers in the name of its
\* workspace may have changed since the run before.
StartRun(m, w) ==
  /\ pc = "idle"
  /\ run < MaxRuns
  /\ m = "REPLAY" => planned # None
  /\ run' = run + 1
  /\ mode' = m
  /\ suggested' = w
  /\ pc' = "prepare"
  /\ UNCHANGED <<block, files, state, history>>

\* The directory is removed after the run, whatever its end.
Leave == /\ pc' = "idle" /\ mode' = "none" /\ suggested' = "none"
         /\ clone' = NoCommit /\ dir' = None /\ env' = None /\ tfvars' = None
         /\ where' = "none" /\ workspace' = InitialWorkspace

-----------------------------------------------------------------------------
(* GitSource.CopyToTargetDir.                                              *)

\* SshAuth writes its files first; NoAuth has none.
AuthFiles ==
  IF ~block.ssh THEN None
  ELSE [n \in {SshCert} \cup (IF block.knownHost THEN {KnownHosts} ELSE {}) |->
          RunnerFile("auth", {}, FALSE)]
Prepare ==
  /\ pc = "prepare"
  /\ dir' = Override(dir, AuthFiles)
  /\ pc' = "clone"
  /\ UNCHANGED <<block, run, mode, suggested, clone, env, tfvars, state, history>>

\* Into tmp-clone-meshstack, by go-git or, for Azure DevOps, by git.
Clone ==
  /\ pc = "clone"
  /\ clone' = block.head
  /\ pc' = IF block.ref THEN "checkout" ELSE "copy"
  /\ UNCHANGED <<block, run, mode, suggested, dir, env, tfvars, state, history>>

\* checkoutRef: a remote branch, a tag or a hash, in this order.
FirstKnown(commits) ==
  LET known == {i \in DOMAIN commits : commits[i] # NoCommit}
  IN IF known = {} THEN NoCommit
     ELSE commits[CHOOSE i \in known : \A j \in known : i <= j]
checkoutRef_TagFirst == FirstKnown(<<block.tag, block.branch, block.hash>>)
checkoutRef == FirstKnown(<<block.branch, block.tag, block.hash>>)
\* `git checkout` may prefer a tag to a branch of the same name.
azureCheckoutRef == LET named == {block.branch, block.tag} \ {NoCommit}
                    IN IF named = {} THEN {block.hash} ELSE named

Checkout ==
  /\ pc = "checkout"
  /\ clone' \in IF block.azure THEN azureCheckoutRef ELSE {checkoutRef}
  /\ clone' # NoCommit
  /\ pc' = "copy"
  /\ UNCHANGED <<block, run, mode, suggested, dir, env, tfvars, state, history>>

\* auth.done keeps the files of the authentication.
done_CleansUp == [n \in DOMAIN dir \ {SshCert, KnownHosts} |-> dir[n]]
done == dir
SourcesAt(commit) ==
  [n \in DOMAIN block.sources |->
     LET f == block.sources[n]
     IN [by |-> commit, declares |-> f.declares, backend |-> f.backend, parses |-> f.parses]]

\* moveDirContent renames file by file, over files that exist, then the
\* temporary directory is removed.
Copy ==
  /\ pc = "copy"
  /\ dir' = Override(done, SourcesAt(clone))
  /\ clone' = NoCommit
  /\ pc' = "env"
  /\ UNCHANGED <<block, run, mode, suggested, env, tfvars, state, history>>

-----------------------------------------------------------------------------
(* buildTfEnv, saveInputFiles and vars.                                    *)

Inputs == DOMAIN block.inputs
IsFile(k) == block.inputs[k].kind = "FILE"
IsEnv(k) == block.inputs[k].env
IsTfVar(k) == IsEnv(k) /\ k \in DOMAIN Trimmed

InputEnv == [k \in {i \in Inputs : IsEnv(i) /\ i \notin DOMAIN Trimmed} |-> "input"]
HttpAuth == [k \in {"TF_HTTP_USERNAME", "TF_HTTP_PASSWORD"} |-> "runner"]

\* The credentials of meshStack's backend are set last, over an input of that
\* name, even if the block turns out to have a backend.  A run may have no token.
buildTfEnv ==
  /\ pc = "env"
  /\ env' \in {InputEnv} \cup (IF block.fallback THEN {Override(InputEnv, HttpAuth)} ELSE {})
  /\ pc' = "files"
  /\ UNCHANGED <<block, run, mode, suggested, clone, dir, tfvars, state, history>>

FileInputs == [k \in {i \in Inputs : IsFile(i)} |-> block.inputs[k].file]

\* A file for the environment is refused: Fail.
saveInputFiles ==
  /\ pc = "files"
  /\ \A k \in Inputs : IsFile(k) => ~IsEnv(k)
  /\ dir' = Override(dir, FileInputs)
  /\ pc' = "vars"
  /\ UNCHANGED <<block, run, mode, suggested, clone, env, tfvars, state, history>>

\* ParseTerraformConfig reads every file with the suffix .tf or .json, not .tofu.
Parsed(d) == DOMAIN d \cap (TfFiles \cup JsonFiles)
Declared(d, names) == UNION {d[n].declares : n \in names}

\* One file that cannot be parsed, and no declaration is known.
ParseVariableInputs_None(d) == {}
ParseVariableInputs(d) ==
  IF \A n \in Parsed(d) : d[n].parses THEN Declared(d, Parsed(d)) ELSE {}

RunScoped == {"run_id", "run_b64"}
MeshStackVars == {"building_block_id"} \cup RunScoped

\* The input of the same name without prefix is preferred, whatever it is.
Shadowed(k) == Trimmed[k] \in Inputs

\* The inputs that get a value in the file, and the variables they set.
Written == {k \in Inputs : ~IsFile(k) /\ IF IsTfVar(k) THEN ~Shadowed(k) ELSE ~IsEnv(k)}
VarName_Prefixed(k) == k
VarName(k) == IF IsTfVar(k) THEN Trimmed[k] ELSE k
InputValues == [v \in {VarName(k) : k \in Written} |-> CHOOSE k \in Written : VarName(k) = v]

\* Values that differ from run to run must not enter a plan that is kept.
includeRunScopedVars_Detect == mode # "DETECT"
includeRunScopedVars == mode \notin {"DETECT", "REPLAY"}
MeshStackValues ==
  [v \in IF includeRunScopedVars THEN MeshStackVars ELSE MeshStackVars \ RunScoped |->
     IF v \in RunScoped THEN run ELSE 0]

\* Variables that the block does not declare are declared in a file, unless it
\* is there already.
RunVarsFile(d) ==
  LET missing == MeshStackVars \ ParseVariableInputs(d)
  IN IF missing = {} \/ RunVars \in DOMAIN d THEN None
     ELSE [n \in {RunVars} |-> RunnerFile("runner", missing, FALSE)]

WriteVars ==
  /\ pc = "vars"
  /\ tfvars' = Override(InputValues, MeshStackValues)
  /\ dir' = Override(dir, RunVarsFile(dir))
  /\ pc' = "backend"
  /\ UNCHANGED <<block, run, mode, suggested, clone, env, state, history>>

-----------------------------------------------------------------------------
(* init: the backend, then tofu init.                                      *)

\* The files tofu reads: .tofu too, and then not the .tf file of the same name
\* (external).
TofuFiles == DOMAIN Hides
Read(d) == (DOMAIN d \cap (TfFiles \cup TofuFiles)) \ {Hides[n] : n \in DOMAIN d \cap TofuFiles}

HasBackend(d, names) == \E n \in DOMAIN d \cap names : d[n].backend

\* FindBackendConfig reads the files in the order of their names, up to a
\* backend or to a file that cannot be parsed, which is an error.  Which comes
\* first is left open.
detectBackend ==
  LET parses == \A n \in Parsed(dir) : dir[n].parses
      found  == HasBackend(dir, Parsed(dir))
  IN (IF found THEN {"found"} ELSE IF parses THEN {"none"} ELSE {})
     \cup (IF parses THEN {} ELSE {"error"})

\* The file of meshStack's backend must be new.
createMeshStackHttpBackendFile ==
  /\ Backend \notin DOMAIN dir
  /\ dir' = Override(dir, [n \in {Backend} |-> RunnerFile("runner", {}, TRUE)])

\* With useMeshBackendFallback a block without a backend gets one; otherwise tofu
\* takes what it finds.
ChooseBackend ==
  /\ pc = "backend"
  /\ \/ /\ block.fallback
        /\ "none" \in detectBackend
        /\ createMeshStackHttpBackendFile
        /\ where' = "meshStack"
     \/ /\ block.fallback => "found" \in detectBackend
        /\ where' = IF HasBackend(dir, Read(dir)) THEN "sources" ELSE "local"
        /\ UNCHANGED dir
  /\ pc' = "init"
  /\ UNCHANGED <<block, run, mode, suggested, clone, env, tfvars, workspace,
                 workspaces, history>>

\* tofu refuses files it cannot parse and variables declared twice (external).
Valid(d) ==
  /\ \A n \in Read(d) : d[n].parses
  /\ \A m, n \in Read(d) : m # n => d[m].declares \cap d[n].declares = {}
  /\ \A m, n \in Read(d) : d[m].backend /\ d[n].backend => m = n

\* The http backend has no workspaces.
UsesWorkspaces == where # "meshStack"
TofuInit ==
  /\ pc = "init"
  /\ Valid(dir)
  /\ pc' = IF UsesWorkspaces THEN "list" ELSE "tofu"
  /\ UNCHANGED <<block, run, mode, suggested, files, state, history>>

-----------------------------------------------------------------------------
(* useWorkspaceIfNeeded.                                                   *)

\* The workspaces that `tofu workspace list` shows: a local backend is as new
\* as its directory.
Available == IF where = "local" THEN {InitialWorkspace} ELSE workspaces

OfBlock_Suggested(w) == w = suggested
OfBlock(w) == w \in Names

ListWorkspaces ==
  /\ pc = "list"
  /\ pc' = IF \E w \in Available : OfBlock(w) THEN "select" ELSE "new"
  /\ UNCHANGED <<block, run, mode, suggested, files, state, history>>

SelectWorkspace(w) ==
  /\ pc = "select"
  /\ w \in Available
  /\ OfBlock(w)
  /\ workspace' = w
  /\ pc' = "tofu"
  /\ UNCHANGED <<block, run, mode, suggested, files, where, workspaces, history>>

\* The error is dropped: as if the workspace did not exist.
AfterSelectFails_Nameless == workspace' = "" /\ pc' = "tofu"
AfterSelectFails == UNCHANGED workspace /\ pc' = "new"
SelectFails ==
  /\ pc = "select"
  /\ AfterSelectFails
  /\ split' = TRUE
  /\ UNCHANGED <<block, run, mode, suggested, files, where, workspaces, planned, holds>>

\* tofu refuses a name that exists.
NewWorkspace ==
  /\ pc = "new"
  /\ suggested \notin Available
  /\ workspaces' = IF where = "local" THEN workspaces ELSE workspaces \cup {suggested}
  /\ workspace' = suggested
  /\ pc' = "tofu"
  /\ UNCHANGED <<block, run, mode, suggested, files, where, history>>

-----------------------------------------------------------------------------
(* The command itself.                                                     *)

\* A local state (no backend, no fallback) is lost with its directory and not
\* counted in holds.
State == <<where, workspace>>

\* Plan, Apply or Destroy, and the upload of a plan.
Tofu ==
  /\ pc = "tofu"
  /\ planned' = IF mode = "DETECT" THEN tfvars ELSE planned
  /\ holds' = IF where = "local" \/ mode = "DETECT" THEN holds
              ELSE IF mode = "DESTROY" THEN holds \ {State} ELSE holds \cup {State}
  /\ IF mode = "DESTROY" /\ UsesWorkspaces
     THEN pc' = "delete" /\ UNCHANGED <<mode, suggested, files, where, workspace>>
     ELSE Leave
  /\ UNCHANGED <<block, run, workspaces, split>>

\* A command that fails may have made or left resources.
TofuFails ==
  /\ pc = "tofu"
  /\ holds' \in {holds} \cup (IF mode = "DETECT" \/ where = "local" THEN {}
                              ELSE {holds \cup {State}})
  /\ Leave
  /\ UNCHANGED <<block, run, workspaces, planned, split>>

\* deleteWorkspaceIfNeeded; its errors are only logged.
DeleteWorkspace ==
  /\ pc = "delete"
  /\ workspaces' \in {workspaces, workspaces \ {workspace}}
  /\ Leave
  /\ UNCHANGED <<block, run, history>>

\* Every other step may fail, a WorkspaceNew although it had its effect.
Fail ==
  /\ pc \notin {"idle", "tofu", "delete", "select"}
  /\ workspaces' \in {workspaces} \cup (IF pc = "new" /\ where = "sources"
                                       THEN {workspaces \cup {suggested}} ELSE {})
  /\ Leave
  /\ UNCHANGED <<block, run, history>>

NoMoreRuns == pc = "idle" /\ run = MaxRuns /\ UNCHANGED vars

-----------------------------------------------------------------------------
Next ==
  \/ \E m \in Modes, w \in Names : StartRun(m, w)
  \/ Prepare \/ Clone \/ Checkout \/ Copy \/ buildTfEnv \/ saveInputFiles \/ WriteVars
  \/ ChooseBackend \/ TofuInit
  \/ ListWorkspaces \/ (\E w \in Names : SelectWorkspace(w)) \/ SelectFails \/ NewWorkspace
  \/ Tofu \/ TofuFails \/ DeleteWorkspace \/ Fail \/ NoMoreRuns

Spec == Init /\ [][Next]_vars

-----------------------------------------------------------------------------
(* Properties.                                                             *)

Places == {"idle", "prepare", "clone", "checkout", "copy", "env", "files", "vars",
           "backend", "init", "list", "select", "new", "tofu", "delete"}
Commits == {block.head, block.branch, block.tag, block.hash} \ {NoCommit}

\* Type invariant.
TypeOK ==
  /\ block \in Blocks
  /\ run \in 0..MaxRuns
  /\ mode \in Modes \cup {"none"}
  /\ suggested \in Names \cup {"none"}
  /\ pc \in Places
  /\ clone \in Commits \cup {NoCommit}
  /\ \A n \in DOMAIN dir : dir[n].by \in Commits \cup {"auth", "input", "runner"}
  /\ \A k \in DOMAIN env : IF env[k] = "input" THEN k \in Inputs
                           ELSE env[k] = "runner" /\ k \in DOMAIN HttpAuth
  /\ \A v \in DOMAIN tfvars : tfvars[v] \in IF v \in DOMAIN MeshStackValues
                                         THEN 0..MaxRuns ELSE Inputs
  /\ where \in {"none", "sources", "local", "meshStack"}
  /\ workspace \in Names \cup {InitialWorkspace}
  /\ workspaces \subseteq Names \cup Others \cup {InitialWorkspace}
  /\ holds \subseteq {"sources", "meshStack"} \X (Names \cup {InitialWorkspace})
  /\ split \in BOOLEAN

\* The files that the user asked for: those of the commit that the ref names, a
\* branch before a tag before a hash, and the file inputs over them.
MeantCommit == IF ~block.ref THEN block.head
               ELSE IF block.branch # NoCommit THEN block.branch
               ELSE IF block.tag # NoCommit THEN block.tag ELSE block.hash
Wanted == Override(SourcesAt(MeantCommit), FileInputs)
AmbiguousAtAzure == block.azure /\ block.ref /\ NoCommit \notin {block.branch, block.tag}

\* tofu finds the files the user asked for, whatever else is written into the
\* directory before and after them, and not the temporary clone.  A ref that
\* is both a branch and a tag may mean either at Azure DevOps, where git, not
\* go-git, resolves it.
SourcesArrive ==
  pc = "init" /\ ~AmbiguousAtAzure =>
    /\ clone = NoCommit
    /\ \A n \in DOMAIN Wanted : n \in DOMAIN dir /\ dir[n] = Wanted[n]

\* The key that GIT_SSH_COMMAND names is there when tofu downloads modules, so
\* auth.done must keep it (authSsh.go), although CopyToTargetDir calls it to
\* "clean up the potentially needed auth files".  A source file or a file input
\* of that name replaces it.
KeyForModules ==
  pc = "init" /\ block.ssh =>
    /\ SshCert \in DOMAIN dir
    /\ dir[SshCert].by = "auth" \/ SshCert \in DOMAIN Wanted

\* The runner does not parse what tofu reads: it takes every .json file for
\* tofu's and knows no .tofu file.  Blocks whose configuration it misreads: a
\* .json file that is not tofu's and cannot be parsed (no declaration is known
\* then) or seems to declare a variable of meshStack; a .tofu file that declares
\* one, has a backend the fallback does not see, or hides a .tf file.
Misread ==
  \/ \E n \in JsonFiles \cap DOMAIN dir :
       ~dir[n].parses \/ dir[n].declares \cap MeshStackVars # {}
  \/ \E n \in TofuFiles \cap DOMAIN dir :
       \/ dir[n].declares \cap MeshStackVars # {}
       \/ block.fallback /\ dir[n].backend
       \/ Hides[n] \in DOMAIN dir

\* What the runner adds keeps a valid configuration valid (no second
\* declaration, no second backend) and declares the variables that meshStack
\* provides, unless the sources bring meshStack_run_vars.tf themselves or the
\* block is one that the runner misreads.
ConfigurationKept ==
  pc = "init" /\ Valid(Wanted) /\ ~Misread =>
    /\ Valid(dir)
    /\ RunVars \in DOMAIN Wanted \/ MeshStackVars \subseteq Declared(dir, Read(dir))

\* Every input reaches tofu: as a file, in the environment, or as a variable
\* (TF_VAR_x as x, unless there is an input x, which is preferred).  If that
\* other input is not a variable itself, x gets no value.  meshStack's own
\* variables are written last, over an input of the same name, and so are, with
\* the fallback, TF_HTTP_USERNAME and TF_HTTP_PASSWORD in the environment, also
\* where the block's own http backend would need the values of the inputs.
InputsReachTofu ==
  pc = "init" =>
    \A k \in Inputs :
      CASE IsFile(k) -> dir[k] = block.inputs[k].file
        [] ~IsFile(k) /\ IsTfVar(k) -> LET x == Trimmed[k] IN
             \/ x \in DOMAIN MeshStackValues
             \/ x \in DOMAIN tfvars /\ tfvars[x] = IF x \in Inputs THEN x ELSE k
             \/ x \in Inputs /\ (IsFile(x) \/ IsEnv(x))
        [] ~IsFile(k) /\ IsEnv(k) /\ ~IsTfVar(k) ->
             /\ k \in DOMAIN env
             /\ env[k] = "input" \/ (block.fallback /\ k \in DOMAIN HttpAuth)
        [] OTHER -> \/ k \in DOMAIN MeshStackValues
                    \/ k \in DOMAIN tfvars /\ tfvars[k] = k

\* An APPLY that replays the plan of a DETECT gives tofu the values that the
\* plan was made with, though it is another run ("applying a saved plan requires
\* input values identical to plan time", tfcmd.go).
ReplayHasSameValues == pc = "tofu" /\ mode = "REPLAY" => tfvars = planned

\* The resources of the block are in one state, over all its runs, however the
\* identifiers in the name of its workspace change and whatever fails: except
\* when WorkspaceSelect fails, which is taken for a workspace that does not
\* exist.  Blocks with neither backend nor fallback are out of its reach: their
\* local state does not outlive a run.
OneState == Cardinality(holds) <= 1 \/ split

\* tofu finds in its directory what the building block says, whoever else has
\* written there before: the sources of the right commit, the key for modules,
\* a configuration without double declarations, and the inputs (execute).
DirectorySound ==
  TypeOK /\ SourcesArrive /\ KeyForModules /\ ConfigurationKept /\ InputsReachTofu
=============================================================================
