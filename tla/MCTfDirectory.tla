--------------------------- MODULE MCTfDirectory ----------------------------
(***************************************************************************)
(* TfDirectory for TLC: blocks that differ in their sources, inputs and    *)
(* backend, and blocks that differ in how their sources are fetched.       *)
(***************************************************************************)
EXTENDS TfDirectory, TLC

CONSTANTS c1, c2, c3

MCHides == [n \in {"main.tofu"} |-> "main.tf"] @@ [n \in {"extra.tofu"} |-> "extra.tf"]
MCTrimmed == [k \in {"TF_VAR_v"} |-> "v"]

File(who, declared, backend, parses) ==
  [by |-> who, declares |-> declared, backend |-> backend, parses |-> parses]
Only(name, file) == [n \in {name} |-> file]
Main(parses) == {Only("main.tf", File(NoCommit, d, b, parses)) :
                   d \in {{}, {"building_block_id"}}, b \in BOOLEAN}
Extra == {<<>>} \cup {Only("data.json", File(NoCommit, {}, FALSE, p)) : p \in BOOLEAN}
         \cup {Only(RunVars, File(NoCommit, {"run_id"}, FALSE, TRUE)),
               Only(Backend, File(NoCommit, {}, FALSE, TRUE)),
               Only("data.json", File(NoCommit, {"run_id"}, FALSE, TRUE)),
               Only(SshCert, File(NoCommit, {}, FALSE, TRUE))}
TofuExtra == {Only("main.tofu", File(NoCommit, {}, TRUE, TRUE))}
         \cup {Only("extra.tofu", File(NoCommit, d, b, TRUE)) : d \in {{}, {"run_id"}}, b \in BOOLEAN}
Sources == {Override(m, e) : m \in Main(TRUE), e \in Extra \cup TofuExtra}
           \cup Main(FALSE)

Value(isEnv) == [kind |-> "STRING", env |-> isEnv, file |-> NoCommit]
FileInput(isEnv) ==
  [kind |-> "FILE", env |-> isEnv, file |-> File("input", {}, FALSE, TRUE)]
InputSets ==
  {<<>>, Only("v", FileInput(TRUE)), Only(SshCert, FileInput(FALSE)),
   Only("main.tf", FileInput(FALSE)), Only("TF_VAR_v", Value(TRUE)),
   Only("run_id", Value(FALSE))}
  \cup {Override(Only("TF_VAR_v", Value(TRUE)), Only("v", i)) :
          i \in {Value(TRUE), Value(FALSE), FileInput(FALSE)}}

Git(isSsh, isAzure, hasRef, b, t) ==
  [ssh |-> isSsh, knownHost |-> isSsh, azure |-> isAzure, ref |-> hasRef,
   head |-> c1, branch |-> b, tag |-> t, hash |-> NoCommit]
Gits == {Git(s, a, TRUE, b, t) : s \in BOOLEAN, a \in BOOLEAN,
           b \in {c2, NoCommit}, t \in {c3, NoCommit}}
        \cup {Git(s, FALSE, FALSE, NoCommit, NoCommit) : s \in BOOLEAN}

Block(g, src, in, fb) ==
  [n \in DOMAIN g \cup {"sources", "inputs", "fallback"} |->
     CASE n = "sources" -> src [] n = "inputs" -> in [] n = "fallback" -> fb
       [] OTHER -> g[n]]

Plain == Git(TRUE, FALSE, FALSE, NoCommit, NoCommit)
Sound == Only("main.tf", File(NoCommit, {}, TRUE, TRUE))
MCBlocks ==
  {Block(Plain, src, <<>>, fb) : src \in Sources, fb \in BOOLEAN}
  \cup {Block(Plain, Override(Sound, e), in, FALSE) :
           e \in {x \in Extra : DOMAIN x \subseteq {RunVars, SshCert}}, in \in InputSets}
  \cup {Block(Plain, src, Only("TF_HTTP_PASSWORD", Value(TRUE)), fb) :
           src \in {Sound, <<>>}, fb \in BOOLEAN}
  \cup {Block(g, Sound, <<>>, FALSE) : g \in Gits}
=============================================================================
