----------------------------- MODULE SetupProofs -----------------------------
(***************************************************************************)
(* Proofs about Setup, for every set of directories, of handwritten files, *)
(* of backends and of installed packages: what the wizard writes is taken  *)
(* by the commands, and up asks first what its children ask later.         *)
(***************************************************************************)
EXTENDS Setup, TLAPS

-----------------------------------------------------------------------------
(* What the wizard has been told at each of its questions.                 *)

Types == Optional \cup {"openai", "litellm", "mock"}
Texts == {"", "text"} \cup Vars

\* A custom endpoint comes with a region.
WizardSources ==
    {s \in [type : {"fs", "s3", "gdrive"}, path : Dirs \cup {""}, endpoint : {"", "text"},
            region : Texts, access_key : Texts] :
        s.endpoint # "" => s.region \in Regions}

\* LiteLLM comes with a model, and OpenAI with a key or a reference to it.
WizardModels(types) ==
    {s \in [type : types, model : {"", "text"}, api_key : Texts] :
        /\ s.type = "litellm" => s.model = "text"
        /\ s.type = "openai" => s.api_key \in {"OPENAI_API_KEY", "text"}}

WizardFiles ==
    [license : Texts, sources : SUBSET WizardSources, vector_db : SUBSET Backends,
     embedder : SUBSET WizardModels(Optional \cup {"openai", "litellm"}),
     llm : SUBSET WizardModels({"openai", "litellm", "mock"}),
     reranker : {{}}, decompose : {FALSE}, malformed : {FALSE}]

\* The sections the command the file is for cannot do without.
Complete(f) ==
    /\ kind # "server" => f.sources # {}
    /\ f.vector_db # {} /\ f.embedder # {}

AfterEmbedder == {"llm", "license", "output"}
AfterVectorDb == {"embedder", "package", "model"} \cup AfterEmbedder
AfterSources == {"vector_db"} \cup AfterVectorDb

WizardInv ==
    /\ answers \in WizardFiles
    /\ step = "dir" => asked \in Dirs
    /\ step \in {"package", "model"} => asked \in Offered
    /\ step \in AfterSources /\ kind # "server" => answers.sources # {}
    /\ step \in AfterVectorDb => answers.vector_db # {}
    /\ step \in AfterEmbedder => answers.embedder # {}
    /\ wrote # {} => step = "closed"
    /\ step # "closed" => \A p \in Procs : stage[p] = "off"
    /\ \A f \in wrote : f \in WizardFiles /\ Complete(f)

-----------------------------------------------------------------------------
(* What the processes of a command know.                                   *)

\* A process that has loaded a file has resolved its references, in the
\* environment its shell has given to all of them.
EnvInv ==
    /\ env \in [DOMAIN env -> {"unset", "", "text"}]
    /\ "OPENAI_API_KEY" \in DOMAIN env
    /\ \A p \in Procs : stage[p] \in {"building", "running", "refused"} =>
                            Refs(loaded[p].file) \subseteq DOMAIN env

\* up has found nothing to refuse, and starts no child before it has looked.
UpInv ==
    /\ stage["up"] = "running" => Refusal("up", loaded["up"].file, env, loaded["up"].dirs) = {}
    /\ stage["up"] = "checking" => \A c \in Children : stage[c] = "off"

\* Each of a process's variables has a value for every process.
ProcTypes ==
    /\ stage \in [Procs -> {"off", "checking", "building", "running", "refused"}]
    /\ why = [p \in Procs |-> why[p]]
    /\ loaded = [p \in Procs |-> loaded[p]]

\* The invariant: the two properties say nothing of what is still to be
\* decided, and what the other parts say of that decides it.
SetupInv ==
    TypeOK /\ ProcTypes /\ WizardInv /\ EnvInv /\ UpInv /\ WizardFileRuns /\ PreflightCovers

-----------------------------------------------------------------------------
(* Refusals.                                                               *)

\* A text is blank in two environments that agree on what the file refers to.
LEMMA SameBlank ==
  ASSUME NEW text, NEW e, NEW g, text \in Vars => g[text] = e[text]
  PROVE  Blank(text, g) <=> Blank(text, e)
  BY DEF Blank, Resolve

\* A file refers to what its sources refer to.
LEMMA SourceRefs ==
  ASSUME NEW f, NEW s \in f.sources
  PROVE  /\ s.endpoint \in Vars => s.endpoint \in Refs(f)
         /\ s.region \in Vars => s.region \in Refs(f)
<1> DEFINE In(x) == {x.endpoint, x.region, x.access_key}
<1>1. In(s) \subseteq UNION {In(x) : x \in f.sources}
  OBVIOUS
<1>2. s.endpoint \in In(s) /\ s.region \in In(s)
  OBVIOUS
<1> QED  BY <1>1, <1>2 DEF Refs

\* What p finds wrong with a file depends on the variables the file refers to,
\* and on the key of OpenAI.
LEMMA SameRefusal ==
  ASSUME NEW p \in Procs, NEW f, NEW e, NEW g, NEW d,
         \A v \in Refs(f) : g[v] = e[v], g["OPENAI_API_KEY"] = e["OPENAI_API_KEY"]
  PROVE  Refusal(p, f, g, d) = Refusal(p, f, e, d)
<1>1. \A s \in f.sources : (Blank(s.endpoint, g) <=> Blank(s.endpoint, e))
                           /\ (Blank(s.region, g) <=> Blank(s.region, e))
  <2> SUFFICES ASSUME NEW s \in f.sources
               PROVE  /\ s.endpoint \in Vars => g[s.endpoint] = e[s.endpoint]
                      /\ s.region \in Vars => g[s.region] = e[s.region]
    BY SameBlank
  <2> QED  BY DEF Refs
<1>2. \A s \in f.embedder \cup f.llm : Blank(s.api_key, g) <=> Blank(s.api_key, e)
  <2> SUFFICES ASSUME NEW s \in f.embedder \cup f.llm
               PROVE  s.api_key \in Vars => g[s.api_key] = e[s.api_key]
    BY SameBlank
  <2> QED  BY DEF Refs
<1>3. Unset(f, g) <=> Unset(f, e)
  BY DEF Unset
<1>4. Invalid(f, g) <=> Invalid(f, e)
  BY <1>1 DEF Invalid
<1>5. MissingCredentials(f, g, Roles(p)) <=> MissingCredentials(f, e, Roles(p))
  <2>1. \A r \in Roles(p) : \A s \in f[r] : Blank(s.api_key, g) <=> Blank(s.api_key, e)
    BY <1>2 DEF Roles
  <2>2. Blank("OPENAI_API_KEY", g) <=> Blank("OPENAI_API_KEY", e)
    BY SameBlank
  <2> QED  BY <2>1, <2>2 DEF MissingCredentials
<1>6. ASSUME NEW r \in {"sections", "dirs", "lite", "keys"}
      PROVE  Fails(r, p, f, g, d) <=> Fails(r, p, f, e, d)
  BY <1>5 DEF Fails
<1>7. Checks(p) \subseteq {"sections", "dirs", "lite", "keys"}
  BY DEF Checks, Procs
<1> QED  BY <1>3, <1>4, <1>6, <1>7 DEF Refusal

\* What a child asks of a file is part of what up asks of it.
LEMMA ChildAsksLess ==
  ASSUME NEW c \in Children, NEW f, NEW e, NEW d, Refusal("up", f, e, d) = {}
  PROVE  Refusal(c, f, e, d) = {}
<1>1. ~Unset(f, e) /\ ~Invalid(f, e)
  BY DEF Refusal
<1>2. Checks("up") = {"sections", "dirs", "lite", "keys"}
  BY DEF Checks
<1>3. \A r \in Checks("up") : ~Fails(r, "up", f, e, d)
  BY <1>1 DEF Refusal
<1>4. \A s \in {"sources", "vector_db", "embedder"} : f[s] # {}
  BY <1>2, <1>3 DEF Fails, Needs
<1>5. MissingDirs(f, d) = {}
  BY <1>2, <1>3 DEF Fails
<1>6. ~MissingCredentials(f, e, Roles("up"))
  BY <1>2, <1>3 DEF Fails
<1>7. ~MissingCredentials(f, e, Roles(c))
  BY <1>6 DEF MissingCredentials, Roles, Children
<1>8. Checks(c) \subseteq {"sections", "dirs", "keys"}
  BY DEF Checks, Children
<1>9. ASSUME NEW r \in {"sections", "dirs", "keys"} PROVE ~Fails(r, c, f, e, d)
  BY <1>4, <1>5, <1>7 DEF Fails, Needs
<1> QED  BY <1>1, <1>8, <1>9 DEF Refusal

\* Of a file that the wizard wrote for these commands, a command refuses only
\* a reference to a variable that is unset or empty, a directory, or a
\* database that has room for one process.
LEMMA WizardFileAccepted ==
  ASSUME NEW p \in Procs, NEW f \in WizardFiles, NEW e, NEW d, Complete(f),
         \A v \in Refs(f) : e[v] \in {"unset", "", "text"}
  PROVE  LET R == Refusal(p, f, e, d)
         IN  /\ R \subseteq {"unset", "invalid", "sections", "dirs", "lite", "keys"}
             /\ R \cap {"invalid", "keys"} # {} => \E v \in Refs(f) : e[v] = ""
             /\ "sections" \in R => kind = "server" /\ p # "server"
             /\ "lite" \in R => p = "up"
<1> DEFINE R == Refusal(p, f, e, d)
<1>1. R \subseteq {"unset", "invalid", "sections", "dirs", "lite", "keys"}
  BY DEF Refusal, Checks, Procs
<1>2. ASSUME "invalid" \in R PROVE \E v \in Refs(f) : e[v] = ""
  <2>1. ~Unset(f, e) /\ Invalid(f, e)
    BY <1>2 DEF Refusal, Checks, Procs
  <2>2. PICK s \in f.sources : ~Blank(s.endpoint, e) /\ Blank(s.region, e)
    BY <2>1 DEF Invalid, WizardFiles
  <2>3. s \in WizardSources
    BY <2>2 DEF WizardFiles
  <2>4. s.endpoint # ""
    BY <2>2, <2>3 DEF Blank, Resolve, Vars
  <2>5. s.region = "AWS_REGION" /\ e["AWS_REGION"] \in {"", "unset"}
    BY <2>2, <2>3, <2>4 DEF WizardSources, Regions, Blank, Resolve, Vars
  <2>6. s.region \in Vars => s.region \in Refs(f)
    BY <2>2, SourceRefs
  <2>7. "AWS_REGION" \in Refs(f)
    BY <2>5, <2>6 DEF Vars
  <2> QED  BY <2>1, <2>5, <2>7 DEF Unset
<1>3. ASSUME "keys" \in R PROVE \E v \in Refs(f) : e[v] = ""
  <2>1. ~Unset(f, e) /\ MissingCredentials(f, e, Roles(p))
    BY <1>3 DEF Refusal, Fails
  <2>2. PICK s \in f.embedder \cup f.llm : s.type = "openai" /\ Blank(s.api_key, e)
    BY <2>1 DEF MissingCredentials, Roles
  <2>4. s.api_key \in {"OPENAI_API_KEY", "text"}
    BY <2>2 DEF WizardFiles, WizardModels
  <2>5. s.api_key = "OPENAI_API_KEY" /\ e["OPENAI_API_KEY"] \in {"", "unset"}
    BY <2>2, <2>4 DEF Blank, Resolve, Vars
  <2>6. "OPENAI_API_KEY" \in Refs(f)
    BY <2>2, <2>5 DEF Refs, Vars
  <2> QED  BY <2>1, <2>5, <2>6 DEF Unset
<1>4. ASSUME "sections" \in R PROVE kind = "server" /\ p # "server"
  <2>1. \E s \in Needs(p) : f[s] = {}
    BY <1>4 DEF Refusal, Fails
  <2> QED  BY <2>1 DEF Needs, Complete
<1>5. ASSUME "lite" \in R PROVE p = "up"
  BY <1>5 DEF Refusal, Checks, Procs
<1> QED  BY <1>1, <1>2, <1>3, <1>4, <1>5

\* And every constructor takes what the wizard wrote.
LEMMA WizardFileBuilds ==
  ASSUME NEW p, NEW f \in WizardFiles, NEW e PROVE ~BuildFails(p, f, e)
<1>1. \A s \in f.embedder : ~NoModel(s) /\ s.type \in Optional \cup {"openai", "litellm"}
  BY DEF WizardFiles, WizardModels, NoModel
<1>2. \A s \in f.llm : ~NoModel(s) /\ s.type \in {"openai", "litellm", "mock"}
  BY DEF WizardFiles, WizardModels, NoModel
<1>3. f.reranker = {} /\ f.decompose = FALSE
  BY DEF WizardFiles
<1>4. Chat(f) = {}
  BY <1>3 DEF Chat
<1>5. \A v \in f.vector_db : ~v.hybrid
  BY SetupAssumption DEF WizardFiles
<1> QED  BY <1>1, <1>2, <1>3, <1>4, <1>5 DEF BuildFails, UnknownEmbedder, UnknownLLM

-----------------------------------------------------------------------------
(* The wizard's steps.                                                     *)

\* The dialogue and the processes do not meet: a question is asked while no
\* command runs.
Quiet == step # "closed" /\ UNCHANGED <<wrote, procVars, file, edits>>

\* An answer that keeps the invariant of the dialogue keeps the whole one.
LEMMA DialogueStep ==
  ASSUME SetupInv, Quiet, dirs' \subseteq Dirs,
         step' \in {"type", "source"} \cup AfterSources \cup {"dir"},
         kind' \in {"universal", "indexer", "server"},
         asked' # "" <=> step' \in {"dir", "package", "model"},
         answers' \in WizardFiles,
         step' = "dir" => asked' \in Dirs,
         step' \in {"package", "model"} => asked' \in Offered,
         step' \in AfterSources /\ kind' # "server" => answers'.sources # {},
         step' \in AfterVectorDb => answers'.vector_db # {},
         step' \in AfterEmbedder => answers'.embedder # {}
  PROVE  SetupInv'
<1>1. wrote = {} /\ wrote' = {} /\ file' = file /\ edits' = edits
  BY DEF SetupInv, WizardInv, Quiet
<1>2. env' = env /\ stage' = stage /\ loaded' = loaded /\ why' = why
  BY DEF Quiet, procVars
<1>3. step' # "closed" /\ step # "closed"
  BY DEF Quiet, AfterSources, AfterVectorDb, AfterEmbedder
<1>4. \A p \in Procs : stage[p] = "off" /\ why[p] = {}
  BY <1>3 DEF SetupInv, WizardInv, TypeOK
<1>5. TypeOK'
  <2>1. step' \in {"type", "source", "dir", "vector_db", "embedder", "package", "model", "llm",
                   "license", "output", "closed"}
    BY DEF AfterSources, AfterVectorDb, AfterEmbedder
  <2> QED  BY <1>1, <1>2, <1>3, <2>1 DEF SetupInv, TypeOK
<1>6. ProcTypes'
  BY <1>2 DEF SetupInv, ProcTypes
<1>7. WizardInv'
  BY <1>1, <1>2, <1>3, <1>4 DEF WizardInv
<1>8. EnvInv'
  BY <1>2 DEF SetupInv, EnvInv
<1>9. UpInv'
  BY <1>2 DEF SetupInv, UpInv
<1>10. WizardFileRuns'
  BY <1>2, <1>4 DEF WizardFileRuns
<1>11. PreflightCovers'
  BY <1>2 DEF SetupInv, PreflightCovers
<1> QED  BY <1>5, <1>6, <1>7, <1>8, <1>9, <1>10, <1>11 DEF SetupInv

\* An answer leaves the other sections alone.
LEMMA KeepsSection ==
  ASSUME answers \in WizardFiles, NEW x,
         NEW section \in {"license", "sources", "vector_db", "embedder", "llm"},
         Keeps(section, x),
         section = "license" => x \in Texts,
         section = "sources" => x \subseteq WizardSources,
         section = "vector_db" => x \subseteq Backends,
         section = "embedder" => x \subseteq WizardModels(Optional \cup {"openai", "litellm"}),
         section = "llm" => x \subseteq WizardModels({"openai", "litellm", "mock"})
  PROVE  /\ answers' \in WizardFiles
         /\ answers'.sources = IF section = "sources" THEN x ELSE answers.sources
         /\ answers'.vector_db = IF section = "vector_db" THEN x ELSE answers.vector_db
         /\ answers'.embedder = IF section = "embedder" THEN x ELSE answers.embedder
<1>1. CASE section = "license"  BY <1>1 DEF Keeps, WizardFiles
<1>2. CASE section = "sources"  BY <1>2 DEF Keeps, WizardFiles
<1>3. CASE section = "vector_db"  BY <1>3 DEF Keeps, WizardFiles
<1>4. CASE section = "embedder"  BY <1>4 DEF Keeps, WizardFiles
<1>5. CASE section = "llm"  BY <1>5 DEF Keeps, WizardFiles
<1> QED  BY <1>1, <1>2, <1>3, <1>4, <1>5

\* What the questions about one source answer.
LEMMA SourceAnswers ==
  /\ \A d \in Dirs : Source("fs", d, "", "", "") \in WizardSources
  /\ \A endpoint \in {"", "text"} : \A region \in IF endpoint = "" THEN {""} ELSE Regions :
        Source("s3", "", endpoint, region, "AWS_ACCESS_KEY_ID") \in WizardSources
  /\ Source("gdrive", "", "", "", "") \in WizardSources
  BY DEF Source, WizardSources, Texts, Regions, Vars

\* What the questions about a model answer.
LEMMA ModelAnswers ==
  ASSUME NEW types, NEW type \in types, type \in Types
  PROVE  \A model \in Models(type), key \in Keys(type) :
            Section(type, model, key) \in WizardModels(types)
<1> SUFFICES ASSUME NEW model \in Models(type), NEW key \in Keys(type)
             PROVE  Section(type, model, key) \in WizardModels(types)
  OBVIOUS
<1>1. EnvRef(type) \in {"", "OPENAI_API_KEY", "GEMINI_API_KEY"}
  BY DEF EnvRef
<1>2. key \in Texts
  BY <1>1 DEF Keys, Texts, Vars
<1>3. type = "openai" => key \in {"OPENAI_API_KEY", "text"}
  BY DEF Keys, EnvRef
<1>4. model \in {"", "text"} /\ (type = "litellm" => model = "text")
  BY DEF Models
<1> QED  BY <1>2, <1>3, <1>4 DEF Section, WizardModels

\* Questions about the file as a whole, or about a source, keep the invariant.
LEMMA SourceQuestions ==
  ASSUME SetupInv, ConfigType \/ FsSource \/ ResolveMissingDir \/ S3Source \/ OtherSource \/ Done
  PROVE  SetupInv'
<1> USE DEF AfterSources, AfterVectorDb, AfterEmbedder
<1>0. /\ answers \in WizardFiles /\ dirs \subseteq Dirs
      /\ kind \in {"universal", "indexer", "server"} /\ (step = "dir" => asked \in Dirs)
  BY DEF SetupInv, TypeOK, WizardInv
<1>1. CASE ConfigType
  <2>1. Quiet /\ dirs' = dirs /\ answers' = answers /\ asked' = ""
    BY <1>1 DEF ConfigType, Dialogue, Quiet, Asks
  <2>2. kind' \in {"universal", "indexer", "server"} /\ step' = (IF kind' = "server" THEN "vector_db" ELSE "source")
    BY <1>1 DEF ConfigType, Asks
  <2> QED  BY <1>0, <2>1, <2>2, DialogueStep
<1>2. CASE Done
  <2>1. Quiet /\ dirs' = dirs /\ answers' = answers /\ kind' = kind /\ answers.sources # {}
        /\ asked' = "" /\ step' = "vector_db"
    BY <1>2 DEF Done, Dialogue, Quiet, Asks
  <2> QED  BY <1>0, <2>1, DialogueStep
<1>3. ASSUME NEW s \in WizardSources, Quiet, AddsSource(s), Asks("source"),
             kind' = kind, dirs' \subseteq Dirs
      PROVE  SetupInv'
  <2>1. answers.sources \cup {s} \subseteq WizardSources
    BY <1>0 DEF WizardFiles
  <2>2. answers' \in WizardFiles
    BY <1>0, <1>3, <2>1, KeepsSection DEF AddsSource
  <2> QED  BY <1>0, <1>3, <2>2, DialogueStep DEF Asks
<1>4. CASE FsSource
  <2>1. Quiet /\ dirs' = dirs /\ kind' = kind
    BY <1>4 DEF FsSource, MoreSources, Dialogue, Quiet
  <2>2. PICK d \in Dirs : IF d \in dirs
                            THEN AddsSource(Source("fs", d, "", "", "")) /\ Asks("source")
                            ELSE step' = "dir" /\ asked' = d /\ answers' = answers
    BY <1>4 DEF FsSource
  <2>3. CASE d \in dirs
    BY <1>0, <1>3, <2>1, <2>2, <2>3, SourceAnswers
  <2>4. CASE d \notin dirs
    <3>1. step' = "dir" /\ asked' = d /\ answers' = answers
      BY <2>2, <2>4
    <3>2. asked' # ""
      BY <3>1, SetupAssumption
    <3> QED  BY <1>0, <2>1, <3>1, <3>2, DialogueStep
  <2> QED  BY <2>3, <2>4
<1>5. CASE ResolveMissingDir
  <2>1. Quiet /\ kind' = kind /\ asked \in Dirs
    BY <1>0, <1>5 DEF ResolveMissingDir, Dialogue, Quiet
  <2>2. CASE dirs' \in {dirs, dirs \cup {asked}} /\ AddsSource(Source("fs", asked, "", "", "")) /\ Asks("source")
    BY <1>0, <1>3, <2>1, <2>2, SourceAnswers
  <2>3. CASE Asks("source") /\ UNCHANGED <<answers, dirs>>
    BY <1>0, <2>1, <2>3, DialogueStep DEF Asks
  <2> QED  BY <1>5, <2>2, <2>3 DEF ResolveMissingDir
<1>6. CASE S3Source
  <2>1. Quiet /\ dirs' = dirs /\ kind' = kind /\ Asks("source")
    BY <1>6 DEF S3Source, MoreSources, Dialogue, Quiet
  <2>2. PICK endpoint \in {"", "text"}, region \in Texts :
          /\ region \in IF endpoint = "" THEN {""} ELSE Regions
          /\ AddsSource(Source("s3", "", endpoint, region, "AWS_ACCESS_KEY_ID"))
    BY <1>6 DEF S3Source, Regions, Texts, Vars
  <2> QED  BY <1>0, <1>3, <2>1, <2>2, SourceAnswers
<1>7. CASE OtherSource
  <2>1. Quiet /\ dirs' = dirs /\ kind' = kind /\ Asks("source")
        /\ AddsSource(Source("gdrive", "", "", "", ""))
    BY <1>7 DEF OtherSource, MoreSources, Dialogue, Quiet
  <2> QED  BY <1>0, <1>3, <2>1, SourceAnswers
<1> QED  BY <1>1, <1>2, <1>4, <1>5, <1>6, <1>7

\* And so do the questions about the other sections.
LEMMA SectionQuestions ==
  ASSUME SetupInv,
         VectorDb \/ Embedder \/ EmbedderAvailable \/ EmbedderModel \/ ChatAnswers \/ LicenseKey
  PROVE  SetupInv'
<1> USE DEF AfterSources, AfterVectorDb, AfterEmbedder
<1>0. /\ answers \in WizardFiles /\ dirs \subseteq Dirs
      /\ kind \in {"universal", "indexer", "server"}
      /\ step \in {"package", "model"} => asked \in Offered
      /\ step \in AfterSources /\ kind # "server" => answers.sources # {}
      /\ step \in AfterVectorDb => answers.vector_db # {}
      /\ step \in AfterEmbedder => answers.embedder # {}
  BY DEF SetupInv, TypeOK, WizardInv
<1>1. /\ Quiet /\ kind' = kind /\ dirs' = dirs
      /\ step \in AfterSources
  BY DEF VectorDb, Embedder, EmbedderAvailable, EmbedderModel, ChatAnswers, LicenseKey, Dialogue, Quiet
<1>2. CASE VectorDb
  <2>1. PICK b \in Backends : Keeps("vector_db", {b})
    BY <1>2 DEF VectorDb
  <2>2. answers' \in WizardFiles /\ answers'.sources = answers.sources /\ answers'.vector_db = {b}
    BY <1>0, <2>1, KeepsSection
  <2>3. step' = "embedder" /\ asked' = ""
    BY <1>2 DEF VectorDb, Asks
  <2> QED  BY <1>0, <1>1, <2>2, <2>3, DialogueStep
<1>3. CASE Embedder
  <2>1. asked' \in Offered /\ step' \in {"package", "model"} /\ answers' = answers /\ step = "embedder"
    BY <1>3 DEF Embedder
  <2>2. asked' # ""
    BY <2>1, SetupAssumption DEF Optional
  <2> QED  BY <1>0, <1>1, <2>1, <2>2, DialogueStep
<1>4. CASE EmbedderAvailable
  <2>1. answers' = answers /\ step = "package" /\ asked # ""
    BY <1>4 DEF EmbedderAvailable, SetupInv, TypeOK
  <2>2. \/ step' = "model" /\ asked' = asked
        \/ step' = "embedder" /\ asked' = ""
    BY <1>4 DEF EmbedderAvailable, Asks
  <2> QED  BY <1>0, <1>1, <2>1, <2>2, DialogueStep
<1>5. CASE EmbedderModel
  <2>1. step = "model" /\ step' \in {"llm", "license"} /\ asked' = ""
    BY <1>5 DEF EmbedderModel, Asks
  <2>2. PICK model \in Models(asked), key \in Keys(asked) :
          Keeps("embedder", {Section(asked, model, key)})
    BY <1>5 DEF EmbedderModel
  <2>3. asked \in Optional \cup {"openai", "litellm"}
    BY <1>0, <2>1, SetupAssumption
  <2>4. Section(asked, model, key) \in WizardModels(Optional \cup {"openai", "litellm"})
    BY <2>3, ModelAnswers DEF Types
  <2>5. /\ answers' \in WizardFiles /\ answers'.sources = answers.sources
        /\ answers'.vector_db = answers.vector_db
        /\ answers'.embedder = {Section(asked, model, key)}
    BY <1>0, <2>2, <2>4, KeepsSection
  <2> QED  BY <1>0, <1>1, <2>1, <2>5, DialogueStep
<1>6. CASE ChatAnswers
  <2>1. step = "llm" /\ step' = "license" /\ asked' = ""
    BY <1>6 DEF ChatAnswers, Asks
  <2>2. PICK type \in {"openai", "litellm", "mock"}, model \in {"", "text"}, key \in Texts :
          /\ Keeps("llm", {Section(type, model, key)})
          /\ Section(type, model, key) \in WizardModels({"openai", "litellm", "mock"})
    <3>1. CASE Keeps("llm", {Section("mock", "", "")})
      BY <3>1 DEF Section, WizardModels, Texts
    <3>2. CASE \E type \in {"openai", "litellm"} : \E key \in Keys(type) :
                  Keeps("llm", {Section(type, "text", key)})
      <4>0. PICK type \in {"openai", "litellm"} : \E key \in Keys(type) :
              Keeps("llm", {Section(type, "text", key)})
        BY <3>2
      <4>1. PICK key \in Keys(type) : Keeps("llm", {Section(type, "text", key)})
        BY <4>0
      <4>2. "text" \in Models(type) /\ key \in Texts
        BY DEF Models, Keys, EnvRef, Texts, Vars, Optional
      <4> QED  BY <4>1, <4>2, ModelAnswers DEF Types
    <3> QED  BY <1>6, <3>1, <3>2 DEF ChatAnswers
  <2>3. /\ answers' \in WizardFiles /\ answers'.sources = answers.sources
        /\ answers'.vector_db = answers.vector_db /\ answers'.embedder = answers.embedder
    BY <1>0, <2>2, KeepsSection
  <2> QED  BY <1>0, <1>1, <2>1, <2>3, DialogueStep
<1>7. CASE LicenseKey
  <2>1. step = "license" /\ step' = "output" /\ asked' = ""
    BY <1>7 DEF LicenseKey, Asks
  <2>2. PICK key \in Texts : Keeps("license", key)
    BY <1>7 DEF LicenseKey, Texts, Vars
  <2>3. /\ answers' \in WizardFiles /\ answers'.sources = answers.sources
        /\ answers'.vector_db = answers.vector_db /\ answers'.embedder = answers.embedder
    BY <1>0, <2>2, KeepsSection
  <2> QED  BY <1>0, <1>1, <2>1, <2>3, DialogueStep
<1> QED  BY <1>2, <1>3, <1>4, <1>5, <1>6, <1>7

\* The end of a dialogue: the file it was about, or nothing.
LEMMA DialogueEnds ==
  ASSUME SetupInv, WriteFile \/ Abort PROVE SetupInv'
<1>1. Empty \in WizardFiles
  BY DEF Empty, WizardFiles, Texts
<1>2. step # "closed" /\ answers' = Empty /\ asked' = "" /\ UNCHANGED <<kind, procVars, dirs, edits>>
  BY DEF WriteFile, Abort
<1>3. env' = env /\ stage' = stage /\ loaded' = loaded /\ why' = why
  BY <1>2 DEF procVars
<1>4. \A p \in Procs : stage[p] = "off" /\ why[p] = {}
  BY <1>2 DEF SetupInv, WizardInv, TypeOK
<1>5. TypeOK' /\ WizardInv'
  <2>1. CASE WriteFile
    <3>1. /\ file' = {answers} /\ wrote' = {answers} /\ step' = "closed" /\ step \in AfterEmbedder
          /\ step \in AfterVectorDb /\ step \in AfterSources
      BY <2>1 DEF WriteFile, AfterEmbedder, AfterVectorDb, AfterSources
    <3>2. answers \in WizardFiles /\ Complete(answers)
      BY <3>1 DEF SetupInv, WizardInv, Complete
    <3>3. TypeOK'
      BY <1>2, <1>3, <3>1 DEF SetupInv, TypeOK
    <3>4. WizardInv'
      BY <1>1, <1>2, <1>3, <3>1, <3>2
      DEF WizardInv, Complete, AfterEmbedder, AfterVectorDb, AfterSources
    <3> QED  BY <3>3, <3>4
  <2>2. CASE Abort
    <3>1. file' = file /\ wrote' = wrote /\ step' = "type"
      BY <2>2 DEF Abort
    <3>2. wrote = {}
      BY <1>2 DEF SetupInv, WizardInv
    <3>3. TypeOK'
      BY <1>2, <1>3, <3>1 DEF SetupInv, TypeOK
    <3>4. WizardInv'
      BY <1>1, <1>2, <1>3, <1>4, <3>1, <3>2
      DEF WizardInv, AfterEmbedder, AfterVectorDb, AfterSources
    <3> QED  BY <3>3, <3>4
  <2> QED  BY <2>1, <2>2
<1>6. ProcTypes' /\ EnvInv' /\ UpInv'
  BY <1>3 DEF SetupInv, ProcTypes, EnvInv, UpInv
<1>7. WizardFileRuns'
  BY <1>3, <1>4 DEF WizardFileRuns
<1>8. PreflightCovers'
  BY <1>3 DEF SetupInv, PreflightCovers
<1> QED  BY <1>5, <1>6, <1>7, <1>8 DEF SetupInv

-----------------------------------------------------------------------------
(* The commands' steps.                                                    *)

\* While a command runs the dialogue is over, and stays as it was.
LEMMA WizardDone ==
  ASSUME SetupInv, UNCHANGED wizardVars,
         step = "closed" \/ \A p \in Procs : stage'[p] = "off"
  PROVE  WizardInv'
  BY DEF SetupInv, WizardInv, wizardVars, Complete

\* All processes are as if no command had been given, or just been given.
LEMMA FreshProcesses ==
  ASSUME SetupInv, UNCHANGED <<wizardVars, file, dirs, edits>>,
         NEW s \in {"off", "checking"}, NEW p \in Procs,
         stage' = [q \in Procs |-> IF q = p THEN s ELSE "off"],
         loaded' = [q \in Procs |-> Nothing], why' = [q \in Procs |-> {}],
         env' \in [DOMAIN env' -> {"unset", "", "text"}], "OPENAI_API_KEY" \in DOMAIN env',
         step = "closed" \/ s = "off"
  PROVE  SetupInv'
<1>1. \A q \in Procs : stage'[q] \in {"off", "checking"} /\ why'[q] = {} /\ loaded'[q] = Nothing
  OBVIOUS
<1>2. TypeOK'
  BY <1>1 DEF SetupInv, TypeOK, wizardVars
<1>3. ProcTypes'
  BY DEF ProcTypes
<1>4. WizardInv'
  BY <1>1, WizardDone
<1>5. EnvInv'
  BY <1>1 DEF EnvInv
<1>6. UpInv'
  BY <1>1 DEF UpInv, Procs, Children
<1>7. WizardFileRuns' /\ PreflightCovers'
  BY <1>1 DEF WizardFileRuns, PreflightCovers, Children, Procs
<1> QED  BY <1>2, <1>3, <1>4, <1>5, <1>6, <1>7 DEF SetupInv

\* A command is given: nothing is left of the one before.
LEMMA StartStep ==
  ASSUME SetupInv, NEW p \in Procs, Start(p) PROVE SetupInv'
<1>1. PICK f \in file : env' \in Shells(Refs(f) \cup {"OPENAI_API_KEY"})
  BY DEF Start
<1>2. env' \in [Refs(f) \cup {"OPENAI_API_KEY"} -> {"unset", "", "text"}]
  BY <1>1 DEF Shells
<1> QED  BY <1>2, FreshProcesses DEF Start

\* A command ends, and nothing is left of it.
LEMMA StopStep ==
  ASSUME SetupInv, Stop PROVE SetupInv'
<1>1. env' \in [{"OPENAI_API_KEY"} -> {"unset", "", "text"}]
  BY DEF Stop
<1>2. stage' = [q \in Procs |-> IF q = "up" THEN "off" ELSE "off"]
  BY DEF Stop
<1> QED  BY <1>1, <1>2, FreshProcesses DEF Stop, Procs

\* What WizardFileRuns says of one process.
FairlyRefused(p) ==
    {loaded[p].file} = wrote =>
        /\ "build" \notin why[p]
        /\ why[p] \cap {"invalid", "keys"} # {} => \E v \in Refs(loaded[p].file) : env[v] = ""
        /\ "sections" \in why[p] => kind = "server" /\ p # "server"
        /\ "lite" \in why[p] => p = "up"

\* The command p has come to a decision, for these reasons; the others know
\* what they knew, in an environment that may have grown.
Decides(p, s, reasons) ==
    /\ Becomes(p, s, reasons)
    /\ stage[p] \in {"checking", "building"} /\ s \in {"building", "running"}
    /\ \A q \in Procs \ {p} : loaded'[q] = loaded[q]
    /\ loaded' = [q \in Procs |-> loaded'[q]]
    /\ env' \in [DOMAIN env' -> {"unset", "", "text"}]
    /\ DOMAIN env \subseteq DOMAIN env' /\ \A v \in DOMAIN env : env'[v] = env[v]
    /\ Refs(loaded'[p].file) \subseteq DOMAIN env'
    /\ UNCHANGED <<wizardVars, file, dirs, edits>>

\* The other processes have still been refused for what they were refused for.
LEMMA OthersStand ==
  ASSUME SetupInv, NEW p \in Procs, NEW s, NEW reasons, Decides(p, s, reasons),
         NEW q \in Procs \ {p}
  PROVE  /\ stage'[q] = stage[q] /\ why'[q] = why[q] /\ loaded'[q] = loaded[q]
         /\ FairlyRefused(q)'
         /\ stage[q] \in {"building", "running", "refused"} =>
               /\ Refs(loaded[q].file) \subseteq DOMAIN env
               /\ Refusal(q, loaded[q].file, env', loaded[q].dirs)
                    = Refusal(q, loaded[q].file, env, loaded[q].dirs)
<1>1. stage'[q] = stage[q] /\ why'[q] = why[q] /\ loaded'[q] = loaded[q]
  BY DEF Decides, Becomes, SetupInv, ProcTypes
<1>2. stage[q] \in {"building", "running", "refused"} => Refs(loaded[q].file) \subseteq DOMAIN env
  BY DEF SetupInv, EnvInv
<1>3. stage[q] \in {"building", "running", "refused"} =>
        Refusal(q, loaded[q].file, env', loaded[q].dirs) = Refusal(q, loaded[q].file, env, loaded[q].dirs)
  <2> SUFFICES ASSUME stage[q] \in {"building", "running", "refused"}
               PROVE  Refusal(q, loaded[q].file, env', loaded[q].dirs)
                        = Refusal(q, loaded[q].file, env, loaded[q].dirs)
    OBVIOUS
  <2>1. \A v \in Refs(loaded[q].file) : env'[v] = env[v]
    BY <1>2 DEF Decides
  <2>2. env'["OPENAI_API_KEY"] = env["OPENAI_API_KEY"]
    BY DEF Decides, SetupInv, EnvInv
  <2> QED  BY <2>1, <2>2, SameRefusal
<1>4. why[q] # {} => stage[q] = "refused"
  BY DEF SetupInv, TypeOK
<1>5. FairlyRefused(q)
  BY DEF SetupInv, WizardFileRuns, FairlyRefused
<1>6. wrote' = wrote /\ kind' = kind
  BY DEF Decides, wizardVars
<1>7. ASSUME why[q] = {} PROVE FairlyRefused(q)'
  BY <1>1, <1>7 DEF FairlyRefused
<1>8. ASSUME why[q] # {} PROVE FairlyRefused(q)'
  <2>1. \A v \in Refs(loaded[q].file) : env'[v] = env[v]
    BY <1>2, <1>4, <1>8 DEF Decides
  <2> QED  BY <1>1, <1>5, <1>6, <2>1 DEF FairlyRefused
<1> QED  BY <1>1, <1>2, <1>3, <1>7, <1>8

\* A decision keeps the invariant when it is fair to a file of the wizard's,
\* up lets pass only what it has nothing against, and a child refuses what up
\* let pass only in its constructors.
LEMMA DecideStep ==
  ASSUME SetupInv, NEW p \in Procs, NEW s, NEW reasons, Decides(p, s, reasons),
         FairlyRefused(p)',
         p = "up" => stage[p] = "checking"
                     /\ (reasons = {} => Refusal("up", loaded'["up"].file, env', loaded'["up"].dirs) = {}),
         stage["up"] = "running" /\ p # "up" /\ loaded'[p] = loaded["up"] =>
            reasons \subseteq {"package", "build"}
  PROVE  SetupInv'
<1>1. /\ stage' = [stage EXCEPT ![p] = IF reasons = {} THEN s ELSE "refused"]
      /\ why' = [why EXCEPT ![p] = reasons]
      /\ stage[p] # "off" /\ s \in {"building", "running"}
  BY DEF Decides, Becomes
<1>2. /\ stage'[p] = (IF reasons = {} THEN s ELSE "refused")
      /\ why'[p] = reasons
  BY <1>1 DEF SetupInv, ProcTypes
<1>3. UNCHANGED <<wizardVars, file, dirs, edits>> /\ UNCHANGED <<step, kind, asked, wrote>>
  BY DEF Decides, wizardVars
<1>4. TypeOK'
  <2>1. ASSUME NEW q \in Procs
        PROVE  stage'[q] \in {"off", "checking", "building", "running", "refused"}
               /\ (why'[q] # {} <=> stage'[q] = "refused")
    <3>1. CASE q = p  BY <1>1, <1>2, <3>1
    <3>2. CASE q # p  BY <3>2, OthersStand DEF SetupInv, TypeOK
    <3> QED  BY <3>1, <3>2
  <2> QED  BY <1>3, <2>1 DEF SetupInv, TypeOK
<1>5. ProcTypes'
  <2>1. stage' \in [Procs -> {"off", "checking", "building", "running", "refused"}]
    BY <1>1 DEF SetupInv, ProcTypes
  <2>2. why' = [q \in Procs |-> why'[q]]
    BY <1>1 DEF SetupInv, ProcTypes
  <2> QED  BY <2>1, <2>2 DEF ProcTypes, Decides
<1>6. WizardInv'
  BY <1>1, <1>3, WizardDone DEF SetupInv, WizardInv
<1>7. EnvInv'
  <2>1. ASSUME NEW q \in Procs, stage'[q] \in {"building", "running", "refused"}
        PROVE  Refs(loaded'[q].file) \subseteq DOMAIN env'
    <3>1. CASE q = p  BY <3>1 DEF Decides
    <3>2. CASE q # p  BY <2>1, <3>2, OthersStand DEF Decides
    <3> QED  BY <3>1, <3>2
  <2>2. "OPENAI_API_KEY" \in DOMAIN env'
    BY DEF SetupInv, EnvInv, Decides
  <2> QED  BY <2>1, <2>2 DEF EnvInv, Decides
<1>8. UpInv'
  <2>1. CASE p = "up"
    <3>1. stage'["up"] \in {"building", "running", "refused"} /\ (stage'["up"] = "running" => reasons = {})
      BY <1>1, <1>2, <2>1
    <3> QED  BY <2>1, <3>1 DEF UpInv
  <2>2. CASE p # "up"
    <3>1. /\ stage'["up"] = stage["up"] /\ loaded'["up"] = loaded["up"]
          /\ stage["up"] = "running" =>
               Refusal("up", loaded["up"].file, env', loaded["up"].dirs)
                 = Refusal("up", loaded["up"].file, env, loaded["up"].dirs)
      BY <2>2, OthersStand DEF Procs
    <3>2. stage["up"] # "checking"
      BY <1>1, <2>2 DEF SetupInv, UpInv, Procs, Children
    <3> QED  BY <3>1, <3>2 DEF SetupInv, UpInv
  <2> QED  BY <2>1, <2>2
<1>9. WizardFileRuns'
  <2>1. \A q \in Procs : FairlyRefused(q)'
    BY OthersStand
  <2> QED  BY <2>1 DEF WizardFileRuns, FairlyRefused
<1>10. PreflightCovers'
  <2> SUFFICES ASSUME NEW c \in Children, stage'["up"] = "running", loaded'[c] = loaded'["up"]
               PROVE  why'[c] \subseteq {"package", "build"}
    BY DEF PreflightCovers
  <2>0. c \in Procs /\ c # "up" /\ "up" \in Procs
    BY DEF Children, Procs
  <2>1. CASE p = "up"
    <3>1. stage[c] = "off" /\ why[c] = {}
      BY <2>0, <2>1 DEF SetupInv, UpInv, TypeOK
    <3> QED  BY <2>0, <2>1, <3>1, OthersStand
  <2>2. CASE p = c
    <3>1. stage["up"] = "running" /\ loaded'[c] = loaded["up"]
      BY <2>0, <2>2, OthersStand
    <3> QED  BY <1>2, <2>0, <2>2, <3>1
  <2>3. CASE p # "up" /\ p # c
    <3>1. stage["up"] = "running" /\ loaded[c] = loaded["up"] /\ why'[c] = why[c]
      BY <2>0, <2>3, OthersStand
    <3> QED  BY <3>1 DEF SetupInv, PreflightCovers
  <2> QED  BY <2>1, <2>2, <2>3
<1> QED  BY <1>4, <1>5, <1>6, <1>7, <1>8, <1>9, <1>10 DEF SetupInv

\* A command loads the file that is there and looks at it: what it finds is
\* fair to a file of the wizard's, and a child of up that loads what up has
\* loaded finds nothing.
LEMMA CheckStep ==
  ASSUME SetupInv, NEW p \in Procs, Check(p) PROVE SetupInv'
<1>1. PICK f \in file :
        /\ env' \in Environments(f)
        /\ loaded' = [loaded EXCEPT ![p] = [file |-> f, dirs |-> dirs]]
        /\ Becomes(p, IF p = "up" THEN "running" ELSE "building", Refusal(p, f, env', dirs))
  BY DEF Check
<1> DEFINE s == IF p = "up" THEN "running" ELSE "building"
           R == Refusal(p, f, env', dirs)
<1>2. stage[p] = "checking" /\ UNCHANGED <<wizardVars, file, dirs, edits>>
  BY DEF Check
<1>3. loaded'[p] = [file |-> f, dirs |-> dirs]
  BY <1>1 DEF SetupInv, ProcTypes
<1>0. loaded'[p].file = f /\ loaded'[p].dirs = dirs
  <2> DEFINE new == [file |-> f, dirs |-> dirs]
  <2>1. new.file = f /\ new.dirs = dirs
    OBVIOUS
  <2>2. loaded'[p] = new
    BY <1>3
  <2> HIDE DEF new
  <2> QED  BY <2>1, <2>2
<1>4. /\ env' \in [DOMAIN env \cup Refs(f) -> {"unset", "", "text"}]
      /\ \A v \in DOMAIN env : env'[v] = env[v]
  BY <1>1 DEF Environments, Shells
<1>5. DOMAIN env' = DOMAIN env \cup Refs(f)
  BY <1>4
<1>6. Decides(p, s, R)
  <2>1. \A q \in Procs \ {p} : loaded'[q] = loaded[q]
    BY <1>1 DEF SetupInv, ProcTypes
  <2>2. loaded' = [q \in Procs |-> loaded'[q]]
    BY <1>1 DEF SetupInv, ProcTypes
  <2>3. Refs(loaded'[p].file) \subseteq DOMAIN env'
    BY <1>3, <1>5
  <2>4. env' \in [DOMAIN env' -> {"unset", "", "text"}] /\ DOMAIN env \subseteq DOMAIN env'
    BY <1>4, <1>5
  <2> QED  BY <1>1, <1>2, <1>4, <2>1, <2>2, <2>3, <2>4 DEF Decides
<1>7. why'[p] = R /\ wrote' = wrote /\ kind' = kind
  BY <1>1, <1>2 DEF Becomes, SetupInv, ProcTypes, wizardVars
<1>8. FairlyRefused(p)'
  <2> SUFFICES ASSUME {f} = wrote
               PROVE  /\ "build" \notin R
                      /\ R \cap {"invalid", "keys"} # {} => \E v \in Refs(f) : env'[v] = ""
                      /\ "sections" \in R => kind = "server" /\ p # "server"
                      /\ "lite" \in R => p = "up"
    <3> HIDE DEF R
    <3> QED  BY <1>7, <1>0 DEF FairlyRefused
  <2>1. f \in WizardFiles /\ Complete(f)
    BY DEF SetupInv, WizardInv
  <2>2. \A v \in Refs(f) : env'[v] \in {"unset", "", "text"}
    BY <1>4
  <2> HIDE DEF R
  <2>3. R \subseteq {"unset", "invalid", "sections", "dirs", "lite", "keys"}
    BY <2>1, <2>2, WizardFileAccepted DEF R
  <2>4. /\ R \cap {"invalid", "keys"} # {} => \E v \in Refs(f) : env'[v] = ""
        /\ "sections" \in R => kind = "server" /\ p # "server"
        /\ "lite" \in R => p = "up"
    BY <2>1, <2>2, WizardFileAccepted DEF R
  <2> QED  BY <2>3, <2>4
<1>9. p = "up" /\ R = {} => Refusal("up", loaded'["up"].file, env', loaded'["up"].dirs) = {}
  BY <1>3
<1>10. ASSUME stage["up"] = "running", p # "up", loaded'[p] = loaded["up"]
       PROVE  R \subseteq {"package", "build"}
  <2>1. loaded["up"].file = f /\ loaded["up"].dirs = dirs
    BY <1>3, <1>10
  <2>2. Refusal("up", f, env, dirs) = {} /\ Refs(f) \subseteq DOMAIN env /\ "OPENAI_API_KEY" \in DOMAIN env
    BY <1>10, <2>1 DEF SetupInv, UpInv, EnvInv, Procs
  <2>3. \A v \in Refs(f) : env'[v] = env[v]
    BY <1>4, <2>2
  <2>4. env'["OPENAI_API_KEY"] = env["OPENAI_API_KEY"]
    BY <1>4, <2>2
  <2>5. Refusal("up", f, env', dirs) = {}
    BY <2>2, <2>3, <2>4, SameRefusal DEF Procs
  <2>6. p \in Children
    BY <1>10 DEF Procs, Children
  <2> QED  BY <2>5, <2>6, ChildAsksLess
<1> HIDE DEF R, s
<1> QED  BY <1>2, <1>6, <1>8, <1>9, <1>10, DecideStep DEF R

\* The constructors refuse for reasons of their own, and none of them refuses
\* a file of the wizard's.
LEMMA BuildStep ==
  ASSUME SetupInv, NEW p \in Children, Build(p) PROVE SetupInv'
<1> DEFINE R == {r \in {"package", "build"} :
                   \/ r = "package" /\ NoPackage(p, loaded[p].file)
                   \/ r = "build" /\ BuildFails(p, loaded[p].file, env)}
<1>1. Becomes(p, "running", R) /\ stage[p] = "building"
  BY DEF Build
<1>2. UNCHANGED <<wizardVars, file, dirs, edits>> /\ env' = env /\ loaded' = loaded
  BY DEF Build
<1>3. p \in Procs /\ p # "up"
  BY DEF Procs, Children
<1>4. Decides(p, "running", R)
  BY <1>1, <1>2, <1>3 DEF Decides, SetupInv, ProcTypes, EnvInv
<1>5. why'[p] = R /\ wrote' = wrote /\ kind' = kind
  BY <1>1, <1>2, <1>3 DEF Becomes, SetupInv, ProcTypes, wizardVars
<1>6. FairlyRefused(p)'
  <2> SUFFICES ASSUME {loaded[p].file} = wrote PROVE "build" \notin R
    BY <1>2, <1>5 DEF FairlyRefused
  <2>1. loaded[p].file \in WizardFiles
    BY DEF SetupInv, WizardInv
  <2> QED  BY <2>1, WizardFileBuilds
<1>7. R \subseteq {"package", "build"}
  OBVIOUS
<1> HIDE DEF R
<1> QED  BY <1>3, <1>4, <1>6, <1>7, DecideStep

\* A child that has only been started has neither loaded nor refused anything.
LEMMA SpawnStep ==
  ASSUME SetupInv, NEW c \in Children, Spawn(c) PROVE SetupInv'
<1>1. /\ stage["up"] = "running" /\ stage[c] = "off"
      /\ stage' = [stage EXCEPT ![c] = "checking"]
      /\ UNCHANGED <<wizardVars, file, dirs, edits, env, loaded, why>>
  BY DEF Spawn
<1>2. c \in Procs /\ c # "up" /\ "up" \in Procs
  BY DEF Procs, Children
<1>3. \A p \in Procs : stage'[p] = IF p = c THEN "checking" ELSE stage[p]
  BY <1>1 DEF SetupInv, ProcTypes
<1>4. TypeOK'
  <2>1. ASSUME NEW p \in Procs
        PROVE  stage'[p] \in {"off", "checking", "building", "running", "refused"}
               /\ (why'[p] # {} <=> stage'[p] = "refused")
    <3>0. stage[p] \in {"off", "checking", "building", "running", "refused"}
          /\ (why[p] # {} <=> stage[p] = "refused") /\ why' = why
      BY <1>1 DEF SetupInv, TypeOK
    <3>1. CASE p = c
      BY <1>1, <1>3, <3>0, <3>1
    <3>2. CASE p # c
      BY <1>3, <3>0, <3>2
    <3> QED  BY <3>1, <3>2
  <2>2. UNCHANGED <<step, kind, asked, wrote, dirs, edits, file>>
    BY <1>1 DEF wizardVars
  <2> QED  BY <2>1, <2>2 DEF SetupInv, TypeOK
<1>5. ProcTypes'
  BY <1>1 DEF SetupInv, ProcTypes
<1>6. WizardInv'
  BY <1>1, <1>2, WizardDone DEF SetupInv, WizardInv
<1>7. EnvInv' /\ UpInv'
  <2>1. stage'["up"] = "running" /\ loaded' = loaded /\ env' = env
    BY <1>1, <1>2, <1>3
  <2>2. EnvInv'
    <3>1. \A p \in Procs : stage'[p] \in {"building", "running", "refused"} => stage[p] = stage'[p]
      BY <1>3
    <3>2. \A p \in Procs : stage'[p] \in {"building", "running", "refused"} =>
                               Refs(loaded[p].file) \subseteq DOMAIN env
      BY <3>1 DEF SetupInv, EnvInv
    <3> QED  BY <2>1, <3>2 DEF SetupInv, EnvInv
  <2>3. UpInv'
    BY <1>1, <2>1 DEF SetupInv, UpInv
  <2> QED  BY <2>2, <2>3
<1>8. WizardFileRuns' /\ PreflightCovers'
  BY <1>1, <1>2, <1>3 DEF SetupInv, WizardFileRuns, PreflightCovers, wizardVars
<1> QED  BY <1>4, <1>5, <1>6, <1>7, <1>8 DEF SetupInv

\* What the user does meanwhile changes nothing that has been loaded.
LEMMA UserStep ==
  ASSUME SetupInv, EditFile \/ ChangeDir PROVE SetupInv'
<1>1. /\ UNCHANGED <<wizardVars, procVars>> /\ UNCHANGED <<step, kind, asked, wrote>>
      /\ UNCHANGED <<env, stage, loaded, why>>
  BY DEF EditFile, ChangeDir, wizardVars, procVars
<1>2. stage["up"] = "running" /\ edits' \in 0..MaxEdits
  <2>1. edits \in 0..MaxEdits /\ MaxEdits \in Nat
    BY SetupAssumption DEF SetupInv, TypeOK
  <2>2. stage["up"] = "running" /\ edits < MaxEdits /\ edits' = edits + 1
    BY DEF EditFile, ChangeDir, Meanwhile
  <2> QED  BY <2>1, <2>2
<1>3. step = "closed"
  BY <1>2 DEF SetupInv, WizardInv, Procs
<1>4. dirs' \subseteq Dirs /\ (file' = {} <=> file = {})
  <2>1. CASE EditFile
    BY <1>3, <2>1 DEF EditFile, SetupInv, TypeOK
  <2>2. CASE ChangeDir
    BY <2>2 DEF ChangeDir, SetupInv, TypeOK
  <2> QED  BY <2>1, <2>2
<1>5. TypeOK'
  BY <1>1, <1>2, <1>4 DEF SetupInv, TypeOK
<1>6. ProcTypes' /\ EnvInv' /\ UpInv'
  BY <1>1 DEF SetupInv, ProcTypes, EnvInv, UpInv
<1>7. WizardInv'
  BY <1>1, <1>3, WizardDone
<1>8. WizardFileRuns' /\ PreflightCovers'
  BY <1>1 DEF SetupInv, WizardFileRuns, PreflightCovers
<1> QED  BY <1>5, <1>6, <1>7, <1>8 DEF SetupInv

-----------------------------------------------------------------------------
(* The theorems.                                                           *)

\* Before the wizard, and before any command, nothing has been refused.
LEMMA SetupInit == Init => SetupInv
<1> SUFFICES ASSUME Init PROVE SetupInv
  OBVIOUS
<1>1. \A p \in Procs : stage[p] = "off" /\ why[p] = {} /\ loaded[p] = Nothing
  BY DEF Init
<1>2. TypeOK
  <2>1. edits \in 0..MaxEdits
    <3>1. edits = 0 /\ MaxEdits \in Nat
      BY SetupAssumption DEF Init
    <3> QED  BY <3>1
  <2>2. file = {} <=> wrote = {} /\ step # "closed"
    BY DEF Init
  <2> QED  BY <1>1, <2>1, <2>2 DEF Init, TypeOK
<1>3. ProcTypes
  BY DEF Init, ProcTypes
<1>4. answers \in WizardFiles
  BY DEF Init, Empty, WizardFiles, Texts
<1>5. WizardInv
  BY <1>1, <1>4 DEF Init, WizardInv, AfterSources, AfterVectorDb, AfterEmbedder
<1>6. EnvInv /\ UpInv
  BY <1>1 DEF Init, EnvInv, UpInv, Procs
<1>7. WizardFileRuns /\ PreflightCovers
  BY <1>1 DEF WizardFileRuns, PreflightCovers, Children, Procs
<1> QED  BY <1>2, <1>3, <1>5, <1>6, <1>7 DEF SetupInv

\* Every step of the dialogue, of a command or of the user keeps the invariant.
LEMMA SetupNext ==
  ASSUME SetupInv, [Next]_vars PROVE SetupInv'
<1>1. CASE Question
  BY <1>1, SourceQuestions, SectionQuestions DEF Question
<1>2. CASE WriteFile \/ Abort
  BY <1>2, DialogueEnds
<1>3. ASSUME NEW p \in Procs, Start(p) \/ Check(p) PROVE SetupInv'
  BY <1>3, StartStep, CheckStep
<1>4. ASSUME NEW c \in Children, Build(c) \/ Spawn(c) PROVE SetupInv'
  BY <1>4, BuildStep, SpawnStep
<1>5. CASE Stop \/ EditFile \/ ChangeDir
  BY <1>5, StopStep, UserStep
<1>6. CASE UNCHANGED vars
  <2>1. UNCHANGED <<step, kind, answers, asked, wrote, file, dirs, edits>>
    BY <1>6 DEF vars, wizardVars
  <2>2. UNCHANGED <<env, stage, loaded, why>>
    BY <1>6 DEF vars, procVars
  <2>3. TypeOK'
    BY <2>1, <2>2 DEF SetupInv, TypeOK
  <2>4. ProcTypes' /\ EnvInv' /\ UpInv'
    BY <2>2 DEF SetupInv, ProcTypes, EnvInv, UpInv
  <2>5. WizardInv'
    BY <2>1, <2>2 DEF SetupInv, WizardInv, Complete
  <2>6. WizardFileRuns' /\ PreflightCovers'
    BY <2>1, <2>2 DEF SetupInv, WizardFileRuns, PreflightCovers
  <2> QED  BY <2>3, <2>4, <2>5, <2>6 DEF SetupInv
<1> QED  BY <1>1, <1>2, <1>3, <1>4, <1>5, <1>6 DEF Next

\* The dialogue, the environment and the processes keep the invariant.
THEOREM SetupInvariance == Spec => []SetupInv
  BY SetupInit, SetupNext, PTL DEF Spec

\* The dialogue asks about something only in a question of its own, and a
\* process has reasons exactly when it has refused.
THEOREM TypeCorrect == Spec => []TypeOK
<1>1. SetupInv => TypeOK
  BY DEF SetupInv
<1> QED  BY <1>1, SetupInvariance, PTL

\* wizard.py:139-266: whatever is answered, and whatever is installed, offered
\* and exported, a command refuses the file the wizard wrote only for what is
\* outside of the file, or because it was made for another command.
THEOREM WizardGuarantee == Spec => []WizardFileRuns
<1>1. SetupInv => WizardFileRuns
  BY DEF SetupInv
<1> QED  BY <1>1, SetupInvariance, PTL

\* up.py:542-559: for any file a user may have written, a child of up refuses
\* what up let pass only if the file or a directory has changed since.
THEOREM PreflightGuarantee == Spec => []PreflightCovers
<1>1. SetupInv => PreflightCovers
  BY DEF SetupInv
<1> QED  BY <1>1, SetupInvariance, PTL
=============================================================================
