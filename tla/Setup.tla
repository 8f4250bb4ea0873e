-------------------------------- MODULE Setup --------------------------------
(***************************************************************************)
(* From the wizard's questions (wizard.py) through the configuration file  *)
(* (config/schema.py) to the commands that load it: indexer, server, and   *)
(* up, whose two children load it again, later, each for itself.           *)
(*                                                                         *)
(* A text is "" (blank), "text", or the name of an environment variable    *)
(* the file refers to as ${NAME}. A section of the file is a set with at   *)
(* most one record. Everything a section may hold that pydantic refuses    *)
(* whatever the environment is (an unknown key, a missing one, a number    *)
(* out of range) is one flag, malformed.                                   *)
(***************************************************************************)
EXTENDS Naturals, FiniteSets

CONSTANTS
    Dirs,          \* directories a source may name
    Handwritten,   \* files a user writes instead of the wizard's, or edits into it
    Installed,     \* embedder types whose optional package is installed
    Offered,       \* embedder types that are chosen in the wizard
    Backends,      \* vector databases that are chosen there
    MaxSources,    \* bound: sources the wizard is told
    MaxMissing,    \* bound: variables of a shell that are unset or empty
    MaxEdits       \* bound: changes of the file or of a directory

Vars == {"OPENAI_API_KEY", "GEMINI_API_KEY", "AWS_ACCESS_KEY_ID", "AWS_REGION",
         "PINECONE_API_KEY", "PATHWAY_LICENSE_KEY"}

Procs == {"up", "indexer", "server"}
Children == {"indexer", "server"}
Optional == {"sentence_transformer", "gemini", "bedrock"}

ASSUME SetupAssumption ==
    /\ "" \notin Dirs   \* the answer to a path may not be blank
    /\ Installed \subseteq Optional
    /\ Offered \subseteq Optional \cup {"openai", "litellm"}
    /\ \A b \in Backends : b.hybrid = FALSE   \* no question is about it
    /\ MaxSources \in Nat \ {0} /\ MaxMissing \in Nat /\ MaxEdits \in Nat

VARIABLES
    step,     \* the wizard's next question, or closed
    kind,     \* its first answer: universal, indexer or server
    answers,  \* the others, as the file they make
    asked,    \* the directory, or the embedder, a question is about
    file,     \* the file on disk, {} before there is one
    wrote,    \* ghost: what the wizard wrote there
    dirs,     \* directories that exist
    env,      \* the environment of the command, as far as it looks at it
    stage,    \* of each process: off, checking, building, running, refused
    loaded,   \* what it has loaded, and the directories it found
    why,      \* the reasons for which it refused
    edits

wizardVars == <<step, kind, answers, asked, wrote>>
procVars == <<env, stage, loaded, why>>
vars == <<wizardVars, procVars, file, dirs, edits>>

-----------------------------------------------------------------------------
(* config/schema.py: loading, and what the commands ask of a file.         *)

Empty == [license |-> "", sources |-> {}, vector_db |-> {}, embedder |-> {}, llm |-> {},
          reranker |-> {}, decompose |-> FALSE, malformed |-> FALSE]

\* The environment variables a file refers to.
Refs(f) ==
    Vars \cap
      ({f.license}
       \cup (UNION {{s.endpoint, s.region, s.access_key} : s \in f.sources})
       \cup {s.api_key : s \in f.vector_db}
       \cup {s.api_key : s \in f.embedder \cup f.llm \cup f.reranker})

\* interpolate_env: what stands in a reference's place.
Resolve(text, e) == IF text \in Vars THEN e[text] ELSE text

Blank(text, e) == Resolve(text, e) \in {"", "unset"}

\* MissingEnvVarError.
Unset(f, e) == \E v \in Refs(f) : e[v] = "unset"

\* ServietteConfig.model_validate.
Invalid(f, e) ==
    \/ f.malformed
    \/ \E s \in f.sources : ~Blank(s.endpoint, e) /\ Blank(s.region, e)

Needs(p) == IF p = "server" THEN {"vector_db", "embedder"} ELSE {"sources", "vector_db", "embedder"}

MissingDirs(f, d) == {s.path : s \in {x \in f.sources : x.type = "fs"}} \ d

IsLite(v) == v.type = "milvus" /\ v.lite

\* Mutated form: the parent asks for the key of the indexer only.
Roles_Embeds(p) == IF p = "server" THEN {"embedder", "llm"} ELSE {"embedder"}

\* The sections that a command may need an OpenAI key for.
Roles(p) == IF p = "indexer" THEN {"embedder"} ELSE {"embedder", "llm"}

MissingCredentials(f, e, roles) ==
    /\ Blank("OPENAI_API_KEY", e)
    /\ \E r \in roles : \E s \in f[r] : s.type = "openai" /\ Blank(s.api_key, e)

Checks(p) ==
    CASE p = "up"      -> {"sections", "dirs", "lite", "keys"}
      [] p = "indexer" -> {"sections", "dirs", "keys"}
      [] p = "server"  -> {"sections", "keys"}

Fails(r, p, f, e, d) ==
    CASE r = "sections" -> \E s \in Needs(p) : f[s] = {}
      [] r = "dirs"     -> MissingDirs(f, d) # {}
      [] r = "lite"     -> \E v \in f.vector_db : IsLite(v)
      [] r = "keys"     -> MissingCredentials(f, e, Roles(p))

\* Why p refuses f before it does anything, {} if it does not: all the
\* reasons, of which the program names the first.
Refusal(p, f, e, d) ==
    IF Unset(f, e) THEN {"unset"}
    ELSE IF Invalid(f, e) THEN {"invalid"}
    ELSE {r \in Checks(p) : Fails(r, p, f, e, d)}

-----------------------------------------------------------------------------
(* The constructors of what the sections name, and the warm-up.            *)

NoModel(s) == s.type = "litellm" /\ s.model = ""

UnknownEmbedder(f) ==
    \E s \in f.embedder : s.type \notin Optional \cup {"openai", "litellm", "mock"}

UnknownLLM(f) == \E s \in f.llm : s.type \notin {"openai", "litellm", "mock"}

\* LLMReranker._ensure_chat: its section laid over that of the LLM.
Chat(f) ==
    {[type    |-> IF f.llm = {} THEN "openai" ELSE (CHOOSE l \in f.llm : TRUE).type,
      model   |-> IF r.model # "" \/ f.llm = {} THEN r.model ELSE (CHOOSE l \in f.llm : TRUE).model,
      api_key |-> IF r.api_key # "" \/ f.llm = {} THEN r.api_key
                  ELSE (CHOOSE l \in f.llm : TRUE).api_key] :
        r \in {x \in f.reranker : x.type = "llm"}}

\* Imported by the indexer's embedder, and by the warm-up of a local one and
\* of a cross-encoder.
NoPackage(p, f) ==
    \/ \E s \in f.embedder :
         /\ s.type \in Optional \ Installed
         /\ p = "server" => s.type = "sentence_transformer"
    \/ /\ p = "server" /\ "sentence_transformer" \notin Installed
       /\ \E x \in f.reranker : x.type = "cross_encoder"

BuildFails(p, f, e) ==
    \/ \E s \in f.embedder : NoModel(s)
    \/ UnknownEmbedder(f)
    \/ /\ p = "server"
       /\ \/ UnknownLLM(f)
          \/ \E s \in f.llm \cup Chat(f) : NoModel(s)
          \/ \E v \in f.vector_db : v.type = "pinecone" /\ v.hybrid
          \/ \E x \in f.reranker : x.type \notin {"llm", "cross_encoder"}
          \/ f.decompose /\ f.llm = {}
          \/ \E c \in Chat(f) : c.type = "openai" /\ c.api_key = "" /\ e["OPENAI_API_KEY"] = "unset"

-----------------------------------------------------------------------------
(* The wizard: one action per question.                                    *)

NeedsIndexer == kind \in {"universal", "indexer"}
NeedsServer == kind \in {"universal", "server"}

Asks(s) == step' = s /\ asked' = ""

\* The dialogue goes on with an answer the file will hold.
Keeps(section, x) == answers' = [answers EXCEPT ![section] = x]

Dialogue == UNCHANGED <<wrote, procVars, file, edits>>

ConfigType ==
    /\ step = "type"
    /\ kind' \in {"universal", "indexer", "server"}
    /\ Asks(IF kind' = "server" THEN "vector_db" ELSE "source")
    /\ UNCHANGED <<answers, dirs>> /\ Dialogue

AddsSource(s) == Keeps("sources", answers.sources \cup {s})

Source(type, path, endpoint, region, key) ==
    [type |-> type, path |-> path, endpoint |-> endpoint, region |-> region, access_key |-> key]

MoreSources == step = "source" /\ Cardinality(answers.sources) < MaxSources

\* A directory that does not exist is a question of its own.
FsSource ==
    /\ MoreSources
    /\ \E d \in Dirs :
         IF d \in dirs
         THEN /\ AddsSource(Source("fs", d, "", "", ""))
              /\ Asks("source")
         ELSE step' = "dir" /\ asked' = d /\ answers' = answers
    /\ UNCHANGED <<kind, dirs>> /\ Dialogue

\* Create it now, and that may fail; keep it as typed; or another path.
ResolveMissingDir ==
    /\ step = "dir"
    /\ \/ /\ dirs' = dirs \cup {asked}
          /\ AddsSource(Source("fs", asked, "", "", "")) /\ Asks("source")
       \/ /\ AddsSource(Source("fs", asked, "", "", "")) /\ Asks("source")
          /\ dirs' = dirs
       \/ Asks("source") /\ UNCHANGED <<answers, dirs>>
    /\ UNCHANGED kind /\ Dialogue

\* A default that cannot be blanked, or what the user types in its place.
Regions == {"text", "AWS_REGION"}

S3Source ==
    /\ MoreSources
    /\ \E endpoint \in {"", "text"} :
         \E region \in IF endpoint = "" THEN {""} ELSE Regions :
            AddsSource(Source("s3", "", endpoint, region, "AWS_ACCESS_KEY_ID"))
    /\ Asks("source")
    /\ UNCHANGED <<kind, dirs>> /\ Dialogue

\* Google Drive, SharePoint and PyFilesystem.
OtherSource ==
    /\ MoreSources
    /\ AddsSource(Source("gdrive", "", "", "", ""))
    /\ Asks("source")
    /\ UNCHANGED <<kind, dirs>> /\ Dialogue

Done ==
    /\ step = "source" /\ answers.sources # {}
    /\ Asks("vector_db")
    /\ UNCHANGED <<kind, answers, dirs>> /\ Dialogue

Backend(type, lite, key) == [type |-> type, lite |-> lite, hybrid |-> FALSE, api_key |-> key]

VectorDb ==
    /\ step = "vector_db"
    /\ \E b \in Backends : Keeps("vector_db", {b})
    /\ Asks("embedder")
    /\ UNCHANGED <<kind, dirs>> /\ Dialogue

\* An embedder whose package is missing is a question of its own.
Embedder ==
    /\ step = "embedder"
    /\ asked' \in Offered
    /\ step' = IF asked' \in Optional \ Installed THEN "package" ELSE "model"
    /\ UNCHANGED <<kind, answers, dirs>> /\ Dialogue

EmbedderAvailable ==
    /\ step = "package"
    /\ \/ step' = "model" /\ asked' = asked
       \/ Asks("embedder")
    /\ UNCHANGED <<kind, answers, dirs>> /\ Dialogue

EnvRef(type) ==
    CASE type \in {"openai", "litellm"} -> "OPENAI_API_KEY"
      [] type = "gemini" -> "GEMINI_API_KEY"
      [] OTHER -> ""

\* Mutated form: the model may be left blank for every type.
Models_Any(type) == {"", "text"}

\* LiteLLM has no default, and a local model is picked from a list.
Models(type) ==
    IF type \in {"litellm", "sentence_transformer"} THEN {"text"}
    ELSE IF type = "bedrock" THEN {""}
    ELSE {"", "text"}

Keys(type) == IF EnvRef(type) = "" THEN {""} ELSE {EnvRef(type), "text"}

Section(type, model, key) == [type |-> type, model |-> model, api_key |-> key]

EmbedderModel ==
    /\ step = "model"
    /\ \E model \in Models(asked), key \in Keys(asked) :
         Keeps("embedder", {Section(asked, model, key)})
    /\ Asks(IF NeedsServer THEN "llm" ELSE "license")
    /\ UNCHANGED <<kind, dirs>> /\ Dialogue

ChatAnswers ==
    /\ step = "llm"
    /\ \/ Keeps("llm", {Section("mock", "", "")})
       \/ \E type \in {"openai", "litellm"} : \E key \in Keys(type) :
            Keeps("llm", {Section(type, "text", key)})
    /\ Asks("license")
    /\ UNCHANGED <<kind, dirs>> /\ Dialogue

\* A reference is the default where the variable is set.
LicenseKey ==
    /\ step = "license"
    /\ \E key \in {"PATHWAY_LICENSE_KEY", "text"} : Keeps("license", key)
    /\ Asks("output")
    /\ UNCHANGED <<kind, dirs>> /\ Dialogue

\* main: build_config and the file, in the place of what was there.
WriteFile ==
    /\ step = "output"
    /\ file' = {answers} /\ wrote' = {answers}
    /\ step' = "closed" /\ answers' = Empty /\ asked' = ""
    /\ UNCHANGED <<kind, procVars, dirs, edits>>

\* Ctrl-C, and the wizard again: nothing is written, a directory that was
\* created stays.
Abort ==
    /\ step \notin {"type", "closed"}
    /\ step' = "type" /\ answers' = Empty /\ asked' = ""
    /\ UNCHANGED <<kind, wrote, procVars, file, dirs, edits>>

-----------------------------------------------------------------------------
(* The commands.                                                           *)

Nothing == [file |-> Empty, dirs |-> {}]

\* What a shell may export of a set of variables.
Shells(names) ==
    {e \in [names -> {"unset", "", "text"}] :
        Cardinality({v \in names : e[v] # "text"}) <= MaxMissing}

\* A command is given in a shell: its environment is its own, and its
\* children's.
Start(p) ==
    /\ step = "closed"
    /\ \A q \in Procs : stage[q] \in {"off", "refused"}
    /\ \E f \in file : env' \in Shells(Refs(f) \cup {"OPENAI_API_KEY"})
    /\ stage' = [q \in Procs |-> IF q = p THEN "checking" ELSE "off"]
    /\ loaded' = [q \in Procs |-> Nothing] /\ why' = [q \in Procs |-> {}]
    /\ UNCHANGED <<wizardVars, file, dirs, edits>>

Becomes(p, s, reasons) ==
    /\ stage' = [stage EXCEPT ![p] = IF reasons = {} THEN s ELSE "refused"]
    /\ why' = [why EXCEPT ![p] = reasons]

\* The variables a file has been edited to refer to are those of the shell,
\* whatever they are there.
Environments(f) ==
    {e \in Shells(DOMAIN env \cup Refs(f)) : \A v \in DOMAIN env : e[v] = env[v]}

\* The file is loaded and looked at, before anything else is done.
Check(p) ==
    /\ stage[p] = "checking"
    /\ \E f \in file :
         /\ env' \in Environments(f)
         /\ loaded' = [loaded EXCEPT ![p] = [file |-> f, dirs |-> dirs]]
         /\ Becomes(p, IF p = "up" THEN "running" ELSE "building", Refusal(p, f, env', dirs))
    /\ UNCHANGED <<wizardVars, file, dirs, edits>>

\* build_graph, or create_app and the warm-up.
Build(p) ==
    /\ stage[p] = "building"
    /\ Becomes(p, "running",
         {r \in {"package", "build"} :
            \/ r = "package" /\ NoPackage(p, loaded[p].file)
            \/ r = "build" /\ BuildFails(p, loaded[p].file, env)})
    /\ UNCHANGED <<wizardVars, file, dirs, edits, env, loaded>>

\* up starts the indexer when the user has confirmed a changed fingerprint,
\* and the server when there is an index, or after index_wait_timeout.
Spawn(c) ==
    /\ stage["up"] = "running" /\ stage[c] = "off"
    /\ c = "server" => stage["indexer"] = "running"
    /\ stage' = [stage EXCEPT ![c] = "checking"]
    /\ UNCHANGED <<wizardVars, file, dirs, edits, env, loaded, why>>

\* Ctrl-C, or the end of a child.
Stop ==
    /\ \E p \in Procs : stage[p] # "off"
    /\ stage' = [q \in Procs |-> "off"] /\ env' = [v \in {"OPENAI_API_KEY"} |-> "unset"]
    /\ loaded' = [q \in Procs |-> Nothing] /\ why' = [q \in Procs |-> {}]
    /\ UNCHANGED <<wizardVars, file, dirs, edits>>

\* The user, while up runs: only there is the file loaded more than once.
Meanwhile == edits < MaxEdits /\ stage["up"] = "running"

EditFile ==
    /\ Meanwhile
    /\ \E f \in Handwritten : {f} # file /\ file' = {f}
    /\ edits' = edits + 1
    /\ UNCHANGED <<wizardVars, procVars, dirs>>

ChangeDir ==
    /\ Meanwhile
    /\ \E d \in Dirs : dirs' = IF d \in dirs THEN dirs \ {d} ELSE dirs \cup {d}
    /\ edits' = edits + 1
    /\ UNCHANGED <<wizardVars, procVars, file>>

-----------------------------------------------------------------------------
Init ==
    /\ \/ step = "type" /\ file = {}
       \/ step = "closed" /\ \E f \in Handwritten : file = {f}
    /\ kind = "universal" /\ answers = Empty /\ asked = "" /\ wrote = {}
    /\ dirs \in SUBSET Dirs
    /\ env = [v \in {"OPENAI_API_KEY"} |-> "unset"]
    /\ stage = [q \in Procs |-> "off"]
    /\ loaded = [q \in Procs |-> Nothing]
    /\ why = [q \in Procs |-> {}]
    /\ edits = 0

Question ==
    \/ ConfigType \/ FsSource \/ ResolveMissingDir \/ S3Source \/ OtherSource \/ Done
    \/ VectorDb \/ Embedder \/ EmbedderAvailable \/ EmbedderModel \/ ChatAnswers \/ LicenseKey

Next ==
    \/ Question \/ WriteFile \/ Abort
    \/ \E p \in Procs : Start(p) \/ Check(p)
    \/ \E c \in Children : Build(c) \/ Spawn(c)
    \/ Stop \/ EditFile \/ ChangeDir

Spec == Init /\ [][Next]_vars

-----------------------------------------------------------------------------
(* What the code is expected to guarantee.                                 *)

\* The dialogue has an answer to ask about only inside a question of its own,
\* and a process has reasons exactly when it has refused.
TypeOK ==
    /\ step \in {"type", "source", "dir", "vector_db", "embedder", "package", "model", "llm",
                 "license", "output", "closed"}
    /\ kind \in {"universal", "indexer", "server"}
    /\ asked # "" <=> step \in {"dir", "package", "model"}
    /\ dirs \subseteq Dirs /\ edits \in 0..MaxEdits
    /\ file = {} <=> wrote = {} /\ step # "closed"
    /\ \A p \in Procs : stage[p] \in {"off", "checking", "building", "running", "refused"}
    /\ \A p \in Procs : why[p] # {} <=> stage[p] = "refused"

\* wizard.py:139-266: whatever is answered, a command refuses a file just as
\* the wizard wrote it, or fails to start with it, only for what is outside
\* of the file (a variable that is unset or empty, a directory, a package)
\* or because the file was made for another command; never because the
\* wizard wrote what the schema or a constructor does not take.
WizardFileRuns ==
    \A p \in Procs : {loaded[p].file} = wrote =>
        /\ "build" \notin why[p]
        /\ why[p] \cap {"invalid", "keys"} # {} => \E v \in Refs(loaded[p].file) : env[v] = ""
        /\ "sections" \in why[p] => kind = "server" /\ p # "server"
        /\ "lite" \in why[p] => p = "up"

\* up.py:542-559: up asks first what its children are going to ask, each of
\* them later and of the file as it is then: a child refuses what up let pass
\* only if the file or a directory has changed since, or for what only its
\* own constructors look at.
PreflightCovers ==
    \A c \in Children :
        stage["up"] = "running" /\ loaded[c] = loaded["up"] => why[c] \subseteq {"package", "build"}
=============================================================================
