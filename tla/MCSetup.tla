------------------------------- MODULE MCSetup -------------------------------
(* Files a user may write by hand, for Setup.                              *)
EXTENDS Setup

MCBackends ==
    {Backend("duckdb", FALSE, ""), Backend("milvus", TRUE, ""),
     Backend("pinecone", FALSE, "PINECONE_API_KEY")}

MCFolder(d) == {Source("fs", d, "", "", "")}

MCBase(d) ==
    [Empty EXCEPT !.license = "text", !.sources = MCFolder(d),
                  !.vector_db = {Backend("duckdb", FALSE, "")},
                  !.embedder = {Section("openai", "", "")}]

\* One that runs where a key is exported; and, with what the wizard never
\* writes: an endpoint without a region, an LLM reranker without an LLM,
\* a cross-encoder, sub-queries without an LLM, hybrid retrieval on Pinecone, an embedder nobody
\* knows, LiteLLM without a model, and an unknown key.
MCHandwritten ==
    LET base == MCBase("docs") IN
    {base,
     [base EXCEPT !.sources = {Source("s3", "", "text", "", "AWS_ACCESS_KEY_ID")}],
     [base EXCEPT !.embedder = {Section("bedrock", "", "")}, !.reranker = {Section("llm", "", "")}],
     [base EXCEPT !.reranker = {Section("cross_encoder", "", "")}],
     [base EXCEPT !.decompose = TRUE],
     [base EXCEPT !.vector_db = {[Backend("pinecone", FALSE, "") EXCEPT !.hybrid = TRUE]}],
     [base EXCEPT !.embedder = {Section("word2vec", "", "")}],
     [base EXCEPT !.llm = {Section("litellm", "", "OPENAI_API_KEY")}],
     [base EXCEPT !.llm = {Section("openai", "", "")}, !.embedder = {Section("mock", "", "")}],
     [base EXCEPT !.malformed = TRUE]}
=============================================================================
