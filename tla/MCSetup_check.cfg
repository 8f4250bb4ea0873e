SPECIFICATION Spec
CONSTANTS
    Dirs = {"docs"}
    Handwritten <- MCHandwritten
    Installed = {"bedrock"}
    Offered = {"openai", "litellm", "sentence_transformer"}
    Backends <- MCBackends
    MaxSources = 1
    MaxMissing = 1
    MaxEdits = 1
INVARIANTS
    WizardFileRuns
    PreflightCovers
