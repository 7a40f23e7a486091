SPECIFICATION Spec
CONSTANTS
    Hashes <- TheHashes
    Branches <- TheBranches
    Actions <- TheActions
    CodeQL = "codeql-action"
    CodeQLBranch <- TheBranchOf
    Worlds <- TheWorlds
    Workflows <- TheWorkflows
    lookback = 1
    MaxFaults = 1
INVARIANTS TypeOK CacheIsSound 
