SPECIFICATION Spec
CONSTANTS
    Inst <- ChainInst
    Mods <- ChainMods
    Role <- AllRole
    ModType <- AllType
    Says <- AllSays
    Policies <- IgnoredPolicies
    Links <- ChainLinks
    Default <- NoDefault
    MaxAsks = 1
    MaxRestarts = 0
    MaxLoss = 0
INVARIANTS IgnoredPolicyUnused
