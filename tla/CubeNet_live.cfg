SPECIFICATION FairSpec
CONSTANTS
    Inst <- PairInst
    Mods <- PairMods
    Role <- AllRole
    ModType <- AllType
    Says <- AllSays
    Policies <- PairPolicies
    Links <- PairLinks
    Default <- NoDefault
    MaxAsks = 2
    MaxRestarts = 0
    MaxLoss = 0
PROPERTIES EveryQueryAnswered
