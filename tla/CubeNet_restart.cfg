SPECIFICATION Spec
CONSTANTS
    Inst <- StarInst
    Mods <- StarMods
    Role <- AllRole
    ModType <- AllType
    Says <- AllSays
    Policies <- StarPolicies
    Links <- StarLinks
    Default <- NoDefault
    MaxAsks = 2
    MaxRestarts = 1
    MaxLoss = 1
INVARIANTS  AnswersComeHome
