SPECIFICATION Spec
CONSTANTS
    Inst <- ChainInst
    Mods <- ChainMods
    Role <- AllRole
    ModType <- AllType
    Says <- AllSays
    Policies <- ChainPolicies
    Links <- ChainLinks
    Default <- NoDefault
    MaxAsks = 2
    MaxRestarts = 0
    MaxLoss = 0
INVARIANTS HeadsAgree DeliveredOnce
