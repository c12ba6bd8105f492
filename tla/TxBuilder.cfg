SPECIFICATION Spec
CONSTANTS
    Word <- MCWord
    Word32 <- MCWord32
    NativeOf <- MCNativeOf
    HashOrder <- MCHashOrder
    PlutusOf <- MCPlutusOf
    SlotConfig <- MCSlotConfig
    Bases <- MCBases
    Refs = {11, 12, 21}
    Outs <- MCOuts
    Policies = {"n1", "p3"}
    Amounts <- MCAmounts
    Keys = {"k1", "k2"}
    Scripts <- MCScripts
    Data = {"d1", "d2", "bad"}
    Malformed = {"bad"}
    Known <- MCKnown
    Params <- MCParams
    MaxOps = 2
    MaxSigs = 3
INVARIANTS
    RedeemersResolve
    SignaturesAgree
    IntegrityHashAccepted
CHECK_DEADLOCK FALSE
