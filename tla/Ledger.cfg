SPECIFICATION Spec
CONSTANTS
    Word <- MCWord
    Word32 <- MCWord32
    NativeOf <- MCNativeOf
    HashOrder <- MCHashOrder
    Eras <- MCEras
    Params <- MCParams
    Env <- MCEnv
    Genesis <- MCGenesis
    GenDelegs <- MCGenDelegs
    Templates <- MCTemplates
    Edits <- MCEdits
    PlutusOf <- MCPlutusOf
    SlotConfig <- MCSlotConfig
    MaxTxs = 2
    MaxBlock = 2
    MaxEdits = 1
    DistinctInputs = TRUE
    OverflowChecks = TRUE
INVARIANTS
    SupplyConserved
    SpentByOwner
    FailurePays
    StakeConsistent
    RedeemersFound
CHECK_DEADLOCK FALSE
