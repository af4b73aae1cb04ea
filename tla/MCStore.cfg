CONSTANTS
    a = a
    b = b
    c = c
    None = None
    Payloads <- ThreePayloads
    FutureIds <- OneFuture
    KeepAuto = 1
    MaxFiles = 4
    MaxDamage = 1
    Faults = {"write", "rename"}
SPECIFICATION Spec
SYMMETRY SamePayload
INVARIANTS FreshPutReadable PruneBound HeadIsMarked HeadChainOnTop
PROPERTIES EvidencePreserved ManualOnlyOnRequest HeadFileKept
