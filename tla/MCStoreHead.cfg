CONSTANTS
    a = a
    b = b
    c = c
    None = None
    Payloads <- ThreePayloads
    FutureIds <- NoFuture
    KeepAuto = 2
    MaxFiles = 4
    MaxDamage = 0
    Faults = {}
SPECIFICATION Spec
SYMMETRY AnyPayload
INVARIANT MarkerIsHead
