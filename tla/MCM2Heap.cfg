SPECIFICATION Spec
CONSTANTS
    Wrap = 64
    DefaultChunk = 12
    Page = 8
    Memory = 28
    Request <- MCRequest
INVARIANTS
    TypeOK
    Validates
    PayloadIsTheOwners
    DoubleFreeRecognised
