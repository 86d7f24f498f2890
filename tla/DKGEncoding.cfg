SPECIFICATION Spec
CONSTANTS
    Ciphersuites <- MCCiphersuites
    ElementLength <- MCElementLength
    ScalarLength <- MCScalarLength
    Order <- MCOrder
    ElementEncodings <- MCElementEncodings
    SendGroups = {7}
    Ids = {1, 2}
    MaxCommitment = 2
    TamperBytes = {0, 2, 3, 4, 6}
    MaxTamper = 1
INVARIANTS
    TypeOK
    DecodesWhatWasSent
    AcceptsOnlyCanonical
