CONSTANTS
    Q = 5
    MaxSigners = 3
    Threshold = 2
    Byz = {3}
    PolyChoices <- MCPolyChoices
    ByzPolys <- MCByzPolys
    ByzClaimIds <- MCByzClaimIds
    ByzValues <- MCByzValues
    AllowDuplicates = FALSE
    NoPeer = NoPeer
    NoKeyShare = NoKeyShare
SPECIFICATION Spec
CHECK_DEADLOCK FALSE
INVARIANTS
    TypeOK
    VKAgreement
    KeyShareVerifies
    GroupSecretReconstructs
    BlameIsFaulty
