CONSTANTS
    Q = 5
    MaxSigners = 3
    Threshold = 2
    Byz = {3}
    PolyChoices <- MCPolyChoices
    ByzPolys <- MCByzPolys
    ByzClaimIds <- MCByzClaimIdsZero
    ByzValues <- MCByzValues
    AllowDuplicates = FALSE
    NoPeer = NoPeer
    NoKeyShare = NoKeyShare
SPECIFICATION Spec
CHECK_DEADLOCK FALSE
INVARIANT HonestSecretHidden
