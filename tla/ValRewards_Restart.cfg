CONSTANTS
    v1 = v1
    v2 = v2
    d1 = d1
    d2 = d2
    Validators <- MCValidators
    Delegators <- MCDelegators
    Delegations <- MCDelegations
    ValidatorOrder <- MCValidatorOrder
    MaxValidators = 2
    VoteSets <- MCVoteSets
    BlocksInEpoch = 2
    ProposerBonusPoints = 1
    RewardsPerEpoch = 10
    DecPrecision = 100
    DepositAmounts = {5, 10}
    MaxHeight = 6
    MaxDeposited = 20
    NoEntry = NoEntry
SPECIFICATION SpecWithRestart
CHECK_DEADLOCK FALSE
INVARIANT ClaimsCovered
