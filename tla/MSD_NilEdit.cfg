CONSTANTS
    v1 = v1
    Validators <- MCValidators
    MinSelfDelegation = 2
    Amounts = {1, 2, 3}
    BondDenom = BondDenom
    OtherDenom = OtherDenom
    Nil = Nil
    BadAny = BadAny
    MaxDepth = 2
    MaxStake = 4
SPECIFICATION Spec
INVARIANT
    AnteRejectsOnlyViolations
