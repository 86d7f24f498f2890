----------------------------- MODULE ValRewards -----------------------------
(***************************************************************************)
(* Validator rewards: the BeginBlocker of x/valrewards/keeper and the      *)
(* claimRewards and depositValidatorRewardsPool methods of the valrewards  *)
(* precompile.                                                             *)
(*                                                                         *)
(* Every block, processValidatorsPoints credits each validator of the      *)
(* previous block's commit with points in proportion to its voting power,  *)
(* plus a bonus for the proposer, in the epoch of the previous block; then *)
(* processValidatorsRewards, once the previous block lies in a later epoch *)
(* than the first unpaid one, splits the epoch's rewards by points into    *)
(* outstanding rewards per validator.  A delegator claims, for one epoch,  *)
(* the outstanding rewards of all its validators, paid from the module     *)
(* account, which anybody funds by deposits.                               *)
(*                                                                         *)
(* Decimal arithmetic is cosmossdk.io/math LegacyDec: an integer scaled by *)
(* DecPrecision (10^18 in the code), QuoTruncate and TruncateInt rounding  *)
(* toward zero.  Amounts are integers in the smallest denomination.        *)
(***************************************************************************)
EXTENDS Naturals, Sequences, FiniteSets, FiniteSetsExt, Functions

CONSTANTS
    Validators,          \* operator addresses
    Delegators,          \* delegator accounts
    Delegations,         \* the delegator -> validator pairs of the staking module
    ValidatorOrder,      \* the validators in the staking store's iteration order
    MaxValidators,       \* the staking param MaxValidators
    VoteSets,            \* the ctx.VoteInfos() a block may carry: validator -> power
    BlocksInEpoch,       \* BLOCKS_IN_EPOCH
    ProposerBonusPoints, \* PROPOSER_BONUS_POINTS
    RewardsPerEpoch,     \* REWARDS_PER_EPOCH
    DecPrecision,        \* the scale of LegacyDec
    DepositAmounts,      \* the amounts a deposit may carry
    MaxHeight,           \* the last block height explored
    MaxDeposited,        \* the most the module account receives in deposits
    NoEntry              \* no points key stored for the validator in the epoch

ASSUME /\ Delegations \subseteq Delegators \X Validators
       /\ ValidatorOrder \in Seq(Validators) /\ Len(ValidatorOrder) = Cardinality(Validators)
       /\ Range(ValidatorOrder) = Validators /\ MaxValidators \in Nat
       /\ \A vs \in VoteSets : DOMAIN vs \subseteq Validators /\ DOMAIN vs # {}
                               /\ \A v \in DOMAIN vs : vs[v] \in Nat \ {0}
       /\ BlocksInEpoch \in Nat \ {0} /\ MaxHeight \in Nat \ {0}

\* The epoch of block height h: (h - 1) / BLOCKS_IN_EPOCH on the previous block.
PrevBlockEpoch(h) == (h - 1) \div BlocksInEpoch
Epochs == 0..PrevBlockEpoch(MaxHeight)

VARIABLES
    height,          \* the height of the last block whose BeginBlocker ran
    points,          \* epoch -> validator -> points key value, or NoEntry
    epochToPay,      \* the EpochToPay key: the first epoch not yet paid
    outstanding,     \* epoch -> validator -> outstanding reward
    moduleBalance,   \* the balance of the valrewards module account
    balance,         \* the delegators' balances (only what claims pay)
    paid,            \* history: epoch -> the rewards ever registered for it
    deposited        \* history: the total deposited

vars == <<height, points, epochToPay, outstanding, moduleBalance, balance, paid, deposited>>

SumOver(S, f) == FoldSet(LAMBDA x, acc : acc + f[x], 0, S)

\* LegacyNewDec(a).QuoTruncate(LegacyNewDec(b)) as a scaled integer
QuoTruncate(a, b) == (a * DecPrecision) \div b

\* Mutant: rounding up instead of truncating.
MulCeilInt(n, frac) == (n * frac + DecPrecision - 1) \div DecPrecision

\* ... .MulInt64(100).TruncateInt64() and ... .Mul(frac).TruncateInt()
MulTruncateInt(n, frac) == (n * frac) \div DecPrecision

Init ==
    /\ height = 1
    /\ points = [e \in Epochs |-> [v \in Validators |-> NoEntry]]
    /\ epochToPay = 0
    /\ outstanding = [e \in Epochs |-> [v \in Validators |-> 0]]
    /\ moduleBalance = 0
    /\ balance = [d \in Delegators |-> 0]
    /\ paid = [e \in Epochs |-> 0]
    /\ deposited = 0

(***************************************************************************)
(* processValidatorsPoints: every vote adds its power share of 100 points, *)
(* and the proposer's vote PROPOSER_BONUS_POINTS more, to the epoch of the *)
(* previous block.  AddValidatorRewardPoints reads a missing key as 0.     *)
(***************************************************************************)
AddValidatorRewardPoints(p, v, n) == IF p[v] = NoEntry THEN n ELSE p[v] + n

ValidatorPoints(votes, v) ==
    LET totalPower == SumOver(DOMAIN votes, votes)
    IN  MulTruncateInt(100, QuoTruncate(votes[v], totalPower))

processValidatorsPoints(pts, h, votes, proposer) ==
    IF h > 1
    THEN [pts EXCEPT ![PrevBlockEpoch(h)] =
            [v \in Validators |->
                IF v \notin DOMAIN votes THEN @[v]
                ELSE AddValidatorRewardPoints(@, v, ValidatorPoints(votes, v)
                         + (IF v = proposer THEN ProposerBonusPoints ELSE 0))]]
    ELSE pts

(***************************************************************************)
(* processValidatorsRewards: if the previous block's epoch is past the     *)
(* first unpaid one, every validator with points in that epoch gets its    *)
(* points' share of REWARDS_PER_EPOCH (SetValidatorOutstandingReward        *)
(* overwrites), and EpochToPay moves to the next epoch.                     *)
(***************************************************************************)
\* Mutant: an epoch is paid one epoch late.
ShouldPayLate(h, e) == h > 1 /\ PrevBlockEpoch(h) > e + 1

\* Mutant: >= for >, the epoch still being credited is paid.
ShouldPayEarly(h, e) == h > 1 /\ PrevBlockEpoch(h) >= e

ShouldPay(h, e) == h > 1 /\ PrevBlockEpoch(h) > e

EpochValidators(pts, e) == {v \in Validators : pts[e][v] # NoEntry}

ValidatorReward(pts, e, v) ==
    LET epochTotalPoints == SumOver(EpochValidators(pts, e), pts[e])
    IN  MulTruncateInt(RewardsPerEpoch, QuoTruncate(pts[e][v], epochTotalPoints))

EpochRewards(pts, e) ==
    [v \in Validators |-> IF v \in EpochValidators(pts, e)
                          THEN ValidatorReward(pts, e, v) ELSE outstanding[e][v]]

\* BeginBlocker: points, then rewards, for block height + 1.
BeginBlocker(votes, proposer) ==
    LET h == height + 1
        pts == processValidatorsPoints(points, h, votes, proposer)
    IN  /\ height < MaxHeight
        /\ height' = h
        /\ points' = pts
        /\ IF ShouldPay(h, epochToPay)
           THEN /\ outstanding' = [outstanding EXCEPT ![epochToPay] = EpochRewards(pts, epochToPay)]
                /\ paid' = [paid EXCEPT ![epochToPay] =
                               @ + SumOver(EpochValidators(pts, epochToPay), EpochRewards(pts, epochToPay))]
                /\ epochToPay' = epochToPay + 1
           ELSE UNCHANGED <<outstanding, paid, epochToPay>>
        /\ UNCHANGED <<moduleBalance, balance, deposited>>

(***************************************************************************)
(* ClaimRewards: maxRetrieve above MaxValidators is an error; the         *)
(* outstanding rewards of the delegator's first maxRetrieve validators are *)
(* summed; a zero sum or a module balance below it is an error; otherwise  *)
(* every one of them is set to zero and the sum is sent to the delegator.  *)
(***************************************************************************)
\* GetDelegatorValidators: the delegator's first maxRetrieve validators.
DelegatorValidators(d, maxRetrieve) ==
    LET vs == SelectSeq(ValidatorOrder, LAMBDA v : <<d, v>> \in Delegations)
    IN  Range(SubSeq(vs, 1, IF maxRetrieve < Len(vs) THEN maxRetrieve ELSE Len(vs)))

\* GetValidatorOutstandingReward: the stored coin, zero when no key is stored.
GetValidatorOutstandingReward(e, v) == outstanding[e][v]

\* The read-only precompile getters: RewardsPool returns the module account's
\* balance, ValidatorOutstandingRewards the stored outstanding reward.
RewardsPool == moduleBalance
ValidatorOutstandingRewards(e, v) == GetValidatorOutstandingReward(e, v)

DelegationRewards(d, e) ==
    SumOver(DelegatorValidators(d, MaxValidators), [v \in Validators |-> GetValidatorOutstandingReward(e, v)])

\* Mutant: the module balance is not checked.
ClaimRewardsNoBalanceCheck(d, e, maxRetrieve) ==
    LET vals == DelegatorValidators(d, maxRetrieve)
        amount == SumOver(vals, [v \in Validators |-> GetValidatorOutstandingReward(e, v)])
    IN  /\ maxRetrieve <= MaxValidators
        /\ amount # 0
        /\ outstanding' = [outstanding EXCEPT ![e] =
                              [v \in Validators |-> IF v \in vals THEN 0 ELSE @[v]]]
        /\ moduleBalance' = moduleBalance - amount
        /\ balance' = [balance EXCEPT ![d] = @ + amount]
        /\ UNCHANGED <<height, points, epochToPay, paid, deposited>>

\* Mutant: the outstanding rewards are not reset.
ClaimRewardsNoReset(d, e, maxRetrieve) ==
    LET vals == DelegatorValidators(d, maxRetrieve)
        amount == SumOver(vals, [v \in Validators |-> GetValidatorOutstandingReward(e, v)])
    IN  /\ maxRetrieve <= MaxValidators
        /\ amount # 0
        /\ ~(moduleBalance < amount)
        /\ moduleBalance' = moduleBalance - amount
        /\ balance' = [balance EXCEPT ![d] = @ + amount]
        /\ UNCHANGED <<height, points, epochToPay, outstanding, paid, deposited>>

ClaimRewards(d, e, maxRetrieve) ==
    LET vals == DelegatorValidators(d, maxRetrieve)
        amount == SumOver(vals, [v \in Validators |-> GetValidatorOutstandingReward(e, v)])
    IN  /\ maxRetrieve <= MaxValidators
        /\ amount # 0
        /\ ~(moduleBalance < amount)
        /\ outstanding' = [outstanding EXCEPT ![e] =
                              [v \in Validators |-> IF v \in vals THEN 0 ELSE @[v]]]
        /\ moduleBalance' = moduleBalance - amount
        /\ balance' = [balance EXCEPT ![d] = @ + amount]
        /\ UNCHANGED <<height, points, epochToPay, paid, deposited>>

\* DepositValidatorRewardsPool: anybody sends coins to the module account.
DepositValidatorRewardsPool(amount) ==
    /\ deposited + amount <= MaxDeposited
    /\ moduleBalance' = moduleBalance + amount
    /\ deposited' = deposited + amount
    /\ UNCHANGED <<height, points, epochToPay, outstanding, balance, paid>>

(***************************************************************************)
(* A chain exported to genesis and restarted from it (at the next height): *)
(* ExportGenesis returns nil and InitGenesis reads nothing, so the module  *)
(* store starts empty, while the bank module keeps the module account's    *)
(* balance and the delegators' balances.                                   *)
(***************************************************************************)
ExportImportGenesis ==
    /\ points' = [e \in Epochs |-> [v \in Validators |-> NoEntry]]
    /\ epochToPay' = 0
    /\ outstanding' = [e \in Epochs |-> [v \in Validators |-> 0]]
    /\ UNCHANGED <<height, moduleBalance, balance, paid, deposited>>

Next ==
    \/ \E votes \in VoteSets, proposer \in Validators : BeginBlocker(votes, proposer)
    \/ \E d \in Delegators, e \in Epochs, n \in 0..MaxValidators : ClaimRewards(d, e, n)
    \/ \E amount \in DepositAmounts : DepositValidatorRewardsPool(amount)

\* The chain with genesis exports and restarts.
SpecWithRestart == Init /\ [][Next \/ ExportImportGenesis]_vars

Spec == Init /\ [][Next]_vars

TypeOK ==
    /\ height \in 1..MaxHeight
    /\ points \in [Epochs -> [Validators -> Nat \cup {NoEntry}]]
    /\ epochToPay \in Nat
    /\ outstanding \in [Epochs -> [Validators -> Nat]]
    /\ moduleBalance \in Nat
    /\ balance \in [Delegators -> Nat]
    /\ paid \in [Epochs -> Nat]
    /\ deposited \in Nat

\* processValidatorsRewards pays an epoch only once processValidatorsPoints
\* has moved on to a later one: no step adds points to an epoch already paid.
PaidEpochFrozen ==
    [][\A e \in Epochs : e < epochToPay => points'[e] = points[e]]_vars

\* EpochToPay keeps pace with the chain: after every block, the epochs before
\* the previous block's epoch are exactly the paid ones, although an epoch is
\* paid by one block and at most one epoch is paid per block.
PaymentKeepsPace ==
    height > 1 => epochToPay = PrevBlockEpoch(height)

\* The truncating decimal arithmetic never registers more than
\* REWARDS_PER_EPOCH in outstanding rewards for one epoch.
WithinBudget ==
    \A e \in Epochs : paid[e] <= RewardsPerEpoch

\* The rewards registered for the epochs are exactly those still outstanding
\* plus those ClaimRewards sent to delegators: nothing is claimed twice,
\* nothing claimed was not registered and nothing registered is lost; and
\* what RewardsPool reports is what was deposited less what was claimed.
ClaimsCovered ==
    /\ SumOver(Delegators, balance)
          = SumOver(Epochs, [e \in Epochs |->
                paid[e] - SumOver(Validators, [v \in Validators |-> ValidatorOutstandingRewards(e, v)])])
    /\ RewardsPool + SumOver(Delegators, balance) = deposited

\* A claim by one delegator leaves what every other delegator can claim, as
\* DelegationRewards reports it, as it was: a delegator's rewards are taken
\* only by that delegator's own claim or replaced by a new payment.
NoCrossClaim ==
    [][\A d \in Delegators :
          (balance'[d] = balance[d] /\ height' = height) =>
             \A e \in Epochs : DelegationRewards(d, e)' >= DelegationRewards(d, e)]_vars
=============================================================================
