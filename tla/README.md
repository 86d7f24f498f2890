# TLA+ models of continuum

This directory holds TLA+ specifications of the stateful parts of the
continuum chain (a Cosmos EVM chain with custom precompiles), the TLC
configurations that check them, and `PROJECT.json`, which records, for every
definition, the source lines it translates; every run; a mutant per checked
property; the findings; and the hazards.

## The system and what is modelled

| Part | Source | Module | Status |
|---|---|---|---|
| FROST distributed key generation (Pedersen DKG with Feldman commitments and Schnorr proofs of knowledge) | `precompiles/frost/bytemare-stable/dkg/dkg.go`, `errors.go`, `messages.go` | `DKG`, `MCDKG` | partly: the protocol is modelled; the byte encodings are not |
| Scalar field, ZK proof | `.../secp256k1/scalar.go`, `.../dkg/frost.go` | `FrostAlgebra` | partly |
| Validator rewards: BeginBlocker, claims, deposits, genesis, the RewardsPool and ValidatorOutstandingRewards getters | `x/valrewards/...`, `precompiles/valrewards/...` | `ValRewards`, `MCValRewards` | modelled |
| AddressTable precompile: register, compress, decompress | `precompiles/addresstable/addresstable.go` | `AddressTable`, `MCAddressTable` | modelled |
| DKG byte encodings: Round1Data/Round2Data and proof Signature Encode and Decode, Scalar Encode/Decode | `.../dkg/messages.go`, `.../dkg/frost.go`, `.../secp256k1/scalar.go` | `DKGEncoding`, `MCDKGEncoding` | partly: the binary forms are modelled; the JSON forms are not |
| Solana tx precompile: generateSolanaTx storage, index, getSolanaTxs paging | `precompiles/solanatx/solanatx.go` | `SolanaTx`, `MCSolanaTx` | partly: building the Solana message is abstracted |
| Static precompile registry and reserved precompiles | `precompiles/types/static_precompiles.go`, `defaults.go`, `precompiles/reserved/reserved.go`, `x/vm/types/precompiles.go` | `Registry` | modelled |
| Min-self-delegation ante handler: `AnteHandle`, `CheckMSDInTx`, `CheckMSDInMsg` | `msd/msd.go`, `ante/cosmos/min_stake.go` | `MSD`, `MCMSD` | partly: `Jail`, `Slash` and the violation buffer have no caller |
| Abstract address registry (what AddressTable promises) | none | `AddressRegistry` | abstract specification refined by `AddressTable` |
| Hash/signature/JSON precompiles | see `PROJECT.json` | none | not modelled (see below) |

### How the parts interact

- **DKG.** Each of `MaxSigners` participants runs three steps:
  - `Start` broadcasts a `Round1Data`: the Feldman commitment and a proof of knowledge of the constant term.
  - `Continue` checks every peer's Round-1 message. It then returns a `Round2Data` per peer, holding the participant's polynomial evaluated at the peer's id, and zeroes the polynomial.
  - `Finalize` checks every Round-2 message against the sender's commitment and sums the shares into a `KeyShare`.
  - The caller, not the library, moves the messages between the participants.
- **ValRewards.** Every block's BeginBlocker first credits points to the validators of the previous block's commit. It then pays at most one ended epoch, as outstanding rewards per validator. Delegators claim those rewards through the precompile, from a module account that anybody funds by deposits.
- **DKG messages on the wire.** `Start` and `Continue` return structs; the caller serializes them with `Encode` and the recipient reads them with `Decode`. The bytes travel through the caller's transport.
- **SolanaTx.** `generateSolanaTx` stores a serialized message in the precompile's storage under its keccak id and appends the id to an index. `getSolanaTxs` reads a page of the index.
- **Registry.** At start-up, `DefaultStaticPrecompiles` builds the EVM's address-to-precompile map by a chain of `With...` calls.
- **MSD.** Every Cosmos transaction passes `MinSelfDelegationDecorator.AnteHandle` before the staking module runs its messages. The ante checks each `MsgCreateValidator` and `MsgEditValidator`, including those inside authz `MsgExec` at any depth, against the chain's minimum self-delegation. The staking module then applies the messages, all of them or none.
- **AddressTable.** The precompile keeps an append-only table in its own storage. Contracts compress addresses into calldata as an index or raw bytes, and decompress them at a moving offset.

## Modules

### FrostAlgebra

The group is represented by discrete logs: an element `g^x` is the scalar `x`
mod `Q`. This is exact for the linear relations the DKG uses:
- the Feldman check `g^share = Π C_k^(id^k)` becomes `share = Σ C_k·id^k`;
- the Schnorr check becomes an equation over scalars.

The Fiat-Shamir challenge is a hash, modelled as an injective function of
(id, public key, R). So a proof is the record `[id, pk, secret]`:
- `verifyZKProof` accepts exactly the proofs made for that id and key;
- a proof by somebody who does not know the secret fails.

A concrete `(R, z)` proof with a fixed function into `1..Q-1` as the challenge would not be sound at these sizes. With `Q = 5`, the 75 inputs `(id, pk, R)` share 4 challenge values. A replayed proof could then verify under another identifier because of a collision, an attack that a real hash rules out.

Scalars are `0..Q-1` with `Zero` (which `resetPolynomial` and `Finalize` use to clear secrets), `Add`, `Multiply`, `Pow`, `Invert` and `SetUInt64`
(the reduction `mod Q` of `scalar.go`). The following come from spec.md §4.2,
because the secretsharing and ecc packages are not in the repository:
- polynomial evaluation (`Evaluate`, a fold);
- `Commit`, `PubKeyForCommitment` and `VerifyCommitment`;
- Lagrange interpolation at zero (`CombineShares`).

`PROJECT.json` marks these definitions `spec_modelled`.

### DKG

State per honest participant:
- `poly`: the secret polynomial, zeroed by `resetPolynomial`;
- `secretShare`;
- `commitment`;
- `keyShare`;
- `err`: the error of the last call, with its kind and blamed peer;
- `phase`.

Network:
- `r1`: the set of Round-1 messages ever broadcast;
- `r2`: the set of Round-2 messages ever sent.

The actions follow `dkg.go`:
- **`Start(h)`** is `StartWithRandom`.
- **`Continue(h, S)`** takes a slice `S` of Round-1 messages of length N-2, N-1 or N.
  - On a wrong length it returns `errRound1DataElements`.
  - For each message it skips nil and own messages.
  - It checks the commitment (`errCommitmentNilElement`) and the proof (`errAbortInvalidSignature` blaming the peer).
  - On the first failure it returns that error and leaves the polynomial in place.
  - On success it sends the shares and zeroes the polynomial.
  - The error disjunct models the early returns in the order the loop meets them.
- **`Finalize(h, S1, S2)`** takes a Round-1 slice and a slice of Round-2 messages from `Deliverable(h)`.
  - It checks the lengths.
  - For each message, `verifyRound2Data` runs: `checkRound2DataHeader`, `getCommitment`, then the Feldman check (`errAbortInvalidSecretShare`).
  - It sums the shares and commitments and zeroes `secretShare`.

Byzantine peers (the `Byz` set) act as follows:
- **`ByzBroadcast`** broadcasts any message built from `ByzPolys`:
  - a polynomial of `Threshold` entries or, as `Continue` accepts any non-zero length, of one more;
  - a valid proof or a tampered one;
  - an empty commitment;
  - a replay of an honest message;
  - under an id drawn from `ByzClaimIds`.
- **`ByzSendShare`** sends any recipient a correct share or a value from `ByzValues`.

One switch models caller misuse that the API does not rule out: `AllowDuplicates` lets the same Round-2 message appear twice in one slice.

`AllowDuplicates` is FALSE in the passing run. `Continue` is enabled only in round 1. The code has no such guard: a second call sends shares of the zeroed polynomial, and its recipients abort blaming an honest sender. This is recorded as a hazard.

### ValRewards

State:
- `height`;
- `points[e][v]`, where `NoEntry` means no key is stored;
- `epochToPay`, the EpochToPay key;
- `outstanding[e][v]`;
- `moduleBalance`;
- the delegators' `balance`;
- two history variables: `paid[e]`, the rewards ever registered for epoch e, and `deposited`.

Decimal arithmetic is LegacyDec, scaled by `DecPrecision`:
- `QuoTruncate(a, b) = a·P ÷ b`;
- `Mul(...).TruncateInt() = n·f ÷ P`.

Both truncate toward zero as the code does.

Actions:
- **`BeginBlocker(votes, proposer)`** is the whole of `keeper.BeginBlocker` for block `height+1`:
  - `processValidatorsPoints`, with the proposer bonus;
  - then `processValidatorsRewards`: if the previous block's epoch is later than `epochToPay`, every validator with points in that epoch gets its share of `RewardsPerEpoch`, and `epochToPay` moves on by one.
- **`ClaimRewards(d, e, maxRetrieve)`** is `claim.go`:
  - `maxRetrieve` above `MaxValidators` is an error;
  - it sums the outstanding rewards of the delegator's first `maxRetrieve` validators in the staking store's order (`ValidatorOrder`);
  - it fails on zero or on a module balance below the sum;
  - otherwise it zeroes those entries and sends the sum.
- **`DepositValidatorRewardsPool(amount)`** adds to the module account.
- **The getters** `RewardsPool` (`get_pool.go`) and `ValidatorOutstandingRewards` (`get_validator_rewards.go`) change no state. They are the operators of the same names, and `ClaimsCovered` is stated through them.
- **`ExportImportGenesis`** is used only by `SpecWithRestart`. `ExportGenesis` returns nil, so a restarted chain's store is empty while the bank balances stay.

### AddressTable

State is the three kinds of storage slot of `addresstable.go`:
- `size`;
- `indexOf[a]`, which stores index+1, with 0 meaning absent;
- `addrAt[i]`, which stores the address word, with 0 meaning absent.

Beside it, one caller builds a buffer:
- `msg` holds the addresses compressed, in order;
- `buf` holds their concatenated `compress` output;
- the caller walks `buf` with `decompress` from the offset each call returns, recording `out` and `failed`.

Addresses are integers below 256, written as 20 big-endian bytes. The
index encoding is byte-exact:
- `encodeCompressedIndex` strips leading zero bytes, but keeps at least one;
- `decodeCompressed` does every length and tag check of the code, in the code's order.

### AddressRegistry

`AddressRegistry` is the abstract promise of the AddressTable precompile:
- `table`, a sequence of distinct addresses; `table[k]` has index `k - 1`;
- `Register(a)` appends an address that is not yet in the table;
- `Compress` and `Decompress` move addresses from `msg` to `out`, in order.

`AddressTable` instantiates it with `table <- [k \in 1..size |-> addrAt[k - 1]]`, and `msg` and `out` map to themselves. A failed decompress is a stutter of the abstract specification; `DecodesWhatWasCompressed` says when it may fail.

### DKGEncoding

State is one message in transit:
- `kind`: `"round1"`, `"round2"` or `"proof"`;
- `sent`: the `Round1Data`, `Round2Data` or proof `Signature` the sender encoded;
- `wire`: its bytes;
- `tampered`: the number of alterations;
- `decoded`: the recipient's `Decode` result.

The encodings are byte-exact:
- little-endian `uint16` identifiers and commitment length;
- `Scalar.Encode` as big-endian `FillBytes`;
- `Scalar.Decode` with its length and order checks.

An element is its own encoding. `Element.Decode` accepts the group's `ElementEncodings`; this one definition is `spec_modelled`, because the ecc package is not in the repository.

`Round1Decode`, `Round2Decode` and `SignatureDecode` (`dkg/frost.go`) make every check of the code, in the code's order, and return the error the code returns. `SendProof` is a standalone proof of knowledge from `FrostGenerateZeroKnowledgeProof`, sent as `Signature.Encode`: the group byte, R, then Z.

`Tamper` is the environment: one byte overwritten, the last byte cut or a byte appended. The MC module gives two available ciphersuites with equal lengths but different orders, so a changed group byte can still decode.

### SolanaTx

The precompile's storage slots are keccak hashes of distinct preimages, taken as collision-free. So each kind of slot is its own variable:
- `txLen[t]` and `txWords[t][i]`: the length word and data words of a stored message;
- `idxLen` and `idxAt[i]`: the index.

Words hold `WordSize` bytes (32 in the code), and uint64 arithmetic is modulo `2^Width`.

Actions:
- **`generateSolanaTx(t)`** is `putBytes` of `TxBytes[t]` followed by `appendTxIndex`. Building the Solana message is a pure function, abstracted to an injective `TxBytes`.
- **`getSolanaTxs(skipBI, limitBI)`** is the whole pagination:
  - both arguments are narrowed to uint64;
  - `limit = 0` returns an empty page;
  - so does `total = 0` or `skip >= total`;
  - `end = skip + limit` is a uint64 sum, clamped to the total;
  - when `end < start`, `make([][]byte, 0, end-start)` panics, modelled as a failed call;
  - zero index entries are skipped;
  - each entry is read with `getBytes`.
- **`getSolanaTx(t)`** changes no state: it reads the message's words with `getBytes`. It is the operator `StoredTxReadsBack` is stated with.

`getSolanaTxs` first narrows its uint256 `skip` and `limit` with `big.Int.Uint64`, which keeps the low 64 bits. The model draws the arguments from `ArgValues`, `ArgWidth` bits wide, and narrows them with `Uint64(x) == x % 2^Width`. So an argument of `2^Width` or more reads a different page than its value names. No property states the page of the raw arguments; the narrowing is listed as a hazard.

### MSD

The ante check is translated function by function:
- `checkCreateValidator` tests the denom, the amount and the declared MSD, in that order.
- `checkEditValidator` calls `LT` on the `*Int` `MinSelfDelegation`. It is `Nil` for an edit that leaves the value unset, and that is modelled as a panic. Baseapp recovers the panic into a rejected transaction.
- `CheckMSDInMsg` is RECURSIVE over `MsgExec`. An Any that does not unpack (`BadAny`) is an error.
- `CheckMSDInTx` and `AnteHandle` return the first failure.

Messages are records over small sets: `Amounts = {1, 2, 3}` around `MinSelfDelegation = 2`, with `MsgExec` nested up to `MaxDepth` deep. `Nil` and `BadAny` are model values.

The staking module (cosmos-sdk, not in the repository) is the environment, `Apply`:
- `MsgCreateValidator` fails for a bonded operator, a foreign denom, or a declared MSD above the amount.
- `MsgEditValidator` with a value fails unless that value raises the MSD and stays within the validator's tokens (its self-delegation and the other delegations). With `Nil`, it changes nothing.
- `MsgDelegate` adds tokens; by the operator, it also adds to the self-delegation.
- `MsgUndelegate` by another delegator removes tokens up to what others delegated.
- The operator's `MsgUndelegate` reduces the self-delegation and the tokens, and jails the validator below its declared MSD.
- `MsgUnjail` needs a jailed validator whose self-delegation covers its declared MSD. The jail period is taken as over.

`MaxStake` bounds a validator's tokens; a transaction that would exceed it is not delivered.

A transaction's messages are applied in order, with `MsgExec` flattened. One failure voids all of them.

### Registry

`DefaultStaticPrecompiles` is a sequence of `With...` steps. Each step sets `s[p.Address()] = p` for the precompiles it constructs:
- the Ethereum set 0x01..0x11;
- 26 named precompiles, at the constants of `x/vm/types/precompiles.go`;
- the reserved slots 15..50.

`ReservedAddress` is the if-chain of `reserved.Precompile.Address`, including its two `p.no == 48` tests.

## Runs

| Run | cfg | Expect | Shows |
|---|---|---|---|
| dkg | `DKG.cfg` | pass | 3 participants, threshold 2, peer 3 Byzantine. Properties: `VKAgreement` (all finalized honest participants hold the same verification key), `KeyShareVerifies` (each key share's public key matches `ComputeParticipantPublicKey` over the Round-1 data it used), `GroupSecretReconstructs` (when every broadcast commitment has at most `Threshold` entries, any 2 finalized shares interpolate to the secret of the group key; with the 3-entry Byzantine polynomial among the broadcasts it fails, so the precondition is the length check `Continue` lacks at `dkg.go:206`), `BlameIsFaulty` (an abort for a bad proof or share names a Byzantine peer). |
| dkg_id_range | `DKG_IdRange.cfg` | violation | `HonestSecretHidden`: a peer claiming id 0 is handed `poly(0)`. |
| dkg_encoding | `DKGEncoding.cfg` | pass | `DecodesWhatWasSent` (an unaltered message or proof decodes to what was sent), `AcceptsOnlyCanonical` (whatever decodes, even after an alteration, is the canonical encoding of its result, so two byte strings never read as one message). |
| valrewards | `ValRewards.cfg` | pass | `PaymentKeepsPace` (epochToPay = epoch of the previous block), `PaidEpochFrozen` (no points are added to a paid epoch), `WithinBudget` (truncation never pays more than the epoch budget), `ClaimsCovered` (claimed plus outstanding equals registered, and the pool plus what was claimed equals what was deposited). |
| valrewards_cross_claim | `ValRewards_CrossClaim.cfg` | violation | `NoCrossClaim`: d1's claim zeroes v2's reward, which d2 also delegates to. |
| valrewards_restart | `ValRewards_Restart.cfg` | violation | `ClaimsCovered`: after export and import, the registered outstanding rewards are gone. |
| addresstable | `AddressTable.cfg` | pass | `LookupsAgree` (whenever `lookup` and `lookupIndex` answer, they answer each other, and an index is below the size), `DecodesWhatWasCompressed` (decompress returns a prefix of the compressed addresses in order, whatever registrations happen in between, and fails only at a zero address), `AddressRegistrySpec` (the precompile refines `AddressRegistry`: the table only grows by an address not yet in it, so an index is never reassigned). |
| solanatx | `SolanaTx.cfg` | pass | `StoredTxReadsBack` (`getSolanaTx` returns, for every indexed id, its serialization through the word layout, partial last word included, and nothing for an id never generated) |
| solanatx_overflow | `SolanaTx_Overflow.cfg` | violation | `EveryPageReturns`: with two stored messages, `getSolanaTxs(1, 2^Width-1)` wraps `end` below `skip` and panics. |
| msd | `MSD.cfg` | pass | `ActiveValidatorsMeetMSD`: a bonded, unjailed validator always declares and holds at least the MSD, whatever creates, edits, delegations, undelegations and unjails are delivered, wrapped in `MsgExec` up to two deep. |
| msd_nil_edit | `MSD_NilEdit.cfg` | violation | `AnteRejectsOnlyViolations`: an edit that leaves `MinSelfDelegation` unset (here inside two `MsgExec`) panics in `checkEditValidator` and is rejected, although it breaks no MSD rule. |
| registry_reserved_slots | `Registry_ReservedSlots.cfg` | violation | `ReservedSlotsServed`: reserved slot 47 lands at the zero address and slot 48 at 0x...0747, so 0x...0748 is served by nothing. |

Each property of a passing run has a mutant in `PROJECT.json`: a plausible
bug in the definition it depends on, which TLC finds. Examples:
- `ShouldPay` with `>=`;
- `register` without `+1`;
- `verifyRound2Data` without the Feldman check.

## Bounds and why they are enough

- **DKG: Q = 5, N = 3, threshold 2, one Byzantine peer.**
  - Three participants are the fewest with two honest peers that can disagree, plus an adversary.
  - Threshold 2 makes the polynomial degree 1, so a length-3 commitment is a real degree excess.
  - Q = 5 > N keeps every id a distinct non-zero scalar.
  - Slices of length N-2..N cover both length errors and both accepted lengths.
  - The Byzantine polynomials are `<<2, 4>>` and `<<4, 1, 1>>`: one of threshold length and one longer, which `Continue` accepts. The longer one is `<<2, 4>>` plus (r-1)(r-2), so it gives honest participants 1 and 2 the same shares. It adds no share values, but its constant term, and so the group key, differs.
  - The run explores about 41,000 distinct states in under a minute.
- **ValRewards: 2 validators, 2 delegators (one sharing a validator), epochs of 2 blocks, 6 blocks.**
  - This gives epochs 0..2, so an epoch is paid while the next is credited.
  - Vote sets include shares of 1/3 and 2/3, which truncate.
  - `DecPrecision` = 100 keeps truncation visible.
  - `maxRetrieve` ranges over 0..2, so a claim may cover only v1 of d1's two validators.
  - The run explores about 146,000 states in under a minute.
- **DKGEncoding: 1-byte elements and scalars, orders 5 and 7, ids 1..2, commitments of length 0..2, one alteration from five byte values.**
  - Orders below 256 make 1-byte scalars that are too big exist.
  - The altered values include the other ciphersuite's byte (3), a non-element byte and a too-big scalar byte.
  - One alteration of any position reaches every length and check error of both decoders.
  - The run explores about 13,000 states.
- **SolanaTx: two messages of 3 and 2 bytes, 2-byte words, 3-bit uint64, 4-bit arguments, three generations.**
  - A 3-byte message has a partial last word.
  - Repeated generation overwrites words and duplicates index entries.
  - A 3-bit width lets every skip and limit be enumerated, including the wrap.
  - 4-bit arguments include every value that the narrowing to 3 bits changes.
  - The run explores about 12,500 states.
- **MSD: one validator, amounts 1..3 around an MSD of 2, tokens up to 4, MsgExec up to two deep.**
  - Amounts below, at and above the MSD reach every branch of both checks and of the staking module.
  - Depth two gives an exec inside an exec, which is where a non-recursive check would go wrong.
  - One validator is enough, because the checks and the property are per validator.
  - Four tokens let other delegations lift an edited MSD above the self-delegation.
  - The run explores about 4,200 states in 20 seconds. There is no deadlock: a transaction can always be delivered.
- **Registry** has no constants: the chain is the code's.
- **AddressTable: addresses 0..3 and three compressed entries.** Every interleaving of registering and compressing reaches indices 0..3 and both encodings, and the zero address, which `register` accepts, is among them. The run explores about 71,000 states.

## Fairness

No specification has fairness, and no run checks liveness. The one
candidate, that every ended epoch is eventually paid, follows from
`PaymentKeepsPace` once blocks keep coming. The DKG has no liveness property,
because the caller decides whether to move messages; the library does not.

## Not modelled, and why

- **Stateless precompiles: hashes, signature and proof verifiers, JSON, and the FROST verification wrapper.** They hold no state and call cryptographic libraries.
- **`msd.Jail`, `msd.Slash` and `MsdViolationBuffer`.** Nothing under `src/` calls them.
- **The staking precompile path.** The staking precompile runs staking messages from EVM calls, which bypass the Cosmos ante chain. It is cosmos/evm code outside the repository, and is listed as a hazard.
- **A duplicated Round-2 message.** With `AllowDuplicates = TRUE`, TLC finds `VKAgreement` violated. The passing run excludes it, and it is recorded as a hazard.
- **The DKG JSON forms (`encoding.go`, `UnmarshalJSON`).** They parse text with regular expressions, which is outside what the properties need.
- **Building the Solana message (`solanatx/solana/...`).** A pure serialization, abstracted to an injective function.
- **That every registered index reads back in AddressTable.** `register` accepts address 0, and that entry then reads as absent. The passing run includes address 0, and its properties hold with the lookup failing; the hazard is recorded.
- **The hazards that still have no property.** Each one (a duplicated Round-2 message, a changed group byte, a second `Continue`, a `Continue` slice holding the participant's own message, the narrowing of `getSolanaTxs` arguments) would be checked by a run that expects a violation. The project keeps to twelve runs, one per distinct question. The hazard notes in `PROJECT.json` give the configuration that shows each one.

## Plan for later work

1. An abstract specification of the DKG's promise: one group key, shares on one polynomial. Show `DKG` refines it in the passing configuration with INSTANCE ... WITH.
