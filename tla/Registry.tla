------------------------------ MODULE Registry ------------------------------
(***************************************************************************)
(* The static precompile registry: DefaultStaticPrecompiles               *)
(* (precompiles/types/defaults.go) builds the address -> precompile map   *)
(* by a chain of With... calls, each of which constructs a precompile p   *)
(* and sets s[p.Address()] = p.  AvailableStaticPrecompiles               *)
(* (x/vm/types/precompiles.go) lists the addresses of the static          *)
(* extensions.                                                             *)
(*                                                                         *)
(* An address is the integer of its hex form; a precompile is a record    *)
(* naming its package and, for the reserved ones, the slot number it was  *)
(* created with.                                                           *)
(***************************************************************************)
EXTENDS Naturals, Sequences, SequencesExt, FiniteSets, TLC

\* The address constants of x/vm/types/precompiles.go.
Addr ==
    [p256 |-> \h100, bech32 |-> \h400,
     staking |-> \h800, distribution |-> \h801, ics20 |-> \h802, vesting |-> \h803,
     bank |-> \h804, gov |-> \h805, slashing |-> \h806, ics02 |-> \h807,
     ed25519 |-> \h500, sp1groth16 |-> \h600, sp1plonk |-> \h700, json |-> \h701,
     solanatx |-> \h702, schnorr |-> \h703, schnorrkel |-> \h704, gnarkhash |-> \h705,
     sha3hash |-> \h706, blake2b |-> \h707, ecvrf |-> \h708, frost |-> \h709,
     addresstable |-> \h710, poseidonhash |-> \h711, pqmldsa |-> \h712,
     pqslhdsa |-> \h713, valrewards |-> \h714]

\* ReservedSlotNNPrecompileAddress: 0x...07NN, NN read as hex digits.
ReservedSlotAddress(n) == \h700 + (n \div 10) * 16 + (n % 10)

ReservedSlots == 15..50

\* vm.PrecompiledContractsPrague: the Ethereum precompiles 0x01 .. 0x11.
PragueAddresses == 1..\h11

\* AvailableStaticPrecompiles: every named address and every reserved slot.
AvailableStaticPrecompiles ==
    {Addr[n] : n \in DOMAIN Addr} \cup {ReservedSlotAddress(n) : n \in ReservedSlots}

\* reserved.Precompile.Address(): the if-chain on p.no, the zero address
\* when no test matches.  The test for the Slot47 address is p.no == 48.
ReservedAddress(no) ==
    CASE no \in 15..46 \cup {49, 50} -> ReservedSlotAddress(no)
      [] no = 48 -> ReservedSlotAddress(47)
      [] OTHER -> 0

\* Address() of each precompile: HexToAddress of its constant.
Address(p) == IF p.name = "reserved" THEN ReservedAddress(p.no) ELSE Addr[p.name]

Named(n) == [name |-> n, no |-> 0]

\* The precompiles each With... call registers, in the order it sets them.
\* WithPraguePrecompiles copies the Ethereum set, modelled by its addresses.
WithPraguePrecompiles == [i \in 1..Cardinality(PragueAddresses) |-> [name |-> "prague", no |-> i]]
WithReservedPrecompiles == [i \in 1..Cardinality(ReservedSlots) |-> [name |-> "reserved", no |-> 14 + i]]

\* The key s[p.Address()] a precompile is set at.
RegisteredAt(p) == IF p.name = "prague" THEN p.no ELSE Address(p)

\* The single-precompile With... calls of DefaultStaticPrecompiles, in order.
NamedChain ==
    <<"p256", "bech32", "staking", "distribution", "ics02", "ics20", "bank",
      "gov", "slashing", "ed25519", "sp1groth16", "sp1plonk", "json", "solanatx",
      "schnorr", "schnorrkel", "gnarkhash", "sha3hash", "blake2b", "ecvrf",
      "frost", "addresstable", "poseidonhash", "pqmldsa", "pqslhdsa", "valrewards">>

\* DefaultStaticPrecompiles: the chain of With... calls, each the sequence of
\* precompiles it registers.
DefaultStaticPrecompiles ==
    << WithPraguePrecompiles >>
    \o [i \in 1..Len(NamedChain) |-> << Named(NamedChain[i]) >>]
    \o << WithReservedPrecompiles >>

VARIABLES
    s,    \* the StaticPrecompiles map: address -> precompile
    pc    \* the next With... call of the chain

vars == <<s, pc>>

Init == s = <<>> /\ pc = 1

\* A With... call: s[p.Address()] = p for each precompile it constructs, a
\* later assignment replacing an earlier one at the same key.
With ==
    /\ pc <= Len(DefaultStaticPrecompiles)
    /\ s' = FoldLeft(LAMBDA m, p : (RegisteredAt(p) :> p) @@ m, s, DefaultStaticPrecompiles[pc])
    /\ pc' = pc + 1

Next == With

Spec == Init /\ [][Next]_vars

Built == pc > Len(DefaultStaticPrecompiles)

\* Once DefaultStaticPrecompiles returns, every reserved slot listed in
\* AvailableStaticPrecompiles is served at its own address by the reserved
\* precompile of that slot, and nothing is registered at the zero address.
ReservedSlotsServed ==
    Built => /\ \A n \in ReservedSlots :
                    /\ ReservedSlotAddress(n) \in DOMAIN s
                    /\ s[ReservedSlotAddress(n)] = [name |-> "reserved", no |-> n]
             /\ 0 \notin DOMAIN s
=============================================================================
