--------------------------- MODULE AddressRegistry ---------------------------
(***************************************************************************)
(* What the AddressTable precompile promises its callers: an append-only   *)
(* table of distinct addresses, whose indices never change, and a codec    *)
(* that gives back, in order, every address a caller compressed.          *)
(***************************************************************************)
EXTENDS Sequences, SequencesExt

CONSTANTS
    Addresses,   \* the addresses the callers use
    MaxMsg       \* the most addresses a caller compresses

VARIABLES
    table,   \* the registered addresses; the index of table[k] is k - 1
    msg,     \* the addresses compressed, in order
    out      \* the addresses decompressed, in order

vars == <<table, msg, out>>

Init == table = <<>> /\ msg = <<>> /\ out = <<>>

\* A new address is appended; an address already present keeps its index.
Register(a) ==
    /\ a \notin Range(table)
    /\ table' = Append(table, a)
    /\ UNCHANGED <<msg, out>>

Compress(a) ==
    /\ Len(msg) < MaxMsg
    /\ msg' = Append(msg, a)
    /\ UNCHANGED <<table, out>>

\* The next compressed address comes back.
Decompress ==
    /\ Len(out) < Len(msg)
    /\ out' = Append(out, msg[Len(out) + 1])
    /\ UNCHANGED <<table, msg>>

Next ==
    \/ \E a \in Addresses : Register(a) \/ Compress(a)
    \/ Decompress

Spec == Init /\ [][Next]_vars
=============================================================================
