---------------------------- MODULE AddressTable ----------------------------
(***************************************************************************)
(* The AddressTable precompile (precompiles/addresstable): an append-only  *)
(* table of addresses in the precompile's own storage, and a compression   *)
(* of addresses into calldata, either an index into the table or the raw  *)
(* address.                                                                *)
(*                                                                         *)
(* Storage holds three kinds of 32-byte slots, all reading as zero until   *)
(* written: the size, addr -> index + 1 and index -> address.  An address  *)
(* is an integer below 2^160 (the zero address is 0); a storage word       *)
(* holding an address is the address itself.                               *)
(*                                                                         *)
(* Beside the table, one caller builds a buffer by appending compress(a)   *)
(* for addresses a of its choice, and walks it with decompress(buf, off),  *)
(* the way a contract decodes compressed calldata; other callers register  *)
(* addresses in between.                                                   *)
(***************************************************************************)
EXTENDS Naturals, Sequences, SequencesExt

CONSTANTS
    Addresses,   \* the addresses the callers use
    MaxMsg       \* the most addresses the caller compresses

ASSUME Addresses \subseteq 0..255 /\ MaxMsg \in Nat

VARIABLES
    size,      \* slotSize
    indexOf,   \* slotAddrToIndex(a): index + 1, 0 when absent
    addrAt,    \* slotIndexToAddr(i): the address word, 0 when absent
    msg,       \* the addresses the caller compressed, in order
    buf,       \* the concatenation of their compressed forms
    off,       \* the offset decompress returned last
    out,       \* the addresses decompress returned
    failed     \* decompress returned an error

vars == <<size, indexOf, addrAt, msg, buf, off, out, failed>>

Indices == 0..Cardinality(Addresses)

(***************************************************************************)
(* Byte encodings.                                                         *)
(***************************************************************************)
\* The n-byte big-endian encoding of x (binary.BigEndian.PutUint64 for n = 8).
RECURSIVE BigEndian(_, _)
BigEndian(x, n) == IF n = 0 THEN <<>> ELSE Append(BigEndian(x \div 256, n - 1), x % 256)

\* The integer a big-endian byte string encodes (binary.BigEndian.Uint64).
FromBigEndian(bs) == FoldLeft(LAMBDA acc, b : acc * 256 + b, 0, bs)

AddressBytes(a) == BigEndian(a, 20)

\* Mutant: the loop strips up to eight zero bytes (i < 8), so 0 has no byte.
encodeCompressedIndexStripAll(index) ==
    LET be == BigEndian(index, 8)
        i == IF \E k \in 1..8 : be[k] # 0 THEN Min({k \in 1..8 : be[k] # 0}) ELSE 9
        min == SubSeq(be, i, 8)
    IN  <<0, Len(min)>> \o min

\* encodeCompressedIndex: tag 0x00, length, then the index's big-endian bytes
\* without leading zero bytes (one byte at least).
encodeCompressedIndex(index) ==
    LET be == BigEndian(index, 8)
        i == IF \E k \in 1..7 : be[k] # 0 THEN Min({k \in 1..7 : be[k] # 0}) ELSE 8
        min == SubSeq(be, i, 8)
    IN  <<0, Len(min)>> \o min

\* encodeCompressedUnregistered: tag 0xff, then the 20 address bytes.
encodeCompressedUnregistered(a) == <<255>> \o AddressBytes(a)

(***************************************************************************)
(* Storage accessors.                                                      *)
(***************************************************************************)
\* getIndexOf: a zero word, or a stored 0, is absent.
Exists(a) == indexOf[a] # 0
getIndexOf(a) == indexOf[a] - 1

\* getAddressAt: a zero word is absent.
AddressExists(i) == i \in DOMAIN addrAt /\ addrAt[i] # 0
getAddressAt(i) == addrAt[i]

(***************************************************************************)
(* The read methods: their result, or the error they return.               *)
(***************************************************************************)
NotFound == [ok |-> FALSE, val |-> 0]
Found(v) == [ok |-> TRUE, val |-> v]

\* addressExists: getIndexOf's found flag.
addressExists(a) == Exists(a)

\* size: getSize, a zero word being 0.
sizeOf == size

\* lookup: the index of a, an error when getIndexOf does not find it.
lookup(a) == IF Exists(a) THEN Found(getIndexOf(a)) ELSE NotFound

\* lookupIndex: the address at index i, an error when getAddressAt does not find it.
lookupIndex(i) == IF AddressExists(i) THEN Found(getAddressAt(i)) ELSE NotFound

(***************************************************************************)
(* decodeCompressed(buf, offset): the address at offset and the offset     *)
(* after it, or an error.                                                  *)
(***************************************************************************)
DecodeError == [ok |-> FALSE, addr |-> 0, off |-> 0]
Decoded(a, end) == [ok |-> TRUE, addr |-> a, off |-> end]

decodeCompressed(b, offset) ==
    IF offset >= Len(b) THEN DecodeError
    ELSE LET tag == b[offset + 1] IN
    CASE tag = 0 ->
            IF offset + 1 >= Len(b) THEN DecodeError
            ELSE LET l == b[offset + 2]
                     start == offset + 2
                     end == start + l
                 IN  IF end > Len(b) \/ l = 0 \/ l > 8 THEN DecodeError
                     ELSE LET idx == FromBigEndian(SubSeq(b, start + 1, end))
                          IN  IF AddressExists(idx) THEN Decoded(getAddressAt(idx), end)
                              ELSE DecodeError
      [] tag = 255 ->
            LET start == offset + 1
                end == start + 20
            IN  IF end > Len(b) THEN DecodeError
                ELSE Decoded(FromBigEndian(SubSeq(b, start + 1, end)), end)
      [] OTHER -> DecodeError

(***************************************************************************)
(* The operations.                                                         *)
(***************************************************************************)
Init ==
    /\ size = 0
    /\ indexOf = [a \in Addresses |-> 0]
    /\ addrAt = [i \in Indices |-> 0]
    /\ msg = <<>>
    /\ buf = <<>>
    /\ off = 0
    /\ out = <<>>
    /\ failed = FALSE

\* Mutant: the index is stored as is, not as index + 1.
registerNoPlusOne(a) ==
    /\ ~Exists(a)
    /\ indexOf' = [indexOf EXCEPT ![a] = size]
    /\ addrAt' = [addrAt EXCEPT ![size] = a]
    /\ size' = size + 1
    /\ UNCHANGED <<msg, buf, off, out, failed>>

\* Mutant: an address already present is stored again.
registerNoExistsCheck(a) ==
    /\ indexOf' = [indexOf EXCEPT ![a] = size + 1]
    /\ addrAt' = [addrAt EXCEPT ![size] = a]
    /\ size' = size + 1
    /\ UNCHANGED <<msg, buf, off, out, failed>>

\* register: an address already present returns its index; otherwise it is
\* stored at index size, and size grows by one.
register(a) ==
    /\ ~Exists(a)
    /\ indexOf' = [indexOf EXCEPT ![a] = size + 1]
    /\ addrAt' = [addrAt EXCEPT ![size] = a]
    /\ size' = size + 1
    /\ UNCHANGED <<msg, buf, off, out, failed>>

\* compress: the index form for a registered address, the raw form otherwise.
compress(a) ==
    IF Exists(a) THEN encodeCompressedIndex(getIndexOf(a))
    ELSE encodeCompressedUnregistered(a)

AppendCompressed(a) ==
    /\ Len(msg) < MaxMsg
    /\ msg' = Append(msg, a)
    /\ buf' = buf \o compress(a)
    /\ UNCHANGED <<size, indexOf, addrAt, off, out, failed>>

\* decompress at the offset the previous call returned.
decompress ==
    LET r == decodeCompressed(buf, off)
    IN  /\ ~failed
        /\ off < Len(buf)
        /\ IF r.ok THEN /\ out' = Append(out, r.addr)
                        /\ off' = r.off
                        /\ UNCHANGED failed
                   ELSE /\ failed' = TRUE
                        /\ UNCHANGED <<out, off>>
        /\ UNCHANGED <<size, indexOf, addrAt, msg, buf>>

Next ==
    \/ \E a \in Addresses : register(a)
    \/ \E a \in Addresses : AppendCompressed(a)
    \/ decompress

Spec == Init /\ [][Next]_vars

(***************************************************************************)
(* The refinement: the table is read through the index slots below size.   *)
(* The decompress step that fails leaves msg and out alone, a stutter of    *)
(* the abstract specification; DecodesWhatWasCompressed rules it out.       *)
(***************************************************************************)
Abstract == INSTANCE AddressRegistry WITH table <- [k \in 1..size |-> addrAt[k - 1]]

TypeOK ==
    /\ size \in Indices
    /\ indexOf \in [Addresses -> 0..Cardinality(Addresses)]
    /\ addrAt \in [Indices -> Addresses \cup {0}]
    /\ msg \in Seq(Addresses) /\ Len(msg) <= MaxMsg
    /\ buf \in Seq(0..255)
    /\ off \in 0..Len(buf)
    /\ out \in Seq(Addresses)
    /\ failed \in BOOLEAN

\* lookup and lookupIndex never contradict each other: an address lookup
\* finds is at an index below size where lookupIndex, when it finds
\* anything, finds that address; an address lookupIndex finds below size is
\* one lookup finds at that index.  A registered zero address is stored as
\* a zero word and read back as absent, a failure and not a contradiction.
LookupsAgree ==
    /\ \A a \in Addresses :
          lookup(a).ok => /\ lookup(a).val < sizeOf
                          /\ lookupIndex(lookup(a).val).ok => lookupIndex(lookup(a).val) = Found(a)
    /\ \A i \in 0..(sizeOf - 1) :
          lookupIndex(i).ok => lookup(lookupIndex(i).val) = Found(i)

\* Walking a buffer of compress outputs with decompress from the offsets it
\* returns yields the compressed addresses in order, whatever was registered
\* in between, and it fails only where the compressed address is the zero
\* address, whose index slot reads as absent.
DecodesWhatWasCompressed ==
    /\ IsPrefix(out, msg)
    /\ failed => msg[Len(out) + 1] = 0

\* The precompile implements AddressRegistry: register only ever appends an
\* address not yet in the table, so no index is reassigned and no address
\* gets two indices; compress and decompress only move msg and out.
AddressRegistrySpec == Abstract!Spec
=============================================================================
