------------------------------ MODULE SolanaTx ------------------------------
(***************************************************************************)
(* The SolanaTx precompile (precompiles/solanatx): generateSolanaTx        *)
(* serializes a Solana message, stores its bytes in the precompile's       *)
(* storage under its keccak id and appends the id to an index;             *)
(* getSolanaTxs pages through the index.                                   *)
(*                                                                         *)
(* Storage is the precompile's EVM storage: 32-byte words that read as     *)
(* zero until written.  The slots are keccak hashes of distinct preimages  *)
(* (the "len" slot and word slots of each stored value, the index length   *)
(* and index entries), taken as collision free, so each kind of slot is a  *)
(* variable of its own.  A message is a member of Txs; its serialization   *)
(* is TxBytes[tx] and its id, keccak of the bytes, is the message itself.  *)
(* A word holds WordSize bytes (32 in the code).  uint64 arithmetic is     *)
(* arithmetic modulo 2^Width (2^64 in the code).  The ABI arguments skip   *)
(* and limit of getSolanaTxs are wider unsigned integers, big.Int, of      *)
(* ArgWidth bits, which the code narrows with Uint64().                    *)
(***************************************************************************)
EXTENDS Naturals, Sequences, SequencesExt, FiniteSets, FiniteSetsExt

CONSTANTS
    Txs,        \* the messages callers generate
    TxBytes,    \* their serializations: Txs -> Seq(0..255)
    WordSize,   \* bytes per storage word
    Width,      \* bits of a uint64
    ArgWidth,   \* bits of the ABI's skip and limit arguments
    MaxTxs,     \* the most generateSolanaTx calls explored
    NoTx        \* an index entry that reads as the zero hash

ASSUME /\ TxBytes \in [Txs -> Seq(0..255)]
       /\ \A t \in Txs : Len(TxBytes[t]) > 0
       /\ \A s, t \in Txs : TxBytes[s] = TxBytes[t] => s = t
       /\ WordSize \in Nat \ {0} /\ Width \in Nat \ {0} /\ MaxTxs \in Nat
       /\ ArgWidth \in Nat /\ ArgWidth >= Width

U64 == 2^Width

\* The values the ABI decodes for skip and limit.
ArgValues == 0..(2^ArgWidth - 1)

\* big.Int.Uint64: the low Width bits (Go leaves a value that does not fit
\* undefined; its build returns the low-order word).
Uint64(x) == x % U64

\* The uint64 sum of two uint64 values.
AddUint64(a, b) == (a + b) % U64

\* The number of words putBytes writes for n bytes.
NumWords(n) == (n + WordSize - 1) \div WordSize

WordIdx == 0..(NumWords(Max({Len(TxBytes[t]) : t \in Txs})) - 1)
Positions == 0..(MaxTxs - 1)
ZeroWord == [k \in 1..WordSize |-> 0]

VARIABLES
    txLen,     \* tx -> the word at the len slot of keccak("solanatx:" || id)
    txWords,   \* tx -> i -> the word at slotForIndex(base, i)
    idxLen,    \* the word at the len slot of keccak("solanatx:index")
    idxAt,     \* i -> the word at slotForIndex(indexBase, i)
    page       \* the last getSolanaTxs call: its arguments, the total it read and its result

vars == <<txLen, txWords, idxLen, idxAt, page>>

(***************************************************************************)
(* putBytes and getBytes: a byte string as a length word and 32-byte       *)
(* words, the last one zero padded.                                        *)
(***************************************************************************)
\* copy(word[:], value[off:end]): word i of value, zero padded.
Chunk(value, i) ==
    LET off == i * WordSize
        end == Min({off + WordSize, Len(value)})
    IN  SubSeq(value, off + 1, end) \o [k \in 1..(WordSize - (end - off)) |-> 0]

\* Mutant: the loop stops before a partial last word (off + 32 <= len).
putBytesFullWords(words, value) ==
    [i \in WordIdx |-> IF i < Len(value) \div WordSize THEN Chunk(value, i) ELSE words[i]]

\* putBytes: the words a value is written to; the ones past its end keep what they held.
putBytes(words, value) ==
    [i \in WordIdx |-> IF i < NumWords(Len(value)) THEN Chunk(value, i) ELSE words[i]]

\* getBytes: nil for a zero length, else the first total bytes of the words.
getBytes(t) ==
    LET total == txLen[t]
    IN  IF total = 0 THEN <<>>
        ELSE SubSeq(FlattenSeq([k \in 1..NumWords(total) |-> txWords[t][k - 1]]), 1, total)

\* getSolanaTx: the bytes stored under the message's id, read by getBytes.
getSolanaTx(t) == getBytes(t)

Init ==
    /\ txLen = [t \in Txs |-> 0]
    /\ txWords = [t \in Txs |-> [i \in WordIdx |-> ZeroWord]]
    /\ idxLen = 0
    /\ idxAt = [i \in Positions |-> NoTx]
    /\ page = [skip |-> 0, limit |-> 0, total |-> 0, ok |-> TRUE, txs |-> <<>>]

\* Mutant: the id is written one entry past the length.
appendTxIndexPastEnd(t) ==
    /\ idxAt' = [idxAt EXCEPT ![idxLen + 1] = t]
    /\ idxLen' = idxLen + 1

\* appendTxIndex: the id goes to entry cur = len, and len becomes cur + 1.
appendTxIndex(t) ==
    /\ idxAt' = [idxAt EXCEPT ![idxLen] = t]
    /\ idxLen' = idxLen + 1

\* generateSolanaTx: store the bytes under the id, then appendTxIndex.
generateSolanaTx(t) ==
    /\ idxLen < MaxTxs
    /\ txLen' = [txLen EXCEPT ![t] = Len(TxBytes[t])]
    /\ txWords' = [txWords EXCEPT ![t] = putBytes(@, TxBytes[t])]
    /\ appendTxIndex(t)
    /\ UNCHANGED page

(***************************************************************************)
(* getSolanaTxs(skip, limit): skip and limit narrowed by Uint64(), then    *)
(* the stored bytes of index entries skip ..                               *)
(* min(skip + limit, total) - 1, zero entries skipped.  end = start +      *)
(* limit is a uint64 sum; when it wraps, end < start and                   *)
(* make([][]byte, 0, end-start) is asked for a capacity near 2^64 and      *)
(* panics, so the call fails.                                              *)
(***************************************************************************)
Failed == [ok |-> FALSE, txs |-> <<>>]
Returned(txs) == [ok |-> TRUE, txs |-> txs]

\* The entries start .. last - 1 that are not the zero hash, read with getBytes.
ReadEntries(start, last) ==
    LET ids == SelectSeq([k \in 1..(last - start) |-> idxAt[start + k - 1]], LAMBDA id : id # NoTx)
    IN  [k \in 1..Len(ids) |-> getBytes(ids[k])]

Page(skip, limit) ==
    LET total == idxLen
        end == Min({AddUint64(skip, limit), total})
    IN  CASE limit = 0 -> Returned(<<>>)
          [] total = 0 \/ skip >= total -> Returned(<<>>)
          [] end < skip -> Failed
          [] OTHER -> Returned(ReadEntries(skip, end))

getSolanaTxs(skipBI, limitBI) ==
    /\ page' = [skip |-> skipBI, limit |-> limitBI, total |-> idxLen]
                 @@ Page(Uint64(skipBI), Uint64(limitBI))
    /\ UNCHANGED <<txLen, txWords, idxLen, idxAt>>

Next ==
    \/ \E t \in Txs : generateSolanaTx(t)
    \/ \E skipBI, limitBI \in ArgValues : getSolanaTxs(skipBI, limitBI)

Spec == Init /\ [][Next]_vars

TypeOK ==
    /\ idxLen \in 0..MaxTxs
    /\ idxAt \in [Positions -> Txs \cup {NoTx}]
    /\ \A i \in 0..(idxLen - 1) : idxAt[i] \in Txs
    /\ txLen \in [Txs -> Nat]
    /\ txWords \in [Txs -> [WordIdx -> Seq(0..255)]]
    /\ page.ok \in BOOLEAN /\ page.txs \in Seq(Seq(0..255))

\* getSolanaTx returns, for every id in the index, the bytes generateSolanaTx
\* serialized for it, however the words of several stored messages and
\* repeated generations of one message were written; for an id never
\* generated it returns no bytes.
StoredTxReadsBack ==
    /\ \A i \in 0..(idxLen - 1) : getSolanaTx(idxAt[i]) = TxBytes[idxAt[i]]
    /\ \A t \in Txs : (\A i \in 0..(idxLen - 1) : idxAt[i] # t) => getSolanaTx(t) = << >>

\* Every getSolanaTxs call returns, whatever skip and limit the caller passes.
EveryPageReturns == page.ok
=============================================================================
