---------------------------- MODULE DKGEncoding ----------------------------
(***************************************************************************)
(* The compact byte encodings of the DKG messages (dkg/messages.go):      *)
(* Round1Data and Round2Data Encode, and the Decode that reads them back  *)
(* on the recipient's side; and of a standalone proof of knowledge, the   *)
(* Signature of dkg/frost.go.  A sender encodes a message onto the wire,    *)
(* the wire may be altered in transit (a byte overwritten, the last byte  *)
(* cut or a byte added), and the recipient decodes what arrives.          *)
(*                                                                         *)
(* Bytes are 0..255.  A scalar is encoded big-endian in ScalarLength[g]   *)
(* bytes (Scalar.Encode, FillBytes) and decoded by Scalar.Decode; an      *)
(* element is its encoding, and decodes when it is one of the group's     *)
(* ElementEncodings (the ecc package is not in the repository).  Both     *)
(* lengths and the order are small stand-ins for the group's.              *)
(***************************************************************************)
EXTENDS Naturals, Sequences, SequencesExt, FiniteSets

CONSTANTS
    Ciphersuites,     \* the byte values Ciphersuite.Available accepts
    ElementLength,    \* group -> g.ElementLength()
    ScalarLength,     \* group -> g.ScalarLength()
    Order,            \* group -> the group order
    ElementEncodings, \* group -> the byte strings Element.Decode accepts
    SendGroups,       \* the groups honest senders run the DKG in
    Ids,              \* the identifiers senders use
    MaxCommitment,    \* the longest commitment sent
    TamperBytes,      \* the byte values the wire may be altered to
    MaxTamper         \* the most alterations of one wire

Bytes == 0..255

ASSUME /\ Ciphersuites \subseteq Bytes /\ SendGroups \subseteq Ciphersuites
       /\ \A g \in Ciphersuites :
            /\ ElementEncodings[g] \subseteq [1..ElementLength[g] -> Bytes]
            /\ Order[g] \in 1..(256^ScalarLength[g])
       /\ Ids \subseteq 0..65535 /\ MaxCommitment < 65536
       /\ TamperBytes \subseteq Bytes

(***************************************************************************)
(* Fixed-width integers.                                                   *)
(***************************************************************************)
\* binary.LittleEndian.PutUint16 and Uint16.
PutUint16(x) == << x % 256, x \div 256 >>
Uint16(lo, hi) == lo + 256 * hi

\* FillBytes: the n-byte big-endian form of x; SetBytes: its inverse.
RECURSIVE FillBytes(_, _)
FillBytes(x, n) == IF n = 0 THEN <<>> ELSE Append(FillBytes(x \div 256, n - 1), x % 256)
SetBytes(bs) == FoldLeft(LAMBDA acc, b : acc * 256 + b, 0, bs)

(***************************************************************************)
(* Scalars and elements.                                                   *)
(***************************************************************************)
Scalars(g) == 0..(Order[g] - 1)

ScalarEncode(g, s) == FillBytes(s, ScalarLength[g])

Fail(e) == [ok |-> FALSE, err |-> e]
Ok(v) == [ok |-> TRUE, val |-> v]

\* Mutant: the order check is left out.
ScalarDecodeNoOrderCheck(g, in) ==
    CASE Len(in) = 0 -> Fail("errParamNilScalar")
      [] Len(in) # ScalarLength[g] -> Fail("errParamScalarLength")
      [] OTHER -> Ok(SetBytes(in))

\* Mutant: a value not below the order is reduced instead of rejected.
ScalarDecodeReduce(g, in) ==
    CASE Len(in) = 0 -> Fail("errParamNilScalar")
      [] Len(in) # ScalarLength[g] -> Fail("errParamScalarLength")
      [] OTHER -> Ok(SetBytes(in) % Order[g])

\* Scalar.Decode: the length, then the value against the order.
ScalarDecode(g, in) ==
    CASE Len(in) = 0 -> Fail("errParamNilScalar")
      [] Len(in) # ScalarLength[g] -> Fail("errParamScalarLength")
      [] Order[g] <= SetBytes(in) -> Fail("errParamScalarTooBig")
      [] OTHER -> Ok(SetBytes(in))

ElementDecode(g, in) ==
    IF in \in ElementEncodings[g] THEN Ok(in) ELSE Fail("errElementDecode")

\* readScalarFromBytes / readElementFromBytes: the value at offset and the offset after it.
readScalarFromBytes(g, data, offset) ==
    LET r == ScalarDecode(g, SubSeq(data, offset + 1, offset + ScalarLength[g]))
    IN  IF r.ok THEN [ok |-> TRUE, val |-> r.val, off |-> offset + ScalarLength[g]] ELSE r

readElementFromBytes(g, data, offset) ==
    LET r == ElementDecode(g, SubSeq(data, offset + 1, offset + ElementLength[g]))
    IN  IF r.ok THEN [ok |-> TRUE, val |-> r.val, off |-> offset + ElementLength[g]] ELSE r

(***************************************************************************)
(* The messages.  A Round1Data is [group, id, r, z, commitment]: the proof *)
(* of knowledge is (r, z); a Round2Data is [group, sender, recipient,      *)
(* share].                                                                 *)
(***************************************************************************)
Round1Datas ==
    UNION {[group : {g}, id : Ids, r : ElementEncodings[g], z : Scalars(g),
            commitment : UNION {[1..n -> ElementEncodings[g]] : n \in 0..MaxCommitment}]
           : g \in SendGroups}

Round2Datas ==
    UNION {[group : {g}, sender : Ids, recipient : Ids, share : Scalars(g)] : g \in SendGroups}

\* Mutant: the identifier is written big-endian.
Round1EncodeIdBigEndian(d) ==
    << d.group >> \o FillBytes(d.id, 2) \o PutUint16(Len(d.commitment) % 65536)
    \o d.r \o ScalarEncode(d.group, d.z) \o FlattenSeq(d.commitment)

\* Round1Data.Encode: group, id, commitment length, R, Z, then the commitment.
Round1Encode(d) ==
    << d.group >> \o PutUint16(d.id) \o PutUint16(Len(d.commitment) % 65536)
    \o d.r \o ScalarEncode(d.group, d.z) \o FlattenSeq(d.commitment)

\* Round2Data.Encode: group, sender, recipient, then the share.
Round2Encode(d) ==
    << d.group >> \o PutUint16(d.sender) \o PutUint16(d.recipient)
    \o ScalarEncode(d.group, d.share)

\* The commitment elements of Round1Data.Decode, read in order from offset;
\* the first that fails is the error.
RECURSIVE ReadCommitment(_, _, _, _)
ReadCommitment(g, data, offset, n) ==
    IF n = 0 THEN [ok |-> TRUE, val |-> <<>>]
    ELSE LET e == readElementFromBytes(g, data, offset)
             rest == ReadCommitment(g, data, offset + ElementLength[g], n - 1)
         IN  CASE ~e.ok -> e
               [] ~rest.ok -> rest
               [] OTHER -> [ok |-> TRUE, val |-> << e.val >> \o rest.val]

\* Round1Data.Decode: the checks in the code's order.
Round1Decode(data) ==
    IF Len(data) <= 5 THEN Fail("errEncodingInvalidLength")
    ELSE IF data[1] \notin Ciphersuites THEN Fail("errInvalidCiphersuite")
    ELSE
    LET g == data[1]
        comLen == Uint16(data[4], data[5])
        expectedSize == 5 + ElementLength[g] + ScalarLength[g] + comLen * ElementLength[g]
        r == readElementFromBytes(g, data, 5)
        z == readScalarFromBytes(g, data, 5 + ElementLength[g])
        com == ReadCommitment(g, data, 5 + ElementLength[g] + ScalarLength[g], comLen)
    IN  CASE Len(data) # expectedSize -> Fail("errDecodeInvalidLength")
          [] ~r.ok -> Fail("errDecodeProofR")
          [] ~z.ok -> Fail("errDecodeProofZ")
          [] ~com.ok -> Fail("errDecodeCommitment")
          [] OTHER -> Ok([group |-> g, id |-> Uint16(data[2], data[3]), r |-> r.val,
                          z |-> z.val, commitment |-> com.val])

\* Round2Data.Decode.
Round2Decode(data) ==
    IF Len(data) <= 5 THEN Fail("errEncodingInvalidLength")
    ELSE IF data[1] \notin Ciphersuites THEN Fail("errInvalidCiphersuite")
    ELSE
    LET g == data[1]
        share == readScalarFromBytes(g, data, 5)
    IN  CASE Len(data) # 5 + ScalarLength[g] -> Fail("errDecodeInvalidLength")
          [] ~share.ok -> Fail("errDecodeSecretShare")
          [] OTHER -> Ok([group |-> g, sender |-> Uint16(data[2], data[3]),
                          recipient |-> Uint16(data[4], data[5]), share |-> share.val])

\* A Signature (a proof of knowledge) is [group, r, z].
Signatures == UNION {[group : {g}, r : ElementEncodings[g], z : Scalars(g)] : g \in SendGroups}

\* Signature.Encode: group, R, then Z.
SignatureEncode(d) == << d.group >> \o d.r \o ScalarEncode(d.group, d.z)

\* Signature.Decode: the length, the ciphersuite, the exact length, R, then Z.
SignatureDecode(data) ==
    IF Len(data) <= 1 THEN Fail("errEncodingInvalidLength")
    ELSE IF data[1] \notin Ciphersuites THEN Fail("errInvalidCiphersuite")
    ELSE
    LET g == data[1]
        r == readElementFromBytes(g, data, 1)
        z == readScalarFromBytes(g, data, 1 + ElementLength[g])
    IN  CASE Len(data) # 1 + ElementLength[g] + ScalarLength[g] -> Fail("errEncodingInvalidLength")
          [] ~r.ok -> Fail("errDecodeProofR")
          [] ~z.ok -> Fail("errDecodeProofZ")
          [] OTHER -> Ok([group |-> g, r |-> r.val, z |-> z.val])

Encode(kind, d) ==
    CASE kind = "round1" -> Round1Encode(d)
      [] kind = "round2" -> Round2Encode(d)
      [] OTHER -> SignatureEncode(d)
Decode(kind, data) ==
    CASE kind = "round1" -> Round1Decode(data)
      [] kind = "round2" -> Round2Decode(data)
      [] OTHER -> SignatureDecode(data)

(***************************************************************************)
(* The wire.                                                               *)
(***************************************************************************)
VARIABLES
    kind,      \* "round1", "round2" or "proof": what is on the wire
    sent,      \* the message the sender encoded
    wire,      \* the bytes in transit
    tampered,  \* the alterations the wire went through
    decoded    \* the recipient's Decode result, or NoResult before it decodes

vars == <<kind, sent, wire, tampered, decoded>>

NoResult == [ok |-> FALSE, err |-> "none"]

Init ==
    /\ kind = "round1"
    /\ sent \in Round1Datas
    /\ wire = Round1Encode(sent)
    /\ tampered = 0
    /\ decoded = NoResult

\* Start broadcasts d.Encode() (round 1); Continue sends d.Encode() (round 2).
SendRound1(d) ==
    /\ kind' = "round1" /\ sent' = d /\ wire' = Round1Encode(d)
    /\ tampered' = 0 /\ decoded' = NoResult

SendRound2(d) ==
    /\ kind' = "round2" /\ sent' = d /\ wire' = Round2Encode(d)
    /\ tampered' = 0 /\ decoded' = NoResult

\* FrostGenerateZeroKnowledgeProof returns a Signature the caller sends as
\* Encode().
SendProof(d) ==
    /\ kind' = "proof" /\ sent' = d /\ wire' = SignatureEncode(d)
    /\ tampered' = 0 /\ decoded' = NoResult

\* The wire is altered: one byte overwritten, the last byte cut, or a byte added.
Tamper ==
    /\ tampered < MaxTamper /\ decoded = NoResult
    /\ \/ \E i \in 1..Len(wire), b \in TamperBytes :
            b # wire[i] /\ wire' = [wire EXCEPT ![i] = b]
       \/ wire # <<>> /\ wire' = SubSeq(wire, 1, Len(wire) - 1)
       \/ \E b \in TamperBytes : wire' = Append(wire, b)
    /\ tampered' = tampered + 1
    /\ UNCHANGED <<kind, sent, decoded>>

\* The recipient decodes the wire.
Receive ==
    /\ decoded = NoResult
    /\ decoded' = Decode(kind, wire)
    /\ UNCHANGED <<kind, sent, wire, tampered>>

Next ==
    \/ \E d \in Round1Datas : SendRound1(d)
    \/ \E d \in Round2Datas : SendRound2(d)
    \/ \E d \in Signatures : SendProof(d)
    \/ Tamper
    \/ Receive

Spec == Init /\ [][Next]_vars

TypeOK ==
    /\ kind \in {"round1", "round2", "proof"}
    /\ sent \in CASE kind = "round1" -> Round1Datas
                  [] kind = "round2" -> Round2Datas
                  [] OTHER -> Signatures
    /\ wire \in Seq(Bytes)
    /\ tampered \in 0..MaxTamper
    /\ decoded.ok \in BOOLEAN
    /\ decoded.ok => LET v == decoded.val IN
          /\ v.group \in Ciphersuites
          /\ CASE kind = "round1" ->
                    /\ DOMAIN v = {"group", "id", "r", "z", "commitment"}
                    /\ v.id \in 0..65535 /\ v.r \in ElementEncodings[v.group]
                    /\ v.z \in Scalars(v.group) /\ v.commitment \in Seq(ElementEncodings[v.group])
                [] kind = "round2" ->
                    /\ DOMAIN v = {"group", "sender", "recipient", "share"}
                    /\ {v.sender, v.recipient} \subseteq 0..65535 /\ v.share \in Scalars(v.group)
                [] OTHER ->
                    /\ DOMAIN v = {"group", "r", "z"}
                    /\ v.r \in ElementEncodings[v.group] /\ v.z \in Scalars(v.group)

\* A message that reaches the recipient unaltered decodes, and to exactly the
\* message the sender encoded: Decode inverts Encode for every Round1Data,
\* Round2Data and proof Signature a participant produces.
DecodesWhatWasSent ==
    (decoded # NoResult /\ tampered = 0) => decoded = Ok(sent)

\* Decode accepts only canonical encodings: whatever the wire went through, a
\* byte string that decodes is the Encode of what it decoded to, so no two
\* byte strings are read as the same message.
AcceptsOnlyCanonical ==
    decoded.ok => Encode(kind, decoded.val) = wire
=============================================================================
