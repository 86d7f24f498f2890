-------------------------------- MODULE DKG --------------------------------
(***************************************************************************)
(* The three-round Distributed Key Generation of                          *)
(* precompiles/frost/bytemare-stable/dkg/dkg.go, run by the honest         *)
(* participants against Byzantine peers over a broadcast channel (Round 1) *)
(* and authenticated point-to-point channels (Round 2).                    *)
(*                                                                         *)
(* An honest participant is a Participant object of the code: its secret   *)
(* polynomial, its secret share poly(id) and its Feldman commitment.  The  *)
(* code keeps no lifecycle state; the order Start, Continue, Finalize is   *)
(* kept by its caller, whose progress is the variable phase.  The caller   *)
(* hands Continue and Finalize slices of messages it received: the model   *)
(* lets it pass any sequence drawn from the messages sent, so both the     *)
(* order of the slice and which messages it holds are explored.           *)
(*                                                                         *)
(* A Byzantine peer broadcasts one Round-1 message per identifier it may   *)
(* claim (its own commitment with a valid or broken proof, an empty        *)
(* commitment, or a replay of an honest participant's message), and sends  *)
(* any share value to any recipient label.                                 *)
(***************************************************************************)
EXTENDS FrostAlgebra, Functions

CONSTANTS
    MaxSigners,      \* p.maxSigners
    Threshold,       \* p.threshold
    Byz,             \* the Byzantine participants' identifiers
    PolyChoices,     \* the secret polynomials an honest participant may draw
    ByzPolys,        \* the polynomials a Byzantine peer may commit to
    ByzClaimIds,     \* the sender identifiers a Byzantine peer may put on Round 1
    ByzValues,       \* wrong share values a Byzantine peer may send
    AllowDuplicates, \* the caller's slices may hold the same message twice
    NoPeer,          \* an error that names no participant
    NoKeyShare       \* Finalize has not returned a key share

Participants == 1..MaxSigners
Honest == Participants \ Byz

ASSUME /\ Threshold \in 1..MaxSigners
       /\ MaxSigners < Q
       /\ Byz \subseteq Participants
       /\ PolyChoices \subseteq ValidPolynomials(Threshold) /\ PolyChoices # {}
       /\ ByzPolys \subseteq UNION {[1..n -> Scalars] : n \in 1..MaxSigners}
       /\ ByzValues \subseteq Scalars
       /\ AllowDuplicates \in BOOLEAN

VARIABLES
    poly,         \* p.polynomial
    secretShare,  \* p.secretShare
    commitment,   \* p.commitment
    keyShare,     \* the KeyShare Finalize returned
    err,          \* the error the last call returned
    phase,        \* the caller's progress through the protocol
    r1,           \* Round-1 messages broadcast
    r2            \* Round-2 messages sent

vars == <<poly, secretShare, commitment, keyShare, err, phase, r1, r2>>

Phases == {"created", "round1", "round2", "finalized", "aborted"}
NoError == [kind |-> "none", peer |-> NoPeer]
ErrKinds == {"none", "Round1DataElements", "Round2DataElements",
             "CommitmentNilElement", "AbortInvalidSignature",
             "Round2FaultyPackage", "Round2OwnPackage", "Round2InvalidReceiver",
             "CommitmentNotFound", "CommitmentEmpty", "AbortInvalidSecretShare"}
Error(kind, peer) == [kind |-> kind, peer |-> peer]

Round1Data == [sender : Nat, com : Seq(Elements), proof : Proofs]
Round2Data == [sender : Nat, recipient : Nat, share : Scalars]
KeyShares  == [id : Participants, secret : Scalars, vk : Elements, pk : Elements]

SumMod(s) == FoldLeft(LAMBDA acc, x : Add(acc, x), 0, s)

\* The slices a caller may pass: k messages of S, distinct unless duplicates occur.
Slices(S, k) == {f \in [1..k -> S] : AllowDuplicates \/ IsInjective(f)}

(***************************************************************************)
(* NewParticipant / initPoly: a polynomial of threshold coefficients, the  *)
(* own secret share poly(id) and the commitment to the polynomial.         *)
(***************************************************************************)
Init ==
    /\ poly \in [Honest -> PolyChoices]
    /\ secretShare = [h \in Honest |-> Evaluate(poly[h], SetUInt64(h))]
    /\ commitment = [h \in Honest |-> Commit(poly[h])]
    /\ keyShare = [h \in Honest |-> NoKeyShare]
    /\ err = [h \in Honest |-> NoError]
    /\ phase = [h \in Honest |-> "created"]
    /\ r1 = {}
    /\ r2 = {}

\* StartWithRandom: the commitment and a proof of knowledge of poly[0].
StartWithRandom(h) ==
    [sender |-> h, com |-> commitment[h],
     proof |-> generateZKProof(h, poly[h][1], commitment[h][1])]

Start(h) ==
    /\ phase[h] = "created"
    /\ r1' = r1 \cup {StartWithRandom(h)}
    /\ phase' = [phase EXCEPT ![h] = "round1"]
    /\ UNCHANGED <<poly, secretShare, commitment, keyShare, err, r2>>

(***************************************************************************)
(* Continue: the count check, then for every entry not sent by h, in      *)
(* order, the commitment check and the proof check; the first failure is  *)
(* returned.  On success one share per peer entry, then resetPolynomial.   *)
(***************************************************************************)
Round1Fault(h, data) ==
    IF Len(data.com) = 0 THEN Error("CommitmentNilElement", NoPeer)
    ELSE IF ~verifyZKProof(data.sender, data.com[1], data.proof)
         THEN Error("AbortInvalidSignature", data.sender)
         ELSE NoError

Round1CountOK(S) == Len(S) \in {MaxSigners, MaxSigners - 1}

FirstFault(S, Fault(_)) ==
    LET bad == {i \in 1..Len(S) : Fault(S[i]) # NoError}
    IN  IF bad = {} THEN NoError ELSE Fault(S[Min(bad)])

ContinueError(h, S) ==
    IF ~Round1CountOK(S) THEN Error("Round1DataElements", NoPeer)
    ELSE FirstFault(S, LAMBDA d : IF d.sender = h THEN NoError ELSE Round1Fault(h, d))

\* Mutant: the polynomial is dropped (set to nil) instead of zeroed.
resetPolynomialNil(p) == <<>>

resetPolynomial(p) == [k \in DOMAIN p |-> Zero]

\* The code does not stop a second call; the caller is taken to call Continue once.
Continue(h, S) ==
    /\ phase[h] = "round1"
    /\ \/ /\ ContinueError(h, S) = NoError
          /\ r2' = r2 \cup {[sender |-> h, recipient |-> S[i].sender,
                             share |-> Evaluate(poly[h], SetUInt64(S[i].sender))] :
                            i \in {j \in 1..Len(S) : S[j].sender # h}}
          /\ poly' = [poly EXCEPT ![h] = resetPolynomial(@)]
          /\ phase' = [phase EXCEPT ![h] = "round2"]
          /\ UNCHANGED err
       \/ /\ ContinueError(h, S) # NoError
          /\ err' = [err EXCEPT ![h] = ContinueError(h, S)]
          /\ phase' = [phase EXCEPT ![h] = "aborted"]
          /\ UNCHANGED <<poly, r2>>
    /\ UNCHANGED <<secretShare, commitment, keyShare, r1>>

(***************************************************************************)
(* Finalize: the count checks, then for every Round-2 entry, in order, the *)
(* header checks, the sender's commitment looked up in the Round-1 slice   *)
(* and the share verified against it.  On success the shares and the      *)
(* senders' commitment[0] are summed with the own share and commitment.    *)
(***************************************************************************)
checkRound2DataHeader(h, d) ==
    IF d.recipient = d.sender THEN Error("Round2FaultyPackage", NoPeer)
    ELSE IF d.sender = h THEN Error("Round2OwnPackage", NoPeer)
    ELSE IF d.recipient # h THEN Error("Round2InvalidReceiver", NoPeer)
    ELSE NoError

\* The index of the first Round-1 entry of sender id, 0 if there is none.
FirstOf(S1, id) ==
    LET is == {i \in 1..Len(S1) : S1[i].sender = id}
    IN  IF is = {} THEN 0 ELSE Min(is)

getCommitment(S1, id) == S1[FirstOf(S1, id)].com

\* Mutant: the share is not checked against the sender's commitment.
verifyRound2DataNoFeldman(h, S1, d) ==
    IF checkRound2DataHeader(h, d) # NoError THEN checkRound2DataHeader(h, d)
    ELSE IF FirstOf(S1, d.sender) = 0 THEN Error("CommitmentNotFound", d.sender)
    ELSE IF Len(getCommitment(S1, d.sender)) = 0 THEN Error("CommitmentEmpty", d.sender)
    ELSE NoError

\* Mutant: the share is verified at the sender's identifier, not the receiver's.
verifyRound2DataSenderId(h, S1, d) ==
    IF checkRound2DataHeader(h, d) # NoError THEN checkRound2DataHeader(h, d)
    ELSE IF FirstOf(S1, d.sender) = 0 THEN Error("CommitmentNotFound", d.sender)
    ELSE IF Len(getCommitment(S1, d.sender)) = 0 THEN Error("CommitmentEmpty", d.sender)
    ELSE IF ~VerifyCommitment(d.sender, BaseMultiply(d.share), getCommitment(S1, d.sender))
         THEN Error("AbortInvalidSecretShare", d.sender)
    ELSE NoError

verifyRound2Data(h, S1, d) ==
    IF checkRound2DataHeader(h, d) # NoError THEN checkRound2DataHeader(h, d)
    ELSE IF FirstOf(S1, d.sender) = 0 THEN Error("CommitmentNotFound", d.sender)
    ELSE IF Len(getCommitment(S1, d.sender)) = 0 THEN Error("CommitmentEmpty", d.sender)
    ELSE IF ~VerifyCommitment(h, BaseMultiply(d.share), getCommitment(S1, d.sender))
         THEN Error("AbortInvalidSecretShare", d.sender)
    ELSE NoError

FinalizeError(h, S1, S2) ==
    IF ~Round1CountOK(S1) THEN Error("Round1DataElements", NoPeer)
    ELSE IF Len(S2) # MaxSigners - 1 THEN Error("Round2DataElements", NoPeer)
    ELSE FirstFault(S2, LAMBDA d : verifyRound2Data(h, S1, d))

\* Mutant: the own commitment[0] is not added to the verification key.
FinalKeyShareNoOwnCommitment(h, S1, S2) ==
    LET secret == Add(SumMod([i \in 1..Len(S2) |-> S2[i].share]), secretShare[h])
        vk == SumMod([i \in 1..Len(S2) |-> getCommitment(S1, S2[i].sender)[1]])
    IN  [id |-> h, secret |-> secret, vk |-> vk, pk |-> BaseMultiply(secret)]

\* Mutant: the own secret share is not added to the secret key.
FinalKeyShareNoOwnShare(h, S1, S2) ==
    LET secret == SumMod([i \in 1..Len(S2) |-> S2[i].share])
        vk == Add(SumMod([i \in 1..Len(S2) |-> getCommitment(S1, S2[i].sender)[1]]),
                  commitment[h][1])
    IN  [id |-> h, secret |-> secret, vk |-> vk, pk |-> BaseMultiply(secret)]

FinalKeyShare(h, S1, S2) ==
    LET secret == Add(SumMod([i \in 1..Len(S2) |-> S2[i].share]), secretShare[h])
        vk == Add(SumMod([i \in 1..Len(S2) |-> getCommitment(S1, S2[i].sender)[1]]),
                  commitment[h][1])
    IN  [id |-> h, secret |-> secret, vk |-> vk, pk |-> BaseMultiply(secret)]

Finalize(h, S1, S2) ==
    /\ phase[h] = "round2"
    /\ \/ /\ FinalizeError(h, S1, S2) = NoError
          /\ keyShare' = [keyShare EXCEPT ![h] = FinalKeyShare(h, S1, S2)]
          /\ secretShare' = [secretShare EXCEPT ![h] = Zero]
          /\ phase' = [phase EXCEPT ![h] = "finalized"]
          /\ UNCHANGED err
       \/ /\ FinalizeError(h, S1, S2) # NoError
          /\ err' = [err EXCEPT ![h] = FinalizeError(h, S1, S2)]
          /\ phase' = [phase EXCEPT ![h] = "aborted"]
          /\ UNCHANGED <<keyShare, secretShare>>
    /\ UNCHANGED <<poly, commitment, r1, r2>>

(***************************************************************************)
(* The Byzantine peers.                                                   *)
(***************************************************************************)
ByzRound1(id) ==
    UNION {{[com |-> Commit(p), proof |-> pf] :
               pf \in {generateZKProof(id, p[1], p[1]),
                       generateZKProof(id, (p[1] + 1) % Q, p[1])}} : p \in ByzPolys}
    \cup {[com |-> <<>>, proof |-> generateZKProof(id, 0, 0)]}
    \cup {[com |-> m.com, proof |-> m.proof] : m \in {m \in r1 : m.sender \in Honest}}

ByzBroadcast(id) ==
    /\ \A m \in r1 : m.sender # id
    /\ \E c \in ByzRound1(id) :
          r1' = r1 \cup {[sender |-> id, com |-> c.com, proof |-> c.proof]}
    /\ UNCHANGED <<poly, secretShare, commitment, keyShare, err, phase, r2>>

ByzSendShare(b, r, v) ==
    /\ \A m \in r2 : m.sender # b \/ m.recipient # r
    /\ r2' = r2 \cup {[sender |-> b, recipient |-> r, share |-> v]}
    /\ UNCHANGED <<poly, secretShare, commitment, keyShare, err, phase, r1>>

\* The Round-2 messages the transport may hand to h: those addressed to h,
\* and anything a Byzantine peer sends h directly.
Deliverable(h) == {m \in r2 : m.recipient = h \/ m.sender \in Byz}

Next ==
    \/ \E h \in Honest : Start(h)
    \/ \E h \in Honest, k \in {MaxSigners - 2, MaxSigners - 1, MaxSigners} :
          \E S \in Slices(r1, k) : Continue(h, S)
    \/ \E h \in Honest, k \in {MaxSigners - 1, MaxSigners}, k2 \in {MaxSigners - 2, MaxSigners - 1} :
          \E S1 \in Slices(r1, k), S2 \in Slices(Deliverable(h), k2) : Finalize(h, S1, S2)
    \/ \E id \in ByzClaimIds : ByzBroadcast(id)
    \/ \E b \in Byz, r \in Participants :
          \E v \in {Evaluate(p, SetUInt64(r)) : p \in ByzPolys} \cup ByzValues :
             ByzSendShare(b, r, v)

Spec == Init /\ [][Next]_vars

(***************************************************************************)
(* What the protocol promises, stated with the code's own public helpers. *)
(***************************************************************************)

\* The Round-1 messages of the participants, one per identifier.
ParticipantRound1 == {m \in r1 : m.sender \in Participants}

Finalized == {h \in Honest : keyShare[h] # NoKeyShare}

\* VerificationKeyFromRound1: the sum of every commitment[0].
VerificationKeyFromRound1(S) == FoldSet(LAMBDA m, acc : Add(acc, m.com[1]), 0, S)

\* ComputeParticipantPublicKey: the sum over the commitments of PubKeyForCommitment(id).
ComputeParticipantPublicKey(id, S) ==
    FoldSet(LAMBDA m, acc : Add(acc, PubKeyForCommitment(id, m.com)), 0, S)

\* VerifyPublicKey
VerifyPublicKey(id, pubKey, S) == pubKey = ComputeParticipantPublicKey(id, S)

TypeOK ==
    /\ phase \in [Honest -> Phases]
    /\ poly \in [Honest -> [1..Threshold -> Scalars]]
    /\ secretShare \in [Honest -> Scalars]
    /\ commitment \in [Honest -> [1..Threshold -> Elements]]
    /\ keyShare \in [Honest -> {NoKeyShare} \cup KeyShares]
    /\ err \in [Honest -> [kind : ErrKinds, peer : Nat \cup {NoPeer}]]
    /\ r1 \subseteq Round1Data
    /\ r2 \subseteq Round2Data

\* Every honest participant that Finalize let through holds the same group key,
\* the one VerificationKeyFromRound1 computes from the broadcast: Finalize sums
\* the commitment[0] of the senders of its Round-2 slice and its own.
VKAgreement ==
    \A h \in Finalized : keyShare[h].vk = VerificationKeyFromRound1(ParticipantRound1)

\* The public key share Finalize returns passes VerifyPublicKey against the
\* broadcast commitments, so others can check it: every share Finalize summed
\* was checked against its sender's commitment by verifyCommitmentPublicKey.
KeyShareVerifies ==
    \A h \in Finalized : VerifyPublicKey(h, keyShare[h].pk, ParticipantRound1)

\* Any Threshold of the finalized key shares reconstruct, by CombineShares, the
\* secret whose public key is the group verification key, whenever every
\* broadcast commitment has at most Threshold entries.  Continue and Finalize
\* accept a commitment of any non-zero length (dkg.go:206); the Byzantine
\* peer may commit to a longer polynomial, and the property says that this
\* unchecked length is the only way to break reconstruction.
DegreeBounded == \A m \in ParticipantRound1 : Len(m.com) <= Threshold
GroupSecretReconstructs ==
    DegreeBounded =>
    \A F \in SUBSET Finalized :
        Cardinality(F) = Threshold =>
            \A h \in F :
                BaseMultiply(CombineShares({[id |-> g, secret |-> keyShare[g].secret] : g \in F}))
                    = keyShare[h].vk

\* A protocol abort of Continue (invalid proof) or Finalize (invalid share)
\* names a Byzantine participant, never an honest one.
AbortKinds == {"AbortInvalidSignature", "AbortInvalidSecretShare"}
BlameIsFaulty ==
    \A h \in Honest : err[h].kind \in AbortKinds => err[h].peer \in Byz
\* Continue hands an honest participant's polynomial out only at the points of
\* the other participants, so the points outside the honest set number fewer
\* than Threshold and never include 0 (its secret poly[0]); what the Byzantine
\* peers learn does not determine the honest secret.
HonestSecretHidden ==
    \A h \in Honest :
        LET leaked == {SetUInt64(m.recipient) : m \in {m \in r2 : m.sender = h /\ m.recipient \notin Honest}}
        IN  0 \notin leaked /\ Cardinality(leaked) < Threshold

=============================================================================
