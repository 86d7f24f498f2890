---------------------------- MODULE FrostAlgebra ----------------------------
(***************************************************************************)
(* The algebra under the DKG of precompiles/frost/bytemare-stable/dkg: a   *)
(* prime-order group, Shamir polynomials with Feldman commitments, and the *)
(* Schnorr proof of knowledge that Round 1 carries.                         *)
(*                                                                         *)
(* The group has prime order Q and is cyclic, so it is isomorphic to the   *)
(* integers mod Q: an Element Base^x is represented by its discrete log x. *)
(* Element addition is then addition mod Q, Multiply(e, s) is e * s mod Q  *)
(* and the identity element is 0.  A Scalar is an integer in 0..Q-1, and   *)
(* SetUInt64(id) is id mod Q.  Feldman's check Base^share = prod_k C_k^(id^k) *)
(* is then the equation share = sum_k C[k] * id^k (mod Q), exactly.        *)
(*                                                                         *)
(* The Fiat-Shamir proof is abstracted to what its verification decides:   *)
(* the challenge hashes the identifier, the public value and R, so a proof *)
(* verifies for (id, pk) only if it was generated for that id and that pk  *)
(* with the discrete log of pk as secret.  A proof is the record of those  *)
(* three inputs of generateZKProof.                                         *)
(***************************************************************************)
EXTENDS Naturals, Sequences, FiniteSets, SequencesExt

CONSTANT Q   \* the order of the group, a small prime in the models

ASSUME Q \in Nat /\ Q > 2 /\ \A d \in 2..(Q - 1) : Q % d # 0

Scalars  == 0..(Q - 1)
Elements == 0..(Q - 1)         \* Base^x, written x

\* Scalar.Zero: the scalar set to 0 in place.
Zero == 0

\* Scalar.Add and Scalar.Multiply: the field operations mod the order.
Add(a, b) == (a + b) % Q
Multiply(a, b) == (a * b) % Q

\* Scalar.SetUInt64: an identifier read as a scalar, reduced mod the order.
SetUInt64(i) == i % Q

\* Scalar.Pow: x^k mod the order, 1 for a zero exponent.
RECURSIVE Pow(_, _)
Pow(x, k) == IF k = 0 THEN 1 % Q ELSE Multiply(x, Pow(x, k - 1))

(***************************************************************************)
(* secretsharing.Polynomial.Verify, used by checkPolynomial: no zero       *)
(* coefficient and no two equal coefficients.  A supplied polynomial must  *)
(* also have exactly threshold coefficients.                               *)
(***************************************************************************)
checkPolynomial(threshold, p) ==
    /\ Len(p) = threshold
    /\ \A i \in 1..Len(p) : p[i] # 0
    /\ \A i, j \in 1..Len(p) : i # j => p[i] # p[j]

ValidPolynomials(threshold) ==
    {p \in [1..threshold -> Scalars] : checkPolynomial(threshold, p)}

\* Polynomial.Evaluate: Horner's method over the scalar field.
Evaluate(p, x) ==
    FoldRight(LAMBDA c, acc : Add(Multiply(acc, x), c), p, 0)

\* secretsharing.Commit: one element Base^p[k] per coefficient.
Commit(p) == [k \in 1..Len(p) |-> p[k]]

\* secretsharing.PubKeyForCommitment: prod_k commitment[k]^(id^k).
PubKeyForCommitment(id, commitment) ==
    FoldLeft(LAMBDA acc, k : Add(acc, Multiply(commitment[k], Pow(SetUInt64(id), k - 1))),
             0, [k \in 1..Len(commitment) |-> k])

\* secretsharing.Verify: the candidate key is the one the commitment implies.
VerifyCommitment(id, pk, commitment) == pk = PubKeyForCommitment(id, commitment)

\* Base().Multiply(s)
BaseMultiply(s) == s % Q

(***************************************************************************)
(* The proof of knowledge of frost.go.  generateZKProof(g, id, secret, pk) *)
(* yields R = Base^k and z = k + secret * challenge(id, pk, R); the proof  *)
(* is represented by (id, pk, secret).  verifyZKProof recomputes the       *)
(* challenge from (id, pk, R) and accepts iff R = Base^z - pk^challenge,   *)
(* that is iff the proof was made for this id and this pk with a secret    *)
(* whose public value is pk.                                               *)
(***************************************************************************)
Proofs == [id : Nat, pk : Elements, secret : Scalars]

generateZKProof(id, secret, pk) == [id |-> id, pk |-> pk, secret |-> secret]

verifyZKProof(id, pk, proof) ==
    /\ proof.id = id
    /\ proof.pk = pk
    /\ BaseMultiply(proof.secret) = pk

(***************************************************************************)
(* Lagrange interpolation at 0 (secretsharing.CombineShares) over a set of *)
(* shares [id, secret] with distinct identifiers, used to state what the   *)
(* key shares promise.                                                     *)
(***************************************************************************)
\* Scalar.Invert: the inverse mod the (prime) order.
Invert(a) == CHOOSE b \in Scalars : Multiply(a, b) = 1 % Q

LagrangeAtZero(ids, i) ==
    LET others == ids \ {i}
        num == FoldSet(LAMBDA j, acc : Multiply(acc, SetUInt64(j)), 1, others)
        den == FoldSet(LAMBDA j, acc : Multiply(acc, Add(SetUInt64(j), Q - SetUInt64(i))), 1, others)
    IN  Multiply(num, Invert(den))

CombineShares(shares) ==
    LET ids == {s.id : s \in shares}
    IN  FoldSet(LAMBDA s, acc : Add(acc, Multiply(s.secret, LagrangeAtZero(ids, s.id))), 0, shares)
=============================================================================
