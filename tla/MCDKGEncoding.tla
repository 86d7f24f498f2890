--------------------------- MODULE MCDKGEncoding ---------------------------
(***************************************************************************)
(* Two ciphersuites: secp256k1 (7), the one the senders use, with 1-byte   *)
(* elements and scalars and order 5, and P-256 (3), with the same lengths  *)
(* and order 7, so a changed group byte can still decode.  Decaf448 (2) is *)
(* not available.                                                          *)
(***************************************************************************)
EXTENDS DKGEncoding, TLC

MCCiphersuites == {3, 7}
MCElementLength == [g \in MCCiphersuites |-> 1]
MCScalarLength == [g \in MCCiphersuites |-> 1]
MCOrder == (7 :> 5) @@ (3 :> 7)
MCElementEncodings == (7 :> {<<2>>, <<3>>}) @@ (3 :> {<<2>>, <<4>>})
=============================================================================
