------------------------------- MODULE MCDKG -------------------------------
(***************************************************************************)
(* Three participants with threshold two over the group of order 5;       *)
(* participant 3 is Byzantine.                                             *)
(***************************************************************************)
EXTENDS DKG

\* Two secret polynomials per honest participant keep the initial states few
\* while letting the honest secrets and commitments differ.
MCPolyChoices == {<<1, 2>>, <<3, 1>>}

\* A Byzantine peer commits to a polynomial of threshold coefficients, or to
\* one of three, which Continue and Finalize accept as well. <<4, 1, 1>> is
\* <<2, 4>> + (r-1)(r-2): the same shares at ids 1 and 2, another constant.
MCByzPolys == {<<2, 4>>, <<4, 1, 1>>}
\* A Byzantine peer commits to a valid polynomial or to one whose constant
\* term is the identity.
MCByzPolysIdentity == {<<2, 4>>, <<0, 3>>}

MCByzClaimIds == {3}

\* A Byzantine peer sends the shares of either polynomial whatever it
\* committed to, so wrong shares (those of the other polynomial) occur
\* without further values.
MCByzValues == {}
\* A Byzantine peer also broadcasts under identifier 0.
MCByzClaimIdsZero == {0, 3}
=============================================================================
