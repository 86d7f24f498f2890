---------------------------- MODULE MCValRewards ----------------------------
(***************************************************************************)
(* Two validators, two delegators, epochs of two blocks and six blocks.    *)
(***************************************************************************)
EXTENDS ValRewards, TLC

CONSTANTS v1, v2, d1, d2

MCValidators == {v1, v2}
MCDelegators == {d1, d2}

\* d1 delegates to both validators and d2 to v2 only.
MCDelegations == {<<d1, v1>>, <<d1, v2>>, <<d2, v2>>}

\* The staking store iterates v1 before v2.
MCValidatorOrder == <<v1, v2>>

\* Each delegator delegates to its own validator.
MCDelegationsDisjoint == {<<d1, v1>>, <<d2, v2>>}

\* Equal powers, unequal powers (shares of 1/3 and 2/3 that truncate), and
\* a commit that only v1 is part of.
MCVoteSets == {(v1 :> 1) @@ (v2 :> 1), (v1 :> 1) @@ (v2 :> 2), v1 :> 3}
=============================================================================
