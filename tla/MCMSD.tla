---------------------------------- MODULE MCMSD ----------------------------------
(***************************************************************************)
(* One validator, amounts 1..3 around an MSD of 2, MsgExec nested twice.    *)
(***************************************************************************)
EXTENDS MSD, TLC
CONSTANTS v1
MCValidators == {v1}
=============================================================================
