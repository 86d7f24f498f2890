----------------------------- MODULE MCSolanaTx -----------------------------
EXTENDS SolanaTx, TLC

CONSTANTS tx1, tx2

MCTxs == {tx1, tx2}

\* Three bytes (a full word and a partial one) and two bytes ending in a zero
\* byte (one full word), with two-byte words.
MCTxBytes == (tx1 :> <<7, 1, 9>>) @@ (tx2 :> <<3, 0>>)
=============================================================================
