----------------------------- MODULE MCFlashIO -----------------------------
(* Small instances of FlashIO: a card of five two-byte blocks, moved two     *)
(* blocks per chunk, with 64 in the place of 2^32.                           *)
EXTENDS FlashIO

\* Adjacent partitions, one with an odd length, one that starts inside a
\* block, one that runs past the end of the card and one outside it.
MCRanges == {<<0, 4>>, <<0, 3>>, <<6, 4>>, <<3, 2>>, <<4, 12>>, <<10, 2>>}

MCOffsets == {0, 1, 2, 6}

MCLengths == {0, 1, 4, 5, 9}

============================================================================
