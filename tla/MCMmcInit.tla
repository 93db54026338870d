----------------------------- MODULE MCMmcInit -----------------------------
(* Boards where one width works, with DDR or without, or only one bit; two   *)
(* rounds of the polling loops and two attempts.                             *)
EXTENDS MmcInit

MCBoards == {{Mode(8, TRUE), Mode(8, FALSE)}, {Mode(4, TRUE), Mode(4, FALSE)}, {}}
=============================================================================
