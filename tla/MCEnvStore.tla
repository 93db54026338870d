----------------------------- MODULE MCEnvStore -----------------------------
(* Small instances of EnvStore: three keys, a short and a long value.  A     *)
(* short and a long item leave one byte, the least the code allows; a third  *)
(* item of any length does not fit.                                          *)
EXTENDS EnvStore

CONSTANTS a, b, c, short, long

MCKeys == {a, b, c}

MCValues == {short, long}

MCValLen == [v \in {short, long} |-> IF v = short THEN 1 ELSE 4]

MCDefaultItems == <<<<a, short>>>>
=============================================================================
