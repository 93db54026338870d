------------------------------ MODULE MCMemlib ------------------------------
(* An arena of a few small pages that starts at half an alignment unit.      *)
EXTENDS Memlib
=============================================================================
