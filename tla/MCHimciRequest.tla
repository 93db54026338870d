--------------------------- MODULE MCHimciRequest ---------------------------
(* Transfers of one block, which leave a descriptor half empty; of two, which *)
(* fill it; of three, which need a second one; and of five, which is more    *)
(* than the descriptors hold.  Every wait loop polls at most twice.          *)
EXTENDS HimciRequest
=============================================================================
