----------------------- MODULE MCInterruptController ------------------------
(* Constant values for model-checking InterruptController. *)
EXTENDS InterruptController

MCVec == 0 .. UINT8_MAX - 1     \* the vectors the arrays have room for
MCVecTop == 0 .. UINT8_MAX      \* all values of a uint8_t
=============================================================================
