--------------------------- MODULE MCFlashStorage ---------------------------
(* Values for the constants of FlashStorage.                               *)
EXTENDS FlashStorage, MCSignalEngine

(* No vector loses digits.                                                 *)
RoundedOf == [v \in Value |-> v]

=============================================================================
