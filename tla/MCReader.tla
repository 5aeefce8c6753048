------------------------------ MODULE MCReader ------------------------------
(* Two programs for Reader: a number and a call.                           *)
EXTENDS Reader

Programs == {<<"1">>, <<"(", "a", ")">>}

=============================================================================
