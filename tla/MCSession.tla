------------------------------ MODULE MCSession ------------------------------
(* The requests an editor makes of two outputs, an input and the time.     *)
EXTENDS Session

CONSTANTS time, in1, s1, s2

On(n) == [name |-> n, enabled |-> TRUE]
Off(n) == [name |-> n, enabled |-> FALSE]

(* An input behind an output and before it, one signal more than there is  *)
(* room for, one that is not wanted, and a rate above the cap.             *)
Configs == {[hz |-> 50, channels |-> <<On(s1), On(in1)>>],
            [hz |-> 200, channels |-> <<Off(s1), On(in1), On(s2), On(s1)>>]}

ConfigsWithTime == {[hz |-> 50, channels |-> <<On(time), On(in1)>>]}

=============================================================================
