----------------------------- MODULE MCNodePool -----------------------------
(* Values for NodePool's constants.                                        *)
EXTENDS NodePool

(* Every operation falls on the first place, and sources on the last: long *)
(* probes, and probes that wrap around.                                    *)
HomeOf(n) == IF n.op \in Source THEN TableSize - 1 ELSE 0

=============================================================================
