--------------------------- MODULE MCSignalEngine ---------------------------
(* Values for the constants of SignalEngine, and what the documents say of *)
(* the engine that the code does not do.                                   *)
EXTENDS SignalEngine, TLC

CONSTANTS x, y, a1, a2, one, two

(* "xPlain" is the text x, "yPlain" is y, "xCall" is (x t), and "beat"     *)
(* names no cell.                                                          *)
AllRefs == [xPlain |-> {<<x, 0>>}, yPlain |-> {<<y, 0>>}, xCall |-> {<<x, 1>>}, beat |-> {}]

RefsOf == [t \in Text |-> AllRefs[t]]

-----------------------------------------------------------------------------
(* docs/specs/failure-model.md 2.6: a program that fails to compile is not *)
(* substituted for the active one, so redefining a cell recompiles the     *)
(* active program and never swaps it for another.                          *)
RejectedNeverRuns ==
  [][DefineCell => \A o \in Output : root[o] # NoGraph /\ root'[o] # NoGraph
                                       => root'[o].text = root[o].text]_vars

=============================================================================
