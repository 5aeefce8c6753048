----------------------------- MODULE LiveEngine -----------------------------
(***************************************************************************)
(* The engine behind the WebAssembly wrapper, seen from what its host may  *)
(* change: programs, state slots, inputs, knobs and live ticks             *)
(* (wasm/wasm_wrapper.cpp over signal_engine/executor.cpp).                *)
(*                                                                         *)
(* This is also what the wrapper promises: evaluating an output, a window  *)
(* of samples or a projection is no step of this machine (LiveSpec).  What *)
(* it keeps is LookedSpec, by which such a look may mark outputs valid.    *)
(*                                                                         *)
(* Programs are kept to what tells executions apart: each reads one of the *)
(* things a sample depends on.  There is one state slot; its law counts    *)
(* samples and time, modulo Wrap.  Values are integers, and so are times.  *)
(***************************************************************************)
EXTENDS Integers

CONSTANTS
  Output,     \* the outputs, numbered: their order is the order of rows
  Program,    \* what may run: records [op, of]
  NoProgram,  \* NODE_NONE
  Texts,      \* Texts[o]: the programs that output o may be given
  Faulty,     \* the outputs for which a text that does not compile may come
  InputValue, \* what g_hw_inputs may hold
  KnobValue,  \* what a live-edit slot may hold
  Wrap,       \* the modulus of the state law
  MaxTime     \* bound: the last time the host asks for

ASSUME OutputAssumption == Output \subseteq Nat /\ Faulty \subseteq Output

ASSUME ProgramAssumption ==
  /\ Program \subseteq [op : {"t", "dt", "state", "input", "knob", "prev"}, of : Output]
  /\ NoProgram \notin Program
  /\ Texts \in [Output -> SUBSET Program]

ASSUME ValueAssumption ==
  /\ InputValue \subseteq Int /\ KnobValue \subseteq Int
  /\ 0 \in InputValue /\ 0 \in KnobValue
  /\ Wrap \in Nat \ {0} /\ MaxTime \in Nat

Time == 0 .. MaxTime

VARIABLES
  root,   \* pool.outputs[].root_node
  valid,  \* pool.outputs[].valid
  live,   \* what a tick advances, see Machine
  input,  \* g_hw_inputs
  knob    \* the value of the live-edit slot

liveVars == <<root, valid, live, input, knob>>

(* What a tick reads from the last one and leaves to the next: the state   *)
(* slot and how many are in use, the previous and the last good samples,   *)
(* and g_prev_tick_time.                                                   *)
Machine == [state : Int, slots : {0, 1}, prev : [Output -> Int],
            lkg : [Output -> Int], last : Time]

-----------------------------------------------------------------------------
(* What a program yields in one sample taken at t, dt after the last.      *)
Value(p, m, t, dt, in, k) ==
  CASE p.op = "t"     -> t
    [] p.op = "dt"    -> dt
    [] p.op = "state" -> m.state
    [] p.op = "input" -> in
    [] p.op = "knob"  -> k
    [] p.op = "prev"  -> m.prev[p.of]

(* execute_all_outputs, with output_values cleared beforehand.             *)
Executed(m, ok, t, in) ==
  [o \in Output |->
     IF root[o] # NoProgram THEN Value(root[o], m, t, t - m.last, in, knob)
     ELSE IF ok[o] THEN m.lkg[o] ELSE 0]

(* commit_state: the slot takes its law's value.                           *)
StateAfter(m, t) ==
  IF m.slots = 1 THEN (m.state + (t - m.last) + 1) % Wrap ELSE m.state

(* execute_at_time: the machine after a live sample.  Only outputs that    *)
(* are valid leave their sample behind.                                    *)
Ticked(m, t, in) ==
  LET out == Executed(m, valid, t, in)
  IN [m EXCEPT !.state = StateAfter(m, t),
               !.last = t,
               !.prev = [o \in Output |-> IF valid[o] THEN out[o] ELSE m.prev[o]],
               !.lkg  = [o \in Output |-> IF valid[o] THEN out[o] ELSE m.lkg[o]]]

-----------------------------------------------------------------------------
(* The host's operations.                                                  *)

(* The program has state only when there is a slot to have it in.          *)
Compiles(p) == p.op = "state" => live.slots = 1

(* (a1 p) that compiles.                                                   *)
Install(o, p) ==
  /\ Compiles(p)
  /\ root' = [root EXCEPT ![o] = p]
  /\ valid' = [valid EXCEPT ![o] = TRUE]

(* (a1 p) that does not: the graph stays, the output is marked invalid.    *)
Reject(o) ==
  /\ o \in Faulty
  /\ valid' = [valid EXCEPT ![o] = FALSE]
  /\ UNCHANGED root

AssignOutput == \E o \in Output : Reject(o) \/ \E p \in Texts[o] : Install(o, p)

(* (defstate s 0 ...), the first time: the slot starts at 0.               *)
DefineState ==
  /\ live.slots = 0
  /\ live' = [live EXCEPT !.slots = 1, !.state = 0]
  /\ UNCHANGED <<root, valid, input, knob>>

(* (useq-clear): neither the state, nor the previous samples, nor the time *)
(* of the last tick are reset.                                             *)
Clear ==
  /\ root' = [o \in Output |-> NoProgram]
  /\ valid' = [o \in Output |-> FALSE]
  /\ live' = [live EXCEPT !.slots = 0, !.lkg = [o \in Output |-> 0]]
  /\ UNCHANGED <<input, knob>>

Evaluate == \/ AssignOutput /\ UNCHANGED <<live, input, knob>>
            \/ DefineState
            \/ Clear

(* useq_set_input_value and useq_set_live_inputs.                          *)
SetInput(v) == /\ input' = v
               /\ UNCHANGED <<root, valid, live, knob>>

SetKnob(v) == /\ knob' = v
              /\ UNCHANGED <<root, valid, live, input>>

(* useq_apply_state_snapshot: programs first, then the state slot if there *)
(* is one, then the knob.  Its texts are evaluated like typed ones, and    *)
(* nothing comes between them: here it has one, or none.                   *)
Snapshot ==
  /\ \E k \in KnobValue : knob' = k
  /\ \E s \in 0 .. Wrap - 1 :
       live' = [live EXCEPT !.state = IF live.slots = 1 THEN s ELSE @]
  /\ AssignOutput \/ UNCHANGED <<root, valid>>
  /\ UNCHANGED input

(* A live tick, at a time that does not go back.                           *)
Tick(t) == /\ t >= live.last
           /\ live' = Ticked(live, t, input)
           /\ UNCHANGED <<root, valid, input, knob>>

-----------------------------------------------------------------------------
LiveInit ==
  /\ root = [o \in Output |-> NoProgram]
  /\ valid = [o \in Output |-> FALSE]
  /\ live = [state |-> 0, slots |-> 0, prev |-> [o \in Output |-> 0],
             lkg |-> [o \in Output |-> 0], last |-> 0]
  /\ input = 0
  /\ knob = 0

LiveNext == \/ \E t \in Time : Tick(t)
            \/ \E v \in InputValue : SetInput(v)
            \/ \E v \in KnobValue : SetKnob(v)
            \/ Evaluate
            \/ Snapshot

(* docs/specs/visualisation-projection.md 1.2: after a call that looks at  *)
(* samples the live engine behaves as if only its live tick had happened.  *)
(* So evaluations, inputs, knobs, snapshots and live ticks are all that    *)
(* changes it.                                                             *)
LiveSpec == LiveInit /\ [][LiveNext]_liveVars

-----------------------------------------------------------------------------
(* commit_outputs marks every output with a program valid, and the calls   *)
(* that look do not take that back.                                        *)
Healed == [o \in Output |-> valid[o] \/ root[o] # NoProgram]

Mark == /\ valid' = Healed
        /\ UNCHANGED <<root, live, input, knob>>

TickAndMark(t) == /\ t >= live.last
                  /\ live' = Ticked(live, t, input)
                  /\ valid' = Healed
                  /\ UNCHANGED <<root, input, knob>>

(* A call that looks, and one that ticks before it does.                   *)
Looked == Mark \/ \E t \in Time : TickAndMark(t)

(* What looking at samples leaves behind (project_from_fork,               *)
(* execute_batch_sequential, useq_eval_output): between evaluations,       *)
(* inputs and live ticks, outputs whose last text was refused may be       *)
(* marked valid again while they run, all of them at once.  No program,    *)
(* state, sample or time is touched, and while every output with a program *)
(* is marked valid a look is no step at all.                               *)
LookedSpec == LiveInit /\ [][LiveNext \/ Looked]_liveVars

=============================================================================
