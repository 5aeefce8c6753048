----------------------------- MODULE Projection -----------------------------
(***************************************************************************)
(* How the WebAssembly wrapper shows samples it does not play: single      *)
(* evaluations, windows of samples, and the projection fork that is        *)
(* extended while the live engine ticks (wasm/wasm_wrapper.cpp,            *)
(* signal_engine/executor.cpp execute_batch).                              *)
(*                                                                         *)
(* A call runs to completion, so it is one action.  Each one saves the     *)
(* live machine, runs the engine on something else and puts the machine    *)
(* back, field by field.  Every call asks for all channels: the outputs,   *)
(* and probes, which are expressions that drive no output.                 *)
(***************************************************************************)
EXTENDS LiveEngine, Sequences, FiniteSets, SequencesExt

CONSTANTS
  Probe,       \* the expressions asked for by name, among the programs
  NaN,         \* quiet_NaN, or null in JSON
  Garbage,     \* what is read outside of the buffer of samples
  MaxSamples   \* bound: the samples of one call

ASSUME ProjectionAssumption ==
  /\ Probe \subseteq Program
  /\ NaN \notin Int /\ Garbage \notin Int
  /\ MaxSamples \in Nat \ {0}

(* What a name in outputs_json stands for (resolve_output_name).           *)
Named(o) == [op |-> "output", of |-> o]

Channel == {Named(o) : o \in Output} \cup Probe

VARIABLES
  fork,    \* g_projection_fork
  since,   \* history: the live machine when the fork was cloned, and what is
           \* projected since
  answer   \* what the last call returned

vars == <<root, valid, live, input, knob, fork, since, answer>>

NoAnswer == [kind |-> "none"]
Refused == [kind |-> "refused"]

-----------------------------------------------------------------------------
(* Samples.                                                                *)

(* commit_state, commit_outputs and the new time: a sample on a machine    *)
(* that is not live.  Unlike Ticked, every output leaves its sample behind *)
(* and every output with a program its last good value.                    *)
SteppedStale(m, ok, t, in) ==   \* mutant: the time of the last sample is not kept
  LET out == Executed(m, ok, t, in)
  IN [m EXCEPT !.state = StateAfter(m, t),
               !.prev = out,
               !.lkg = [o \in Output |-> IF root[o] # NoProgram THEN out[o] ELSE m.lkg[o]]]

Stepped(m, ok, t, in) ==
  LET out == Executed(m, ok, t, in)
  IN [m EXCEPT !.state = StateAfter(m, t),
               !.last = t,
               !.prev = out,
               !.lkg = [o \in Output |-> IF root[o] # NoProgram THEN out[o] ELSE m.lkg[o]]]

(* The machine before the n-th sample of times.                            *)
Before(m, times, in, n) ==
  LET after[i \in 0 .. Len(times)] ==
        IF i = 0 THEN m
        ELSE Stepped(after[i - 1], IF i = 1 THEN valid ELSE Healed, times[i], in)
  IN after[n - 1]

(* The loop of project_from_fork and of execute_batch_sequential.          *)
SampleRows(m, times, in) ==
  LET samples == [n \in DOMAIN times |->
                    Executed(Before(m, times, in, n), IF n = 1 THEN valid ELSE Healed,
                             times[n], in)]
  IN [o \in Output |-> [n \in DOMAIN times |-> samples[n][o]]]

(* execute_batch: one node at a time over all samples, so that no sample   *)
(* sees another; dt is 0 and the previous samples are the live ones.       *)
BatchRows(times) ==
  [o \in Output |-> [n \in DOMAIN times |->
     IF root[o] # NoProgram THEN Value(root[o], live, times[n], 0, input, knob) ELSE 0]]

(* eval_expression_at_time: compiled in the scratch pool and executed once *)
(* on the live state, with hardware inputs that are all 0.                 *)
Probed(p, m, t) == Value(p, m, t, t - m.last, 0, knob)

-----------------------------------------------------------------------------
(* Rows.  The samples of the outputs are packed in the order of the        *)
(* outputs: those in writers are packed, and the rows are looked up as if  *)
(* those in readers had been.                                              *)
Row(S, o) == Cardinality({p \in S : p < o})

Unpacked(rows, writers, readers, o) ==
  LET theirs == {w \in writers : Row(writers, w) = Row(readers, o)}
  IN IF o \notin readers THEN [n \in DOMAIN rows[o] |-> Garbage]
     ELSE IF theirs = {} THEN [n \in DOMAIN rows[o] |-> 0]
     ELSE rows[CHOOSE w \in theirs : TRUE]

(* The channels of an answer, read when the outputs in ok are valid and    *)
(* probes find the machine m.                                              *)
Channels(rows, writers, readers, ok, m, times) ==
  [c \in Channel |->
     IF c \in Probe THEN [n \in DOMAIN times |-> Probed(c, m, times[n])]
     ELSE IF ok[c.of] THEN Unpacked(rows, writers, readers, c.of)
     ELSE [n \in DOMAIN times |-> NaN]]

OutputsIn(flags) == {o \in Output : flags[o]}

-----------------------------------------------------------------------------
(* Putting the live machine back.                                          *)

(* What was saved of it before the run is restored, field by field.        *)
PutBackButLkg(ran, saved) ==   \* mutant: the last good values are not put back
  [state |-> saved.state, slots |-> saved.slots, prev |-> saved.prev,
   lkg |-> ran.lkg, last |-> saved.last]

PutBack(ran, saved) ==
  [state |-> saved.state, slots |-> saved.slots, prev |-> saved.prev,
   lkg |-> saved.lkg, last |-> saved.last]

-----------------------------------------------------------------------------
(* Read-only calls.                                                        *)

(* What useq_eval_output returns for a channel at t.                       *)
OutputAnswer(c, t) ==
  IF c \in Probe THEN Probed(c, live, t)
  ELSE IF valid[c.of] THEN Executed(live, valid, t, input)[c.of] ELSE NaN

EvalOutput(t) ==
  /\ live' = PutBack(Ticked(live, t, input), live)
  /\ UNCHANGED <<root, valid, input, knob, fork, since, answer>>

(* useq_eval_outputs_time_window, and its _into form, which looks up the   *)
(* rows as they were before the run.                                       *)
Sequential == live.slots > 0

WindowRowsBatch(times) == BatchRows(times)   \* mutant: state does not force the sequential path

WindowRows(times) == IF Sequential THEN SampleRows(live, times, input)
                                   ELSE BatchRows(times)

WindowAnswer(times, into) ==
  LET runs == {o \in Output : root[o] # NoProgram}
      ok == IF Sequential THEN Healed ELSE valid
  IN Channels(WindowRows(times), IF Sequential THEN OutputsIn(Healed) ELSE runs,
              OutputsIn(IF into THEN valid ELSE ok), ok, live, times)

Window(times) ==
  /\ live' = IF Sequential
             THEN PutBack(Before(live, times, input, Len(times) + 1), live)
             ELSE live
  /\ valid' = IF Sequential THEN Healed ELSE valid
  /\ UNCHANGED <<root, input, knob, fork, since, answer>>

(* The times of a window: up to MaxSamples of them, evenly apart.          *)
Windows ==
  {times \in UNION {[1 .. n -> Time] : n \in 1 .. MaxSamples} :
     \A i \in 2 .. Len(times) :
       /\ times[i - 1] <= times[i]
       /\ times[i] - times[i - 1] = times[2] - times[1]}

-----------------------------------------------------------------------------
(* The fork.                                                               *)
NoFork == [valid |-> FALSE]

(* reset_projection_fork.                                                  *)
Cloned(m) == [valid |-> TRUE, machine |-> m, input |-> input, frontier |-> m.last]

Shown(times, rows) == answer' = [kind |-> "future", times |-> times, rows |-> rows]

(* useq_tick_and_project after its tick, which left the machine at m, with *)
(* the fork f: project n samples up to the time end.                       *)
ForkAfter(f, ran, times) == [f EXCEPT !.machine = ran, !.frontier = Last(times)]

ProjectFrom(m, f, since1, end, n) ==
  LET origin == f.frontier
      step == (end - origin) \div n
      times == [i \in 1 .. n |-> origin + step * i]
      ran == Before(f.machine, times, f.input, n + 1)
  IN IF end <= origin
     THEN /\ answer' = Refused
          /\ fork' = f /\ since' = since1 /\ live' = m
          /\ UNCHANGED valid
     ELSE /\ (end - origin) % n = 0
          /\ Shown(times, Channels(SampleRows(f.machine, times, f.input),
                                   OutputsIn(Healed), OutputsIn(valid), Healed, m, times))
          /\ fork' = ForkAfter(f, ran, times)
          /\ since' = [since1 EXCEPT !.times = @ \o times]
          /\ live' = PutBack(ran, m)
          /\ valid' = Healed

(* mode 0: a tick and nothing else.                                        *)
TickOnly(t) ==
  /\ t >= live.last
  /\ live' = Ticked(live, t, input)
  /\ UNCHANGED <<root, valid, input, knob, fork, since, answer>>

(* mode 1, reset-fill.                                                     *)
ResetFill(t, end, n) ==
  LET m == Ticked(live, t, input)
  IN /\ t >= live.last
     /\ ProjectFrom(m, Cloned(m),
                    [machine |-> m, input |-> input, root |-> root, still |-> TRUE,
                     times |-> <<>>],
                    end, n)
     /\ UNCHANGED <<root, input, knob>>

(* mode 2, extend-frontier: without a fork it fails, after the tick.       *)
ExtendFrontier(t, end, n) ==
  LET m == Ticked(live, t, input)
  IN /\ t >= live.last
     /\ IF fork.valid THEN ProjectFrom(m, fork, since, end, n)
                      ELSE /\ live' = m /\ answer' = Refused
                           /\ UNCHANGED <<valid, fork, since>>
     /\ UNCHANGED <<root, input, knob>>

-----------------------------------------------------------------------------
(* The calls that change the live engine.  Evaluation and a snapshot drop  *)
(* the fork; inputs and knobs do not.                                      *)
Dropped == fork' = NoFork /\ since' = NoFork

Eval == Evaluate /\ Dropped /\ UNCHANGED answer

ApplySnapshot == Snapshot /\ Dropped /\ UNCHANGED answer

SetInputValue == /\ \E v \in InputValue : SetInput(v)
                 /\ UNCHANGED <<answer, fork, since>>

SetLiveInputs ==
  \E v \in KnobValue :
    /\ SetKnob(v)
    /\ since' = IF fork.valid /\ v # knob THEN [since EXCEPT !.still = FALSE] ELSE since
    /\ UNCHANGED <<answer, fork>>

Observe == \/ \E t \in Time : EvalOutput(t)
           \/ \E times \in Windows : Window(times)

TickAndProject ==
  \E t \in Time :
    \/ TickOnly(t)
    \/ \E end \in Time, n \in 1 .. MaxSamples :
         ResetFill(t, end, n) \/ ExtendFrontier(t, end, n)

Init == /\ LiveInit
        /\ fork = NoFork /\ since = NoFork /\ answer = NoAnswer

(* The host reads what a call returned before it calls again.              *)
Return == /\ answer # NoAnswer
          /\ answer' = NoAnswer
          /\ UNCHANGED <<root, valid, live, input, knob, fork, since>>

Call == /\ answer = NoAnswer
        /\ \/ Eval \/ ApplySnapshot
           \/ SetInputValue \/ SetLiveInputs
           \/ Observe \/ TickAndProject

Next == Call \/ Return

Spec == Init /\ [][Next]_vars

-----------------------------------------------------------------------------
Sample == Int \cup {NaN, Garbage}

(* What the live engine would hold before the n-th of these ticks.         *)
LiveBefore(m, times, in, n) ==
  LET after[i \in 0 .. Len(times)] ==
        IF i = 0 THEN m ELSE Ticked(after[i - 1], times[i], in)
  IN after[n - 1]

(* Every output that a program reads is valid.                             *)
ReadsValid ==
  \A o \in Output : root[o] # NoProgram /\ root[o].op = "prev" => valid[root[o].of]

(* No output runs marked invalid, as one does whose last text was refused. *)
RunsMarked == \A o \in Output : root[o] # NoProgram => valid[o]

(* The last n of these live ticks give output o the samples row.           *)
AsPlayed(row, o, m, times, in, n) ==
  LET k == Len(times) - n
  IN \A j \in 1 .. n :
       row[j] = Executed(LiveBefore(m, times, in, k + j), valid, times[k + j], in)[o]

(* docs/specs/visualisation-projection.md 2.5: a projected sample is what  *)
(* the live engine would play at that time if the inputs stayed as they    *)
(* were when the fork was cloned, however many extensions lie between, and *)
(* whatever the live engine did meanwhile.  It takes a call that is made   *)
(* while no output runs marked invalid (else an output may be shown the    *)
(* samples of another), reads of outputs that are valid, and a knob that   *)
(* was left alone.                                                         *)
FutureIsReal ==
  [][answer'.kind = "future" /\ RunsMarked /\ ReadsValid /\ since'.still =>
       \A o \in OutputsIn(valid) :
         AsPlayed(answer'.rows[Named(o)], o, since'.machine, since'.times, since'.input,
                  Len(answer'.times))]_vars

(* A window shows each output the samples that ticks at its times would    *)
(* have given it, and not another output's.  When no state slot is in use  *)
(* that takes a program that reads neither dt nor a previous sample.       *)
(* While an output runs marked invalid it holds of the sequential path in  *)
(* the form that answers with JSON: the others look the rows up as if that *)
(* output had none.                                                        *)
WindowIsSampled ==
  ReadsValid => \A times \in Windows, into \in BOOLEAN :
    LET rows == WindowAnswer(times, into)
    IN RunsMarked \/ (Sequential /\ ~into) =>
         \A o \in OutputsIn(valid) :
           Sequential \/ root[o].op \notin {"dt", "prev"} =>
             AsPlayed(rows[Named(o)], o, live, times, input, Len(times))

=============================================================================
