-------------------------- MODULE ProjectionProofs --------------------------
(* Theorems about Projection.                                              *)
EXTENDS Projection, FiniteSetTheorems, BoundedRecursion

(* The five fields are all there is to a machine, so a machine whose       *)
(* fields are put back is the same machine.                                *)
IsMachine(m) == m = [state |-> m.state, slots |-> m.slots, prev |-> m.prev,
                     lkg |-> m.lkg, last |-> m.last]

(* An output that is valid has a program; one that has may be marked       *)
(* invalid all the same.                                                   *)
RunsGiven ==
  /\ root \in [Output -> Program \cup {NoProgram}]
  /\ valid \in [Output -> BOOLEAN]
  /\ \A o \in Output : valid[o] => root[o] # NoProgram

LookInv == RunsGiven /\ IsMachine(live)

-----------------------------------------------------------------------------
LEMMA PutBackIsSaved == ASSUME NEW ran, NEW m, IsMachine(m) PROVE PutBack(ran, m) = m
  BY DEF PutBack, IsMachine

LEMMA TickKeepsMachine ==
  ASSUME NEW m, NEW t, NEW in, IsMachine(m) PROVE IsMachine(Ticked(m, t, in))
<1> DEFINE out == Executed(m, valid, t, in)
           p == [o \in Output |-> IF valid[o] THEN out[o] ELSE m.prev[o]]
           l == [o \in Output |-> IF valid[o] THEN out[o] ELSE m.lkg[o]]
           s == StateAfter(m, t)
<1>1. Ticked(m, t, in) = [m EXCEPT !.state = s, !.last = t, !.prev = p, !.lkg = l]
  BY DEF Ticked
<1> HIDE DEF p, l, s
<1> QED
  BY <1>1 DEF IsMachine

(* While every output with a program is valid, commit_outputs has nothing  *)
(* to heal.                                                                *)
LEMMA NothingToHeal == ASSUME RunsGiven, RunsMarked PROVE Healed = valid
<1>1. \A o \in Output : Healed[o] = valid[o]
  BY Zenon DEF RunsGiven, RunsMarked, Healed
<1>2. valid = [o \in Output |-> valid[o]]
  BY DEF RunsGiven
<1> QED
  BY <1>1, <1>2, Zenon DEF Healed

(* What is marked are the outputs with a program, and they stay marked.    *)
LEMMA HealedIs ==
  ASSUME RunsGiven
  PROVE  /\ Healed \in [Output -> BOOLEAN]
         /\ \A o \in Output : Healed[o] <=> root[o] # NoProgram
<1>1. \A o \in Output : (valid[o] \/ root[o] # NoProgram) <=> root[o] # NoProgram
  BY Zenon DEF RunsGiven
<1>2. \A o \in Output : (valid[o] \/ root[o] # NoProgram) \in BOOLEAN
  BY DEF RunsGiven
<1> QED
  BY <1>1, <1>2 DEF Healed

LEMMA MarkKeeps ==
  ASSUME RunsGiven, UNCHANGED root, UNCHANGED valid \/ valid' = Healed
  PROVE  RunsGiven'
<1>1. CASE UNCHANGED valid
  BY <1>1 DEF RunsGiven
<1>2. CASE valid' = Healed
  BY <1>2, HealedIs DEF RunsGiven
<1> QED
  BY <1>1, <1>2

-----------------------------------------------------------------------------
(* What an evaluation, a snapshot or a live tick does is a step of the     *)
(* live engine by definition; what is left is that they keep LookInv.      *)
LEMMA AssignKeeps ==
  ASSUME RunsGiven, AssignOutput
  PROVE  RunsGiven'
<1> USE DEF RunsGiven
<1>0. Texts \in [Output -> SUBSET Program] /\ NoProgram \notin Program
  BY ProgramAssumption
<1>1. CASE \E o \in Output : Reject(o)
  <2> PICK o \in Output : Reject(o)
    BY <1>1
  <2>1. root' = root /\ valid' = [valid EXCEPT ![o] = FALSE]
    BY DEF Reject
  <2> QED
    BY <2>1
<1>2. CASE \E o \in Output : \E p \in Texts[o] : Install(o, p)
  <2> PICK o \in Output : \E p \in Texts[o] : Install(o, p)
    BY <1>2
  <2> PICK p \in Texts[o] : Install(o, p)
    OBVIOUS
  <2>1. p \in Program /\ p # NoProgram
    BY <1>0
  <2>2. root' = [root EXCEPT ![o] = p] /\ valid' = [valid EXCEPT ![o] = TRUE]
    BY DEF Install
  <2> QED
    BY <2>1, <2>2
<1> QED
  BY <1>1, <1>2 DEF AssignOutput

LEMMA EvaluateKeeps ==
  ASSUME LookInv, Evaluate
  PROVE  LookInv'
<1>1. CASE AssignOutput /\ UNCHANGED <<live, input, knob>>
  BY <1>1, AssignKeeps DEF LookInv, IsMachine
<1>2. CASE DefineState
  BY <1>2 DEF DefineState, LookInv, IsMachine, RunsGiven
<1>3. CASE Clear
  <2>1. RunsGiven'
    BY <1>3 DEF Clear, RunsGiven
  <2>2. IsMachine(live')
    <3> DEFINE z == [o \in Output |-> 0]
    <3>1. live' = [live EXCEPT !.slots = 0, !.lkg = z]
      BY <1>3 DEF Clear
    <3> HIDE DEF z
    <3> QED
      BY <3>1 DEF LookInv, IsMachine
  <2> QED
    BY <2>1, <2>2 DEF LookInv, IsMachine
<1> QED
  BY <1>1, <1>2, <1>3 DEF Evaluate

LEMMA SnapshotKeeps ==
  ASSUME LookInv, Snapshot
  PROVE  LookInv'
<1>1. RunsGiven'
  <2>1. CASE AssignOutput
    BY <2>1, AssignKeeps DEF LookInv
  <2>2. CASE UNCHANGED <<root, valid>>
    BY <2>2 DEF LookInv, RunsGiven
  <2> QED
    BY <2>1, <2>2 DEF Snapshot
<1>2. PICK s : live' = [live EXCEPT !.state = IF live.slots = 1 THEN s ELSE @]
  BY DEF Snapshot
<1> QED
  BY <1>1, <1>2 DEF LookInv, IsMachine

(* A projection leaves the machine that its tick left, and marks at most.  *)
LEMMA ProjectionLeaves ==
  ASSUME NEW m, NEW f, NEW h, NEW end, NEW n, IsMachine(m), ProjectFrom(m, f, h, end, n)
  PROVE  live' = m /\ (UNCHANGED valid \/ valid' = Healed)
<1>1. CASE end <= f.frontier
  BY <1>1, Zenon DEF ProjectFrom
<1>2. CASE ~(end <= f.frontier)
  <2>1. \E ran : live' = PutBack(ran, m)
    BY <1>2, Zenon DEF ProjectFrom
  <2>2. valid' = Healed
    BY <1>2, Zenon DEF ProjectFrom
  <2> QED
    BY <2>1, <2>2, PutBackIsSaved
<1> QED
  BY <1>1, <1>2

LEMMA TickAndProjectLeaves ==
  ASSUME LookInv, NEW t \in Time,
         \/ TickOnly(t)
         \/ \E end \in Time, n \in 1 .. MaxSamples : ResetFill(t, end, n) \/ ExtendFrontier(t, end, n)
  PROVE  Tick(t) \/ TickAndMark(t)
<1> DEFINE m == Ticked(live, t, input)
<1>0. IsMachine(m)
  BY TickKeepsMachine DEF LookInv
<1> HIDE DEF m
<1>1. CASE TickOnly(t)
  BY <1>1 DEF TickOnly, Tick
<1>2. CASE \E end \in Time, n \in 1 .. MaxSamples : ResetFill(t, end, n)
  <2> PICK end \in Time, n \in 1 .. MaxSamples : ResetFill(t, end, n)
    BY <1>2
  <2>1. /\ t >= live.last /\ UNCHANGED <<root, input, knob>>
        /\ \E f, h : ProjectFrom(m, f, h, end, n)
    BY Zenon DEF ResetFill, m
  <2>2. live' = m /\ (UNCHANGED valid \/ valid' = Healed)
    BY <2>1, <1>0, ProjectionLeaves
  <2> QED
    BY <2>1, <2>2 DEF Tick, TickAndMark, m
<1>3. CASE \E end \in Time, n \in 1 .. MaxSamples : ExtendFrontier(t, end, n)
  <2> PICK end \in Time, n \in 1 .. MaxSamples : ExtendFrontier(t, end, n)
    BY <1>3
  <2>1. /\ t >= live.last /\ UNCHANGED <<root, input, knob>>
        /\ (\E f, h : ProjectFrom(m, f, h, end, n)) \/ (live' = m /\ UNCHANGED valid)
    BY Zenon DEF ExtendFrontier, m
  <2>2. live' = m /\ (UNCHANGED valid \/ valid' = Healed)
    BY <2>1, <1>0, ProjectionLeaves
  <2> QED
    BY <2>1, <2>2 DEF Tick, TickAndMark, m
<1> QED
  BY <1>1, <1>2, <1>3

LEMMA ObserveLeaves == ASSUME LookInv, Observe PROVE UNCHANGED liveVars \/ Mark
<1>1. CASE \E t \in Time : EvalOutput(t)
  BY <1>1, PutBackIsSaved DEF EvalOutput, LookInv, liveVars
<1>2. CASE \E times \in Windows : Window(times)
  <2> PICK times \in Windows : Window(times)
    BY <1>2
  <2>1. live' = live
    <3> DEFINE ran == Before(live, times, input, Len(times) + 1)
    <3>1. live' = IF Sequential THEN PutBack(ran, live) ELSE live
      BY Zenon DEF Window
    <3> HIDE DEF ran
    <3> QED
      BY <3>1, PutBackIsSaved DEF LookInv
  <2>2. UNCHANGED <<root, input, knob>> /\ (UNCHANGED valid \/ valid' = Healed)
    BY DEF Window
  <2> QED
    BY <2>1, <2>2 DEF liveVars, Mark
<1> QED
  BY <1>1, <1>2 DEF Observe

-----------------------------------------------------------------------------
LEMMA LookInit == Init => LookInv
  BY DEF Init, LiveInit, LookInv, RunsGiven, IsMachine

LEMMA LookStep ==
  ASSUME LookInv, [Next]_vars
  PROVE  LookInv' /\ [LiveNext \/ Looked]_liveVars
<1>1. CASE Eval
  BY <1>1, EvaluateKeeps DEF Eval, LiveNext
<1>2. CASE ApplySnapshot
  BY <1>2, SnapshotKeeps DEF ApplySnapshot, LiveNext
<1>3. CASE SetInputValue
  <2> PICK v \in InputValue : SetInput(v)
    BY <1>3 DEF SetInputValue
  <2> QED
    BY DEF SetInput, LookInv, RunsGiven, IsMachine, LiveNext
<1>4. CASE SetLiveInputs
  <2> PICK v \in KnobValue : SetKnob(v)
    BY <1>4 DEF SetLiveInputs
  <2> QED
    BY DEF SetKnob, LookInv, RunsGiven, IsMachine, LiveNext
<1>5. CASE Observe
  <2>1. UNCHANGED liveVars \/ Mark
    BY <1>5, ObserveLeaves
  <2>2. RunsGiven' /\ live' = live
    BY <2>1, MarkKeeps DEF liveVars, Mark, LookInv
  <2> QED
    BY <2>1, <2>2 DEF LookInv, IsMachine, Looked
<1>6. CASE TickAndProject
  <2> PICK t \in Time : Tick(t) \/ TickAndMark(t)
    BY <1>6, TickAndProjectLeaves DEF TickAndProject
  <2>1. IsMachine(live')
    BY TickKeepsMachine DEF Tick, TickAndMark, LookInv
  <2>2. RunsGiven'
    BY MarkKeeps DEF Tick, TickAndMark, LookInv
  <2> QED
    BY <2>1, <2>2 DEF LookInv, IsMachine, LiveNext, Looked
<1>7. CASE Return
  BY <1>7 DEF Return, LookInv, RunsGiven, IsMachine, liveVars
<1>8. CASE UNCHANGED vars
  BY <1>8 DEF vars, LookInv, RunsGiven, IsMachine, liveVars
<1> QED
  BY <1>1, <1>2, <1>3, <1>4, <1>5, <1>6, <1>7, <1>8 DEF Next, Call

(* The wrapper implements the live engine it wraps but for the marks:      *)
(* single evaluations, windows, projections and extensions, in any order   *)
(* and number, leave it as the evaluations, inputs and live ticks alone    *)
(* would (project_from_fork, execute_batch_sequential, useq_eval_output),  *)
(* or mark the outputs that run, all of them at once.                      *)
THEOREM LookingOnlyMarks == Spec => LookedSpec
<1>1. Init => LiveInit /\ LookInv
  BY LookInit DEF Init
<1>2. LookInv /\ [Next]_vars => LookInv' /\ [LiveNext \/ Looked]_liveVars
  BY LookStep
<1> QED
  BY <1>1, <1>2, PTL DEF Spec, LookedSpec

-----------------------------------------------------------------------------
(* Two machines a valid output cannot tell apart.                          *)
Agree(m1, m2) ==
  /\ m1.state = m2.state /\ m1.slots = m2.slots /\ m1.last = m2.last
  /\ \A o \in Output : valid[o] => m1.prev[o] = m2.prev[o] /\ m1.lkg[o] = m2.lkg[o]

(* One projected sample: on machines that agree, execute_at_time and the   *)
(* loop of project_from_fork give every valid output the same sample and   *)
(* leave machines that agree, although only one of them commits the        *)
(* outputs that are not valid.                                             *)
THEOREM ProjectedIsPlayed ==
  ASSUME NEW m1, NEW m2, NEW ok, NEW t, NEW in,
         Agree(m1, m2), IsMachine(m1), IsMachine(m2), ReadsValid, RunsGiven,
         \A o \in Output : valid[o] => ok[o] = TRUE
  PROVE  /\ \A o \in Output : valid[o] =>
              Executed(m1, valid, t, in)[o] = Executed(m2, ok, t, in)[o]
         /\ Agree(Ticked(m1, t, in), Stepped(m2, ok, t, in))
<1>0. ASSUME NEW o \in Output, valid[o]
      PROVE  Executed(m1, valid, t, in)[o] = Executed(m2, ok, t, in)[o]
  <2>1. CASE root[o] = NoProgram
    BY <1>0, <2>1 DEF Executed, Agree
  <2>2. CASE root[o] # NoProgram
    <3>1. root[o] \in Program
      BY <2>2 DEF RunsGiven
    <3>2. /\ root[o].of \in Output
          /\ root[o].op \in {"t", "dt", "state", "input", "knob", "prev"}
      BY <3>1, ProgramAssumption
    <3>3. root[o].op = "prev" => m1.prev[root[o].of] = m2.prev[root[o].of]
      BY <2>2, <3>2 DEF ReadsValid, Agree
    <3>4. m1.state = m2.state /\ t - m1.last = t - m2.last
      BY DEF Agree
    <3>5. Value(root[o], m1, t, t - m1.last, in, knob) = Value(root[o], m2, t, t - m2.last, in, knob)
      BY <3>2, <3>3, <3>4 DEF Value
    <3> QED
      BY <2>2, <3>5 DEF Executed
  <2> QED
    BY <2>1, <2>2
<1> DEFINE out1 == Executed(m1, valid, t, in)
           out2 == Executed(m2, ok, t, in)
           p1 == [o \in Output |-> IF valid[o] THEN out1[o] ELSE m1.prev[o]]
           l1 == [o \in Output |-> IF valid[o] THEN out1[o] ELSE m1.lkg[o]]
           l2 == [o \in Output |-> IF root[o] # NoProgram THEN out2[o] ELSE m2.lkg[o]]
           s1 == StateAfter(m1, t)
           s2 == StateAfter(m2, t)
<1>1. \A o \in Output : valid[o] => out1[o] = out2[o]
  BY <1>0 DEF out1, out2
<1>2. Ticked(m1, t, in) = [m1 EXCEPT !.state = s1, !.last = t, !.prev = p1, !.lkg = l1]
  BY DEF Ticked
<1>3. Stepped(m2, ok, t, in) = [m2 EXCEPT !.state = s2, !.last = t, !.prev = out2, !.lkg = l2]
  BY DEF Stepped
<1>4. s1 = s2
  BY Zenon DEF StateAfter, Agree
<1>5. ASSUME NEW o \in Output, valid[o] PROVE p1[o] = out2[o] /\ l1[o] = l2[o]
  <2>1. p1[o] = out1[o] /\ l1[o] = out1[o]
    BY <1>5
  <2>2. CASE root[o] # NoProgram
    BY <1>1, <1>5, <2>1, <2>2
  <2>3. CASE root[o] = NoProgram
    <3>1. out2[o] = m2.lkg[o]
      BY <1>5, <2>3 DEF Executed
    <3> QED
      BY <1>1, <1>5, <2>1, <2>3, <3>1
  <2> QED
    BY <2>2, <2>3
<1> HIDE DEF out1, out2, p1, l1, l2, s1, s2
<1>6. Agree(Ticked(m1, t, in), Stepped(m2, ok, t, in))
  BY <1>2, <1>3, <1>4, <1>5 DEF Agree, IsMachine
<1> QED
  BY <1>1, <1>6 DEF out1, out2

-----------------------------------------------------------------------------
(* Sequences of samples.  The machines that appear between samples, and    *)
(* what keeps them machines.                                               *)
Machines == [state : Int, slots : {0, 1}, prev : [Output -> Int], lkg : [Output -> Int],
             last : Int]

Plain ==
  /\ input \in Int /\ knob \in Int
  /\ RunsGiven

LEMMA MachinesAre == \A m \in Machines : IsMachine(m)
  BY DEF Machines, IsMachine

LEMMA SampleType ==
  ASSUME Plain, NEW m \in Machines, NEW ok, NEW t \in Int, NEW in \in Int
  PROVE  Executed(m, ok, t, in) \in [Output -> Int] /\ StateAfter(m, t) \in Int
<1>1. /\ m.state \in Int /\ m.last \in Int /\ m.prev \in [Output -> Int]
      /\ m.lkg \in [Output -> Int]
  BY DEF Machines
<1>2. StateAfter(m, t) \in Int
  BY <1>1, ValueAssumption DEF StateAfter
<1>3. ASSUME NEW o \in Output, root[o] # NoProgram
      PROVE  Value(root[o], m, t, t - m.last, in, knob) \in Int
  <2>1. root[o] \in Program
    BY <1>3 DEF Plain, RunsGiven
  <2>2. /\ root[o].of \in Output
        /\ root[o].op \in {"t", "dt", "state", "input", "knob", "prev"}
    BY <2>1, ProgramAssumption
  <2>3. t - m.last \in Int /\ knob \in Int /\ m.prev[root[o].of] \in Int
    BY <1>1, <2>2 DEF Plain
  <2>4. QED
    BY <1>1, <2>2, <2>3 DEF Value
<1>4. Executed(m, ok, t, in) \in [Output -> Int]
  BY <1>1, <1>3 DEF Executed
<1>5. QED
  BY <1>2, <1>4

LEMMA SteppedType ==
  ASSUME Plain, NEW m \in Machines, NEW ok, NEW t \in Int, NEW in \in Int
  PROVE  Stepped(m, ok, t, in) \in Machines /\ Ticked(m, t, in) \in Machines
<1> DEFINE out == Executed(m, ok, t, in)
           live1 == Executed(m, valid, t, in)
           l == [o \in Output |-> IF root[o] # NoProgram THEN out[o] ELSE m.lkg[o]]
           p1 == [o \in Output |-> IF valid[o] THEN live1[o] ELSE m.prev[o]]
           l1 == [o \in Output |-> IF valid[o] THEN live1[o] ELSE m.lkg[o]]
           s == StateAfter(m, t)
<1>1. out \in [Output -> Int] /\ live1 \in [Output -> Int] /\ s \in Int
  BY SampleType
<1>2. m.prev \in [Output -> Int] /\ m.lkg \in [Output -> Int]
  BY DEF Machines
<1>3. Stepped(m, ok, t, in) = [m EXCEPT !.state = s, !.last = t, !.prev = out, !.lkg = l]
  BY DEF Stepped
<1>4. Ticked(m, t, in) = [m EXCEPT !.state = s, !.last = t, !.prev = p1, !.lkg = l1]
  BY DEF Ticked
<1> HIDE DEF out, live1, s
<1>5. l \in [Output -> Int] /\ p1 \in [Output -> Int] /\ l1 \in [Output -> Int]
  BY <1>1, <1>2
<1> HIDE DEF l, p1, l1
<1>6. QED
  BY <1>1, <1>3, <1>4, <1>5 DEF Machines

-----------------------------------------------------------------------------
(* The machines between live ticks, and between projected samples.         *)
Plays(f, m, times, in) ==
  /\ f \in [0 .. Len(times) -> Machines]
  /\ f[0] = m
  /\ \A i \in 1 .. Len(times) :
       f[i] = Ticked(f[i - 1], times[i], in)

LEMMA LiveRuns ==
  ASSUME Plain, NEW m \in Machines, NEW times \in Seq(Int), NEW in \in Int
  PROVE  \E f : Plays(f, m, times, in)
                /\ \A n \in 1 .. Len(times) + 1 : LiveBefore(m, times, in, n) = f[n - 1]
<1> DEFINE N == Len(times)
           Y == Machines
           Then(i, y) == Ticked(y, times[i], in)
           g == [p \in (1 .. N) \X Y |-> Then(p[1], p[2])]
<1>1. N \in Nat /\ \A i \in 1 .. N : times[i] \in Int
  OBVIOUS
<1>2. ASSUME NEW i \in 1 .. N, NEW y \in Y PROVE Then(i, y) \in Y
  BY <1>1, SteppedType
<1> HIDE DEF N, Y, Then
<1>3. \A i \in 1 .. N, y \in Y : g[<<i, y>>] = Then(i, y)
  OBVIOUS
<1>4. Stays(g, N, Y)
  BY <1>2, <1>3 DEF Stays
<1> HIDE DEF g
<1>5. m \in Y
  BY DEF Y
<1>6. PICK f \in [0 .. N -> Y] : Follows(f, g, N, m)
  BY <1>1, <1>4, <1>5, Recursion
<1>7. f = [i \in 0 .. N |-> IF i = 0 THEN m ELSE Then(i, f[i - 1])]
  <2>1. ASSUME NEW i \in 1 .. N PROVE f[i] = Then(i, f[i - 1])
    <3>1. i - 1 \in 0 .. N /\ f[i - 1] \in Y
      BY <1>1
    <3>2. QED
      BY <3>1, <1>3, <1>6 DEF Follows
  <2>2. \A i \in 0 .. N : i # 0 => i \in 1 .. N
    BY <1>1
  <2>3. QED
    BY <1>6, <2>1, <2>2 DEF Follows
<1> DEFINE after[i \in 0 .. Len(times)] ==
             IF i = 0 THEN m ELSE Ticked(after[i - 1], times[i], in)
<1>8. after = [i \in 0 .. Len(times) |->
                 IF i = 0 THEN m ELSE Ticked(after[i - 1], times[i], in)]
  BY <1>7, Zenon DEF N, Then
<1>9. \A n : LiveBefore(m, times, in, n) = after[n - 1]
  BY DEF LiveBefore
<1> HIDE DEF after
<1>10. after = [i \in 0 .. N |-> IF i = 0 THEN m ELSE Then(i, after[i - 1])]
  BY <1>8 DEF N, Then
<1>11. after[0] = m /\ \A i \in 1 .. N : after[i] = Then(i, after[i - 1])
  BY <1>1, <1>10
<1> DEFINE S == {i \in 0 .. N : after[i] \in Y}
<1>12. 0 \in S
  BY <1>1, <1>5, <1>11
<1>13. ASSUME NEW n \in 0 .. N - 1, n \in S PROVE n + 1 \in S
  <2>1. n + 1 \in 1 .. N /\ (n + 1) - 1 = n
    BY <1>1
  <2>2. QED
    BY <1>2, <1>11, <1>13, <2>1
<1>14. 0 .. N \subseteq S
  <2> HIDE DEF S
  <2> QED BY <1>1, <1>12, <1>13, Reached
<1>15. after \in [0 .. N -> Y]
  BY <1>10, <1>14
<1>16. Plays(after, m, times, in)
  BY <1>11, <1>15, Zenon DEF Plays, N, Y, Then
<1>17. QED
  BY <1>9, <1>16

Projects(f, m, times, in) ==
  /\ f \in [0 .. Len(times) -> Machines]
  /\ f[0] = m
  /\ \A i \in 1 .. Len(times) :
       f[i] = Stepped(f[i - 1], IF i = 1 THEN valid ELSE Healed, times[i], in)

LEMMA ForkRuns ==
  ASSUME Plain, NEW m \in Machines, NEW times \in Seq(Int), NEW in \in Int
  PROVE  \E f : Projects(f, m, times, in)
                /\ \A n \in 1 .. Len(times) + 1 : Before(m, times, in, n) = f[n - 1]
<1> DEFINE N == Len(times)
           Y == Machines
           Then(i, y) == Stepped(y, IF i = 1 THEN valid ELSE Healed, times[i], in)
           g == [p \in (1 .. N) \X Y |-> Then(p[1], p[2])]
<1>1. N \in Nat /\ \A i \in 1 .. N : times[i] \in Int
  OBVIOUS
<1>2. ASSUME NEW i \in 1 .. N, NEW y \in Y PROVE Then(i, y) \in Y
  BY <1>1, SteppedType
<1> HIDE DEF N, Y, Then
<1>3. \A i \in 1 .. N, y \in Y : g[<<i, y>>] = Then(i, y)
  OBVIOUS
<1>4. Stays(g, N, Y)
  BY <1>2, <1>3 DEF Stays
<1> HIDE DEF g
<1>5. m \in Y
  BY DEF Y
<1>6. PICK f \in [0 .. N -> Y] : Follows(f, g, N, m)
  BY <1>1, <1>4, <1>5, Recursion
<1>7. f = [i \in 0 .. N |-> IF i = 0 THEN m ELSE Then(i, f[i - 1])]
  <2>1. ASSUME NEW i \in 1 .. N PROVE f[i] = Then(i, f[i - 1])
    <3>1. i - 1 \in 0 .. N /\ f[i - 1] \in Y
      BY <1>1
    <3>2. QED
      BY <3>1, <1>3, <1>6 DEF Follows
  <2>2. \A i \in 0 .. N : i # 0 => i \in 1 .. N
    BY <1>1
  <2>3. QED
    BY <1>6, <2>1, <2>2 DEF Follows
<1> DEFINE after[i \in 0 .. Len(times)] ==
             IF i = 0 THEN m ELSE Stepped(after[i - 1], IF i = 1 THEN valid ELSE Healed, times[i], in)
<1>8. after = [i \in 0 .. Len(times) |->
                 IF i = 0 THEN m ELSE Stepped(after[i - 1], IF i = 1 THEN valid ELSE Healed, times[i], in)]
  BY <1>7, Zenon DEF N, Then
<1>9. \A n : Before(m, times, in, n) = after[n - 1]
  BY DEF Before
<1> HIDE DEF after
<1>10. after = [i \in 0 .. N |-> IF i = 0 THEN m ELSE Then(i, after[i - 1])]
  BY <1>8 DEF N, Then
<1>11. after[0] = m /\ \A i \in 1 .. N : after[i] = Then(i, after[i - 1])
  BY <1>1, <1>10
<1> DEFINE S == {i \in 0 .. N : after[i] \in Y}
<1>12. 0 \in S
  BY <1>1, <1>5, <1>11
<1>13. ASSUME NEW n \in 0 .. N - 1, n \in S PROVE n + 1 \in S
  <2>1. n + 1 \in 1 .. N /\ (n + 1) - 1 = n
    BY <1>1
  <2>2. QED
    BY <1>2, <1>11, <1>13, <2>1
<1>14. 0 .. N \subseteq S
  <2> HIDE DEF S
  <2> QED BY <1>1, <1>12, <1>13, Reached
<1>15. after \in [0 .. N -> Y]
  BY <1>10, <1>14
<1>16. Projects(after, m, times, in)
  BY <1>11, <1>15, Zenon DEF Projects, N, Y, Then
<1>17. QED
  BY <1>9, <1>16

(* From machines that agree, the two runs keep agreeing and give every     *)
(* valid output the same samples.                                          *)
LEMMA RunsAgree ==
  ASSUME Plain, ReadsValid, NEW m1 \in Machines, NEW m2 \in Machines, Agree(m1, m2),
         NEW times \in Seq(Int), NEW in \in Int,
         NEW f, Plays(f, m1, times, in), NEW h, Projects(h, m2, times, in)
  PROVE  /\ \A i \in 0 .. Len(times) : Agree(f[i], h[i])
         /\ \A i \in 1 .. Len(times), o \in Output : valid[o] =>
              Executed(f[i - 1], valid, times[i], in)[o]
                = Executed(h[i - 1], IF i = 1 THEN valid ELSE Healed, times[i], in)[o]
<1> DEFINE N == Len(times)
           ok(i) == IF i = 1 THEN valid ELSE Healed
           S == {i \in 0 .. N : Agree(f[i], h[i])}
<1>1. N \in Nat
  OBVIOUS
<1>2. \A i \in 0 .. N : IsMachine(f[i]) /\ IsMachine(h[i])
  BY MachinesAre DEF Plays, Projects
<1>3. RunsGiven /\ \A o \in Output : valid[o] => Healed[o] = TRUE
  BY HealedIs DEF Plain, RunsGiven
<1>4. \A i : ok(i) = valid \/ ok(i) = Healed
  OBVIOUS
<1>5. /\ f[0] = m1 /\ h[0] = m2
      /\ \A i \in 1 .. N : f[i] = Ticked(f[i - 1], times[i], in)
      /\ \A i \in 1 .. N : h[i] = Stepped(h[i - 1], ok(i), times[i], in)
  BY Zenon DEF Plays, Projects
<1> HIDE DEF ok, N
<1>6. 0 \in S
  BY <1>1, <1>5
<1>7. ASSUME NEW i \in 1 .. N, Agree(f[i - 1], h[i - 1])
      PROVE  /\ Agree(f[i], h[i])
             /\ \A o \in Output : valid[o] => Executed(f[i - 1], valid, times[i], in)[o]
                                                = Executed(h[i - 1], ok(i), times[i], in)[o]
  <2>1. IsMachine(f[i - 1]) /\ IsMachine(h[i - 1])
    <3>1. i - 1 \in 0 .. N
      BY <1>1
    <3>2. QED
      BY <1>2, <3>1 DEF N
  <2>2. \A o \in Output : valid[o] => ok(i)[o] = TRUE
    BY <1>3, <1>4 DEF RunsGiven
  <2> DEFINE a == f[i - 1]
             b == h[i - 1]
             t == times[i]
  <2> HIDE DEF a, b, t
  <2>3. /\ \A o \in Output : valid[o] => Executed(a, valid, t, in)[o] = Executed(b, ok(i), t, in)[o]
        /\ Agree(Ticked(a, t, in), Stepped(b, ok(i), t, in))
    BY <1>3, <1>7, <2>1, <2>2, ProjectedIsPlayed DEF a, b
  <2>4. QED
    BY <1>5, <2>3 DEF a, b, t
<1>8. ASSUME NEW n \in 0 .. N - 1, n \in S PROVE n + 1 \in S
  <2>1. n + 1 \in 1 .. N /\ n + 1 \in 0 .. N /\ (n + 1) - 1 = n
    BY <1>1
  <2>2. QED
    BY <1>7, <1>8, <2>1
<1>9. 0 .. N \subseteq S
  <2> HIDE DEF S
  <2> QED BY <1>1, <1>6, <1>8, Reached
<1>10. \A i \in 1 .. N : i - 1 \in 0 .. N
  BY <1>1
<1>11. QED
  BY <1>7, <1>9, <1>10 DEF N, ok

LEMMA RowsAsPlayed ==
  ASSUME Plain, ReadsValid, NEW m1 \in Machines, NEW m2 \in Machines, Agree(m1, m2),
         NEW times \in Seq(Int), NEW in \in Int, NEW o \in Output, valid[o],
         NEW j \in 1 .. Len(times)
  PROVE  SampleRows(m2, times, in)[o][j] = Executed(LiveBefore(m1, times, in, j), valid, times[j], in)[o]
<1>1. PICK f : Plays(f, m1, times, in)
               /\ \A n \in 1 .. Len(times) + 1 : LiveBefore(m1, times, in, n) = f[n - 1]
  BY LiveRuns
<1>2. PICK h : Projects(h, m2, times, in)
               /\ \A n \in 1 .. Len(times) + 1 : Before(m2, times, in, n) = h[n - 1]
  BY ForkRuns
<1>3. Executed(f[j - 1], valid, times[j], in)[o]
        = Executed(h[j - 1], IF j = 1 THEN valid ELSE Healed, times[j], in)[o]
  BY <1>1, <1>2, RunsAgree
<1>4. j \in 1 .. Len(times) + 1 /\ DOMAIN times = 1 .. Len(times)
  OBVIOUS
<1>5. SampleRows(m2, times, in)[o][j]
        = Executed(Before(m2, times, in, j), IF j = 1 THEN valid ELSE Healed, times[j], in)[o]
  BY <1>4 DEF SampleRows
<1>6. QED
  BY <1>1, <1>2, <1>3, <1>4, <1>5

-----------------------------------------------------------------------------
(* Rows.  When those packed are those looked up, an output finds its own.  *)
LEMMA OwnRow ==
  ASSUME NEW S \in SUBSET Nat, NEW o \in S, NEW rows
  PROVE  Unpacked(rows, S, S, o) = rows[o]
<1>1. ASSUME NEW a \in S, NEW b \in S, a < b PROVE Row(S, a) # Row(S, b)
  <2> DEFINE A == {p \in S : p < a}
             B == {p \in S : p < b}
  <2>1. IsFiniteSet(B)
    <3>1. b \in Nat /\ 0 \in Int /\ \A p \in S : p \in Nat
      OBVIOUS
    <3>2. IsFiniteSet(0 .. b)
      BY <3>1, FS_Interval
    <3>3. ASSUME NEW p \in B PROVE p \in 0 .. b
      <4>1. p \in Nat /\ p < b
        BY <3>1
      <4>2. QED
        BY <3>1, <4>1
    <3>4. QED
      BY <3>2, <3>3, FS_Subset
  <2>2. A \subseteq B /\ a \in B /\ a \notin A
    <3>1. a \in Nat /\ b \in Nat /\ \A p \in S : p \in Nat
      OBVIOUS
    <3>2. ASSUME NEW p \in S, p < a PROVE p < b
      BY <1>1, <3>1, <3>2
    <3>3. ~(a < a)
      BY <3>1
    <3>4. QED
      BY <1>1, <3>2, <3>3
  <2> HIDE DEF A, B
  <2>3. Cardinality(A) # Cardinality(B)
    BY <2>1, <2>2, FS_Subset
  <2>4. QED
    BY <2>3 DEF Row, A, B
<1>2. {w \in S : Row(S, w) = Row(S, o)} = {o}
  <2>1. \A w \in S : w # o => w < o \/ o < w
    OBVIOUS
  <2>2. QED
    BY <1>1, <2>1
<1>3. QED
  BY <1>2 DEF Unpacked

LEMMA ChannelOfOutput ==
  ASSUME NEW rows, NEW S \in SUBSET Output, NEW ok, NEW m, NEW times, NEW o \in S, ok[o]
  PROVE  Channels(rows, S, S, ok, m, times)[Named(o)] = rows[o]
<1>1. o \in Output /\ Named(o) \in Channel /\ Named(o).of = o /\ S \in SUBSET Nat
  BY OutputAssumption DEF Channel, Named
<1>2. Named(o) \notin Probe
  <2>1. Named(o).op = "output"
    BY DEF Named
  <2>2. \A p \in Probe : p.op \in {"t", "dt", "state", "input", "knob", "prev"}
    BY ProjectionAssumption, ProgramAssumption
  <2>3. QED
    BY <2>1, <2>2
<1>3. Channels(rows, S, S, ok, m, times)[Named(o)] = Unpacked(rows, S, S, o)
  BY <1>1, <1>2 DEF Channels
<1>4. QED
  BY <1>1, <1>3, OwnRow

(* Without a state slot no tick changes the state.                         *)
LEMMA StateRests ==
  ASSUME Plain, NEW m \in Machines, m.slots = 0, NEW times \in Seq(Int), NEW in \in Int,
         NEW f, Plays(f, m, times, in)
  PROVE  \A i \in 0 .. Len(times) : f[i].state = m.state /\ f[i].slots = 0
<1> DEFINE N == Len(times)
           S == {i \in 0 .. N : f[i].state = m.state /\ f[i].slots = 0}
<1>1. N \in Nat /\ f[0] = m
  BY DEF Plays
<1>2. 0 \in S
  BY <1>1
<1>3. ASSUME NEW n \in 0 .. N - 1, n \in S PROVE n + 1 \in S
  <2>1. n + 1 \in 1 .. N /\ n + 1 \in 0 .. N /\ n \in 0 .. N /\ (n + 1) - 1 = n
    BY <1>1
  <2>2. f[n + 1] = Ticked(f[n], times[n + 1], in) /\ f[n] \in Machines
    BY <2>1 DEF Plays
  <2>3. StateAfter(f[n], times[n + 1]) = m.state
    BY <1>3 DEF StateAfter
  <2> DEFINE out == Executed(f[n], valid, times[n + 1], in)
             p1 == [o \in Output |-> IF valid[o] THEN out[o] ELSE f[n].prev[o]]
             l1 == [o \in Output |-> IF valid[o] THEN out[o] ELSE f[n].lkg[o]]
             s1 == StateAfter(f[n], times[n + 1])
  <2>4. f[n + 1] = [f[n] EXCEPT !.state = s1, !.last = times[n + 1], !.prev = p1, !.lkg = l1]
    BY <2>2 DEF Ticked
  <2>5. s1 = m.state
    BY <2>3
  <2> HIDE DEF p1, l1, s1
  <2>6. f[n + 1].state = m.state /\ f[n + 1].slots = f[n].slots
    BY <2>2, <2>4, <2>5 DEF Machines
  <2>7. QED
    BY <1>3, <2>1, <2>6
<1>4. 0 .. N \subseteq S
  <2> HIDE DEF S
  <2> QED BY <1>1, <1>2, <1>3, Reached
<1>5. QED
  BY <1>4

LEMMA BatchAsPlayed ==
  ASSUME Plain, live \in Machines, ~Sequential, NEW times \in Seq(Int), NEW o \in Output, valid[o],
         root[o].op \notin {"dt", "prev"}, NEW j \in 1 .. Len(times)
  PROVE  BatchRows(times)[o][j] = Executed(LiveBefore(live, times, input, j), valid, times[j], input)[o]
<1>0. live.slots = 0 /\ input \in Int
  BY DEF Machines, Sequential, Plain
<1>1. PICK f : Plays(f, live, times, input)
               /\ \A n \in 1 .. Len(times) + 1 : LiveBefore(live, times, input, n) = f[n - 1]
  BY <1>0, LiveRuns
<1>2. /\ j - 1 \in 0 .. Len(times) /\ j \in 1 .. Len(times) + 1
      /\ DOMAIN times = 1 .. Len(times) /\ times[j] \in Int
  OBVIOUS
<1>3. f[j - 1].state = live.state
  <2>1. \A i \in 0 .. Len(times) : f[i].state = live.state /\ f[i].slots = 0
    BY <1>0, <1>1, StateRests
  <2>2. QED
    BY <1>2, <2>1
<1>4. root[o] # NoProgram /\ root[o] \in Program
  BY DEF Plain, RunsGiven
<1>5. root[o].op \in {"t", "state", "input", "knob"}
  BY <1>4, ProgramAssumption
<1>6. Value(root[o], f[j - 1], times[j], times[j] - f[j - 1].last, input, knob)
        = Value(root[o], live, times[j], 0, input, knob)
  BY <1>3, <1>5 DEF Value
<1>7. BatchRows(times)[o][j] = Value(root[o], live, times[j], 0, input, knob)
  BY <1>2, <1>4 DEF BatchRows
<1>8. Executed(f[j - 1], valid, times[j], input)[o]
        = Value(root[o], f[j - 1], times[j], times[j] - f[j - 1].last, input, knob)
  BY <1>4 DEF Executed
<1>9. QED
  BY <1>1, <1>2, <1>6, <1>7, <1>8

LEMMA WindowShows == Plain /\ live \in Machines => WindowIsSampled
<1> SUFFICES ASSUME Plain, live \in Machines, ReadsValid, NEW times \in Windows, NEW into \in BOOLEAN,
                    RunsMarked \/ (Sequential /\ ~into),
                    NEW o \in OutputsIn(valid), Sequential \/ root[o].op \notin {"dt", "prev"}
             PROVE  AsPlayed(WindowAnswer(times, into)[Named(o)], o, live, times, input, Len(times))
  BY DEF WindowIsSampled
<1>1. times \in Seq(Int) /\ Len(times) \in Nat
  <2>1. PICK n \in 1 .. MaxSamples : times \in [1 .. n -> Time]
    BY DEF Windows
  <2>2. n \in Nat /\ Time \subseteq Int
    BY <2>1, ProjectionAssumption, ValueAssumption DEF Time
  <2>3. times \in [1 .. n -> Int]
    BY <2>1, <2>2
  <2>4. QED
    BY <2>2, <2>3
<1>2. o \in Output /\ valid[o] /\ input \in Int /\ RunsGiven
  BY DEF OutputsIn, Plain
<1>3. WindowAnswer(times, into)[Named(o)] = WindowRows(times)[o]
  <2>1. CASE RunsMarked
    <3>1. Healed = valid /\ OutputsIn(valid) \in SUBSET Output
      BY <1>2, <2>1, NothingToHeal DEF OutputsIn
    <3>2. {p \in Output : root[p] # NoProgram} = OutputsIn(valid)
      BY <1>2, <2>1 DEF RunsGiven, RunsMarked, OutputsIn
    <3>3. WindowAnswer(times, into)
            = Channels(WindowRows(times), OutputsIn(valid), OutputsIn(valid), valid, live, times)
      BY <3>1, <3>2 DEF WindowAnswer
    <3>4. QED
      BY <1>2, <3>1, <3>3, ChannelOfOutput
  <2>2. CASE Sequential /\ ~into
    <3>1. Healed[o] /\ o \in OutputsIn(Healed) /\ OutputsIn(Healed) \in SUBSET Output
      BY <1>2, HealedIs DEF RunsGiven, OutputsIn
    <3>2. WindowAnswer(times, into)
            = Channels(WindowRows(times), OutputsIn(Healed), OutputsIn(Healed), Healed, live, times)
      BY <2>2 DEF WindowAnswer
    <3>3. QED
      BY <3>1, <3>2, ChannelOfOutput
  <2>3. QED
    BY <2>1, <2>2
<1>5. ASSUME NEW j \in 1 .. Len(times)
      PROVE  WindowRows(times)[o][j]
               = Executed(LiveBefore(live, times, input, j), valid, times[j], input)[o]
  <2>1. CASE Sequential
    <3>1. Agree(live, live)
      BY DEF Agree
    <3>2. WindowRows(times) = SampleRows(live, times, input)
      BY <2>1 DEF WindowRows
    <3>3. QED
      BY <1>1, <1>2, <3>1, <3>2, RowsAsPlayed
  <2>2. CASE ~Sequential
    <3>1. WindowRows(times) = BatchRows(times)
      BY <2>2 DEF WindowRows
    <3>2. QED
      BY <1>1, <1>2, <2>2, <3>1, BatchAsPlayed
  <2>3. QED
    BY <2>1, <2>2
<1>6. \A j \in 1 .. Len(times) : (Len(times) - Len(times)) + j = j
  BY <1>1
<1>7. QED
  BY <1>3, <1>5, <1>6 DEF AsPlayed

-----------------------------------------------------------------------------
(* Extensions.  The live ticks at the times projected since the fork was   *)
(* cloned end in a machine that agrees with the fork.                      *)
LEMMA Joined ==
  ASSUME NEW old \in Seq(Int), NEW times \in Seq(Int)
  PROVE  /\ old \o times \in Seq(Int) /\ Len(old \o times) = Len(old) + Len(times)
         /\ \A i \in 1 .. Len(old) : (old \o times)[i] = old[i]
         /\ \A i \in 1 .. Len(times) : (old \o times)[Len(old) + i] = times[i]
  OBVIOUS

LEMMA PlaysOn ==
  ASSUME Plain, NEW m \in Machines, NEW old \in Seq(Int), NEW times \in Seq(Int), NEW in \in Int,
         NEW f, Plays(f, m, old, in), NEW g, Plays(g, m, old \o times, in)
  PROVE  /\ g[Len(old)] = f[Len(old)]
         /\ Plays([i \in 0 .. Len(times) |-> g[Len(old) + i]], f[Len(old)], times, in)
<1> DEFINE K == Len(old)
           N == Len(times)
           all == old \o times
           S == {i \in 0 .. K : g[i] = f[i]}
<1>1. K \in Nat /\ N \in Nat
  OBVIOUS
<1>2. /\ Len(all) = K + N /\ \A i \in 1 .. K : all[i] = old[i]
      /\ \A i \in 1 .. N : all[K + i] = times[i]
  BY Joined
<1> HIDE DEF all
<1>3. /\ f[0] = m /\ \A i \in 1 .. K : f[i] = Ticked(f[i - 1], old[i], in)
      /\ g \in [0 .. K + N -> Machines]
      /\ g[0] = m /\ \A i \in 1 .. K + N : g[i] = Ticked(g[i - 1], all[i], in)
  BY <1>2 DEF Plays, all
<1> HIDE DEF K, N
<1>4. 0 \in S
  BY <1>1, <1>3
<1>5. ASSUME NEW n \in 0 .. K - 1, n \in S PROVE n + 1 \in S
  <2>1. n + 1 \in 1 .. K /\ n + 1 \in 0 .. K /\ n + 1 \in 1 .. K + N /\ (n + 1) - 1 = n
    BY <1>1
  <2>2. f[n + 1] = Ticked(f[n], old[n + 1], in) /\ g[n + 1] = Ticked(g[n], old[n + 1], in)
    BY <1>2, <1>3, <2>1
  <2>3. QED
    BY <1>5, <2>1, <2>2
<1>6. 0 .. K \subseteq S
  <2> HIDE DEF S
  <2> QED BY <1>1, <1>4, <1>5, Reached
<1>7. g[K] = f[K]
  BY <1>1, <1>6
<1> DEFINE h == [i \in 0 .. N |-> g[K + i]]
<1>8. h \in [0 .. N -> Machines]
  BY <1>1, <1>3
<1>9. h[0] = f[K]
  <2>1. 0 \in 0 .. N /\ K + 0 = K
    BY <1>1
  <2>2. QED
    BY <1>7, <2>1
<1>10. ASSUME NEW i \in 1 .. N PROVE h[i] = Ticked(h[i - 1], times[i], in)
  <2>1. /\ i \in 0 .. N /\ i - 1 \in 0 .. N /\ K + i \in 1 .. K + N
        /\ (K + i) - 1 = K + (i - 1)
    BY <1>1
  <2>2. g[K + i] = Ticked(g[(K + i) - 1], all[K + i], in) /\ all[K + i] = times[i]
    BY <1>2, <1>3, <2>1
  <2>3. h[i] = g[K + i] /\ h[i - 1] = g[K + (i - 1)]
    BY <2>1
  <2>4. QED
    BY <2>1, <2>2, <2>3
<1> HIDE DEF h
<1>11. Plays(h, f[K], times, in)
  BY <1>8, <1>9, <1>10 DEF Plays, N
<1>12. QED
  BY <1>7, <1>11 DEF h, K, N

LEMMA Extended ==
  ASSUME Plain, ReadsValid, NEW m \in Machines, NEW k \in Machines,
         NEW old \in Seq(Int), NEW times \in Seq(Int), NEW in \in Int,
         NEW f, Plays(f, m, old, in), Agree(f[Len(old)], k)
  PROVE  /\ \E g : /\ Plays(g, m, old \o times, in)
                   /\ Agree(g[Len(old \o times)], Before(k, times, in, Len(times) + 1))
         /\ \A o \in Output, j \in 1 .. Len(times) : valid[o] =>
              SampleRows(k, times, in)[o][j]
                = Executed(LiveBefore(m, old \o times, in, Len(old) + j), valid,
                           (old \o times)[Len(old) + j], in)[o]
<1> DEFINE K == Len(old)
           N == Len(times)
           all == old \o times
<1>1. /\ K \in Nat /\ N \in Nat /\ all \in Seq(Int) /\ Len(all) = K + N
      /\ \A i \in 1 .. N : all[K + i] = times[i]
  BY Joined
<1>2. PICK g : Plays(g, m, all, in)
               /\ \A n \in 1 .. Len(all) + 1 : LiveBefore(m, all, in, n) = g[n - 1]
  BY <1>1, LiveRuns
<1>3. PICK h : Projects(h, k, times, in)
               /\ \A n \in 1 .. N + 1 : Before(k, times, in, n) = h[n - 1]
  BY ForkRuns
<1> DEFINE e == [i \in 0 .. N |-> g[K + i]]
<1>4. Plays(e, f[K], times, in)
  BY <1>2, PlaysOn
<1>5. f[K] \in Machines
  BY <1>1 DEF Plays
<1> HIDE DEF e, all
<1>6. /\ \A i \in 0 .. N : Agree(e[i], h[i])
      /\ \A i \in 1 .. N, o \in Output : valid[o] =>
           Executed(e[i - 1], valid, times[i], in)[o]
             = Executed(h[i - 1], IF i = 1 THEN valid ELSE Healed, times[i], in)[o]
  BY <1>3, <1>4, <1>5, RunsAgree
<1>7. Agree(g[Len(all)], Before(k, times, in, N + 1))
  <2>1. N \in 0 .. N /\ N + 1 \in 1 .. N + 1 /\ (N + 1) - 1 = N
    BY <1>1
  <2>2. e[N] = g[K + N] /\ Before(k, times, in, N + 1) = h[N]
    BY <1>3, <2>1 DEF e
  <2>3. QED
    BY <1>1, <1>6, <2>1, <2>2
<1>8. ASSUME NEW o \in Output, NEW j \in 1 .. N, valid[o]
      PROVE  SampleRows(k, times, in)[o][j]
               = Executed(LiveBefore(m, all, in, K + j), valid, all[K + j], in)[o]
  <2>1. /\ j \in 1 .. N + 1 /\ j - 1 \in 0 .. N /\ K + j \in 1 .. Len(all) + 1
        /\ (K + j) - 1 = K + (j - 1) /\ DOMAIN times = 1 .. N
    BY <1>1
  <2>2. e[j - 1] = g[K + (j - 1)] /\ LiveBefore(m, all, in, K + j) = g[K + (j - 1)]
    BY <1>2, <2>1 DEF e
  <2>3. SampleRows(k, times, in)[o][j]
          = Executed(Before(k, times, in, j), IF j = 1 THEN valid ELSE Healed, times[j], in)[o]
    BY <2>1 DEF SampleRows
  <2>4. Before(k, times, in, j) = h[j - 1] /\ all[K + j] = times[j]
    BY <1>1, <1>3, <2>1
  <2>5. QED
    BY <1>6, <1>8, <2>2, <2>3, <2>4
<1>9. QED
  BY <1>2, <1>7, <1>8 DEF all

Trails(f, s, m) == Plays(f, s.machine, s.times, s.input) /\ Agree(f[Len(s.times)], m)

ForkIs(k, s) ==
  \/ k = NoFork
  \/ /\ k = [valid |-> TRUE, machine |-> k.machine, input |-> k.input, frontier |-> k.frontier]
     /\ s = [machine |-> s.machine, input |-> s.input, root |-> s.root, still |-> s.still,
             times |-> s.times]
     /\ k.machine \in Machines /\ k.input \in Int /\ k.frontier \in Int
     /\ s.machine \in Machines /\ s.times \in Seq(Int) /\ s.input = k.input
     /\ RunsMarked \/ (s.times = <<>> /\ k.machine = s.machine)
     /\ s.still /\ ReadsValid => \E f : Trails(f, s, k.machine)

PlayInv == Plain /\ live \in Machines /\ ForkIs(fork, since)

(* Where nothing was projected yet the trail is short, whatever is valid.  *)
LEMMA ShortTrail ==
  ASSUME NEW s, NEW m \in Machines, s.machine = m, s.times = <<>>
  PROVE  \E f : Trails(f, s, m)
<1> DEFINE f == [i \in 0 .. 0 |-> m]
<1>1. Plays(f, m, <<>>, s.input)
  BY DEF Plays
<1>2. f[Len(<<>>)] = m /\ Agree(m, m)
  BY DEF Agree
<1> HIDE DEF f
<1>3. Trails(f, s, m)
  BY <1>1, <1>2 DEF Trails
<1>4. QED
  BY <1>3

(* A fork from which nothing is projected stays a fork when outputs are    *)
(* marked.                                                                 *)
LEMMA MarkedStays ==
  ASSUME UNCHANGED <<root, knob>>, valid' = Healed, RunsGiven, ~RunsMarked, NEW k, NEW s, ForkIs(k, s)
  PROVE  ForkIs(k, s)'
<1>1. CASE k = NoFork
  BY <1>1 DEF ForkIs, NoFork
<1>2. CASE k # NoFork
  <2>1. k.machine \in Machines /\ s.machine = k.machine /\ s.times = <<>>
    BY <1>2, Zenon DEF ForkIs
  <2>2. (\E f : Trails(f, s, k.machine))'
    <3> DEFINE f == [i \in 0 .. 0 |-> k.machine]
    <3>1. Plays(f, k.machine, <<>>, s.input)'
      BY <2>1 DEF Plays
    <3>2. Agree(f[Len(<<>>)], k.machine)'
      BY DEF Agree
    <3> HIDE DEF f
    <3>3. Trails(f, s, k.machine)'
      BY <2>1, <3>1, <3>2 DEF Trails
    <3>4. QED
      BY <3>3
  <2>3. RunsMarked'
    BY HealedIs DEF RunsMarked
  <2>4. QED
    BY <1>2, <2>2, <2>3, Zenon DEF ForkIs
<1>3. QED
  BY <1>1, <1>2

(* What changes neither programs nor the knob keeps the trail.             *)
LEMMA TrailsStay ==
  ASSUME UNCHANGED <<root, valid, knob>>, NEW k, NEW s, ForkIs(k, s)
  PROVE  ForkIs(k, s)'
<1>1. \A m, t, in : Ticked(m, t, in)' = Ticked(m, t, in)
  <2> TAKE m, t, in
  <2> DEFINE E == Executed(m, valid, t, in)
  <2>1. Executed(m, valid, t, in)' = Executed(m, valid, t, in)
    BY DEF Executed
  <2>2. StateAfter(m, t)' = StateAfter(m, t)
    BY DEF StateAfter
  <2>3. QED
    BY <2>1, <2>2 DEF Ticked
<1>2. \A f, m, times, in : Plays(f, m, times, in) => Plays(f, m, times, in)'
  BY <1>1 DEF Plays
<1>3. \A a, b : Agree(a, b) => Agree(a, b)'
  BY DEF Agree
<1>4. ReadsValid' => ReadsValid
  BY DEF ReadsValid
<1>5. \A f : Trails(f, s, k.machine) => Trails(f, s, k.machine)'
  BY <1>2, <1>3 DEF Trails
<1>6. RunsMarked' <=> RunsMarked
  BY DEF RunsMarked
<1>7. QED
  BY <1>4, <1>5, <1>6 DEF ForkIs

LEMMA MovedOn ==
  ASSUME NEW k, NEW m, NEW t, NEW r, r = [k EXCEPT !.machine = m, !.frontier = t],
         k = [valid |-> k.valid, machine |-> k.machine, input |-> k.input, frontier |-> k.frontier]
  PROVE  r = [valid |-> k.valid, machine |-> m, input |-> k.input, frontier |-> t]
  OBVIOUS

(* What a projection that is not refused leaves of its fork, and answers:  *)
(* h holds the machines between its samples.                               *)
Leaves(m, k, s, n, times, h) ==
  /\ Len(times) = n /\ n \in Nat /\ times[n] \in Int
  /\ Projects(h, k.machine, times, k.input) /\ h[n] \in Machines
  /\ h[n] = Before(k.machine, times, k.input, n + 1)
  /\ fork' = [valid |-> TRUE, machine |-> h[n], input |-> k.input, frontier |-> times[n]]
  /\ since' = [machine |-> s.machine, input |-> k.input, root |-> s.root,
               still |-> s.still, times |-> s.times \o times]
  /\ answer' = [kind |-> "future", times |-> times,
                rows |-> Channels(SampleRows(k.machine, times, k.input),
                                  OutputsIn(Healed), OutputsIn(valid), Healed, m, times)]
  /\ valid' = Healed

LEMMA Projected ==
  ASSUME Plain, NEW m \in Machines, NEW k, NEW s, k # NoFork, ForkIs(k, s),
         NEW end \in Time, NEW n \in 1 .. MaxSamples, ProjectFrom(m, k, s, end, n),
         ~(end <= k.frontier)
  PROVE  \E times \in Seq(Int) : \E h : Leaves(m, k, s, n, times, h)
<1>1. /\ k = [valid |-> TRUE, machine |-> k.machine, input |-> k.input, frontier |-> k.frontier]
      /\ s = [machine |-> s.machine, input |-> s.input, root |-> s.root, still |-> s.still,
              times |-> s.times]
      /\ k.machine \in Machines /\ k.input \in Int /\ k.frontier \in Int
      /\ s.machine \in Machines /\ s.times \in Seq(Int) /\ s.input = k.input
  BY Zenon DEF ForkIs
<1> DEFINE step == (end - k.frontier) \div n
           times == [i \in 1 .. n |-> k.frontier + step * i]
           ran == Before(k.machine, times, k.input, n + 1)
           rows == SampleRows(k.machine, times, k.input)
<1>2. times \in Seq(Int) /\ Len(times) = n /\ n \in Nat /\ times[n] \in Int
  <2>1. n \in Nat /\ n > 0 /\ end \in Int
    BY ProjectionAssumption, ValueAssumption DEF Time
  <2>2. step \in Int
    BY <1>1, <2>1
  <2> HIDE DEF step
  <2>3. \A i \in 1 .. n : k.frontier + step * i \in Int
    BY <1>1, <2>1, <2>2
  <2>4. QED
    BY <2>1, <2>3
<1>3. /\ answer' = [kind |-> "future", times |-> times,
                    rows |-> Channels(rows, OutputsIn(Healed), OutputsIn(valid), Healed, m, times)]
      /\ fork' = [k EXCEPT !.machine = ran, !.frontier = times[Len(times)]]
      /\ since' = [s EXCEPT !.times = s.times \o times]
      /\ valid' = Healed
  BY DEF ProjectFrom, Shown, ForkAfter, Last
<1> HIDE DEF times, ran, rows, step
<1>4. PICK h : Projects(h, k.machine, times, k.input)
               /\ \A i \in 1 .. Len(times) + 1 : Before(k.machine, times, k.input, i) = h[i - 1]
  BY <1>1, <1>2, ForkRuns
<1>5. h[n] = ran /\ h[n] \in Machines
  <2>1. n + 1 \in 1 .. Len(times) + 1 /\ (n + 1) - 1 = n /\ n \in 0 .. Len(times)
    BY <1>2
  <2>2. h[n] \in Machines
    BY <1>4, <2>1 DEF Projects
  <2>3. QED
    BY <1>4, <2>1, <2>2 DEF ran
<1>6. fork' = [valid |-> TRUE, machine |-> ran, input |-> k.input, frontier |-> times[n]]
  <2>1. fork' = [k EXCEPT !.machine = ran, !.frontier = times[n]]
    BY <1>2, <1>3
  <2>2. k.valid = TRUE
        /\ k = [valid |-> k.valid, machine |-> k.machine, input |-> k.input, frontier |-> k.frontier]
    BY <1>1
  <2>3. QED
    BY <2>1, <2>2, MovedOn
<1>7. since' = [machine |-> s.machine, input |-> k.input, root |-> s.root, still |-> s.still,
                times |-> s.times \o times]
  <2> DEFINE all == s.times \o times
  <2>1. since' = [s EXCEPT !.times = all]
    BY <1>3
  <2> HIDE DEF all
  <2>2. QED
    BY <1>1, <2>1 DEF all
<1>8. Leaves(m, k, s, n, times, h)
  BY <1>2, <1>3, <1>4, <1>5, <1>6, <1>7 DEF ran, rows, Leaves
<1>9. QED
  BY <1>2, <1>8

(* A projection from a fork: the fork goes on as the live engine would,    *)
(* and what is shown is what it would play.                                *)
LEMMA ProjectionShows ==
  ASSUME Plain, RunsMarked, NEW m \in Machines, NEW k, NEW s, k # NoFork, ForkIs(k, s),
         NEW end \in Time, NEW n \in 1 .. MaxSamples, ProjectFrom(m, k, s, end, n)
  PROVE  /\ ForkIs(fork', since')
         /\ answer'.kind = "future" /\ ReadsValid /\ since'.still =>
              \A o \in OutputsIn(valid) :
                AsPlayed(answer'.rows[Named(o)], o, since'.machine, since'.times, since'.input,
                         Len(answer'.times))
<1>1. /\ k.machine \in Machines /\ k.input \in Int
      /\ s.machine \in Machines /\ s.times \in Seq(Int) /\ s.input = k.input
      /\ s.still /\ ReadsValid => \E f : Trails(f, s, k.machine)
  BY Zenon DEF ForkIs
<1>2. CASE end <= k.frontier
  <2>1. answer' = Refused /\ fork' = k /\ since' = s
    BY <1>2 DEF ProjectFrom
  <2>2. answer'.kind # "future"
    BY <2>1 DEF Refused
  <2>3. QED
    BY <2>1, <2>2
<1>3. CASE ~(end <= k.frontier)
  <2> PICK times \in Seq(Int) : \E h : Leaves(m, k, s, n, times, h)
    BY <1>3, Projected
  <2> PICK h : Leaves(m, k, s, n, times, h)
    OBVIOUS
  <2> DEFINE ran == Before(k.machine, times, k.input, n + 1)
             all == s.times \o times
             rows == SampleRows(k.machine, times, k.input)
  <2>len. Len(times) = n
    BY DEF Leaves
  <2>ran. /\ Len(times) = n /\ n \in Nat /\ times[n] \in Int
        /\ h[n] = ran /\ ran \in Machines
    BY DEF Leaves
  <2>left. /\ fork' = [valid |-> TRUE, machine |-> ran, input |-> k.input, frontier |-> times[n]]
        /\ since' = [machine |-> s.machine, input |-> k.input, root |-> s.root,
                     still |-> s.still, times |-> all]
        /\ answer' = [kind |-> "future", times |-> times,
                      rows |-> Channels(rows, OutputsIn(Healed), OutputsIn(valid), Healed, m, times)]
    BY DEF Leaves
  <2> HIDE DEF ran, all, rows
  <2>1. Healed = valid /\ OutputsIn(valid) \in SUBSET Output
        /\ \A o \in OutputsIn(valid) : o \in Output /\ valid[o]
    BY NothingToHeal DEF Plain, OutputsIn
  <2>2. all \in Seq(Int) /\ Len(all) = Len(s.times) + n
    BY <1>1, <2>ran, Joined DEF all
  <2>3. ASSUME s.still, ReadsValid
        PROVE  /\ \E g : Plays(g, s.machine, all, k.input) /\ Agree(g[Len(all)], ran)
               /\ \A o \in Output, j \in 1 .. n : valid[o] =>
                    rows[o][j] = Executed(LiveBefore(s.machine, all, k.input, Len(s.times) + j),
                                          valid, all[Len(s.times) + j], k.input)[o]
    <3>1. PICK f : Plays(f, s.machine, s.times, k.input) /\ Agree(f[Len(s.times)], k.machine)
      BY <1>1, <2>3 DEF Trails
    <3>2. k.machine \in Machines /\ s.machine \in Machines /\ s.times \in Seq(Int) /\ k.input \in Int
      BY <1>1
    <3> DEFINE km == k.machine
               sm == s.machine
               old == s.times
               in == k.input
    <3> HIDE DEF km, sm, old, in
    <3>3. /\ \E g : /\ Plays(g, sm, old \o times, in)
                    /\ Agree(g[Len(old \o times)], Before(km, times, in, Len(times) + 1))
          /\ \A o \in Output, j \in 1 .. Len(times) : valid[o] =>
               SampleRows(km, times, in)[o][j]
                 = Executed(LiveBefore(sm, old \o times, in, Len(old) + j), valid,
                            (old \o times)[Len(old) + j], in)[o]
      <4>1. Plays(f, sm, old, in) /\ Agree(f[Len(old)], km)
        BY <3>1 DEF km, sm, old, in
      <4>2. km \in Machines /\ sm \in Machines /\ old \in Seq(Int) /\ in \in Int
        BY <3>2 DEF km, sm, old, in
      <4>3. QED
        BY <2>3, <4>1, <4>2, Extended
    <3>4. QED
      BY <2>len, <3>3 DEF all, ran, rows, km, sm, old, in
  <2>4. /\ fork'.machine = ran /\ fork'.input = k.input /\ fork'.frontier = times[n]
        /\ fork' = [valid |-> TRUE, machine |-> ran, input |-> k.input, frontier |-> times[n]]
    BY <2>left
  <2>5. /\ since'.machine = s.machine /\ since'.input = k.input /\ since'.still = s.still
        /\ since'.root = s.root /\ since'.times = all
        /\ since' = [machine |-> s.machine, input |-> k.input, root |-> s.root, still |-> s.still,
                     times |-> all]
    BY <2>left
  <2>6. ForkIs(fork', since')
    <3>1. s.still /\ ReadsValid => \E g : Trails(g, since', ran)
      BY <2>3, <2>5 DEF Trails
    <3>2. QED
      BY <1>1, <2>ran, <2>2, <2>4, <2>5, <3>1 DEF ForkIs
  <2>7. ASSUME ReadsValid, s.still, NEW o \in OutputsIn(valid)
        PROVE  AsPlayed(answer'.rows[Named(o)], o, since'.machine, since'.times, since'.input,
                        Len(answer'.times))
    <3>1. answer'.rows[Named(o)] = rows[o] /\ Len(answer'.times) = n
      <4>1. answer'.rows = Channels(rows, OutputsIn(valid), OutputsIn(valid), valid, m, times)
            /\ answer'.times = times
        BY <2>left, <2>1
      <4>2. QED
        BY <2>ran, <2>1, <4>1, ChannelOfOutput
    <3>2. Len(all) - n = Len(s.times) /\ Len(s.times) \in Nat
      BY <1>1, <2>ran, <2>2
    <3>3. \A j \in 1 .. n :
            rows[o][j] = Executed(LiveBefore(s.machine, all, k.input, (Len(all) - n) + j),
                                  valid, all[(Len(all) - n) + j], k.input)[o]
      BY <2>1, <2>3, <2>7, <3>2
    <3>4. QED
      BY <2>5, <3>1, <3>3 DEF AsPlayed
  <2>8. QED
    BY <2>5, <2>6, <2>7
<1>4. QED
  BY <1>2, <1>3

-----------------------------------------------------------------------------
(* Projecting while an output runs marked invalid: the answer may be       *)
(* wrong, but the fork goes on as the engine will with the outputs marked. *)
Fresh ==
  \A h : \A m \in Machines, times \in Seq(Int), in \in Int :
    Projects(h, m, times, in) =>
      \E f : Plays(f, m, times, in) /\ Agree(f[Len(times)], h[Len(times)])

LEMMA FreshRuns == Plain /\ ReadsValid => Fresh
<1> SUFFICES ASSUME Plain, ReadsValid, NEW h, NEW m \in Machines, NEW times \in Seq(Int), NEW in \in Int,
                    Projects(h, m, times, in)
             PROVE  \E f : Plays(f, m, times, in) /\ Agree(f[Len(times)], h[Len(times)])
  BY DEF Fresh
<1>1. PICK f : Plays(f, m, times, in)
  BY LiveRuns
<1>2. Agree(m, m)
  BY DEF Agree
<1>3. \A i \in 0 .. Len(times) : Agree(f[i], h[i])
  BY <1>1, <1>2, RunsAgree
<1>4. Len(times) \in 0 .. Len(times)
  OBVIOUS
<1>5. QED
  BY <1>1, <1>3, <1>4

LEMMA FreshNext == Plain' /\ ReadsValid' => Fresh'
  BY FreshRuns, PTL

(* Marking the outputs changes no sample and no step of a fork.            *)
LEMMA ProjectsStay ==
  ASSUME RunsGiven, UNCHANGED <<root, knob>>, valid' = Healed
  PROVE  \A h, m, times, in : Projects(h, m, times, in) => Projects(h, m, times, in)'
<1>1. \A m, t, in : Executed(m, valid, t, in) = Executed(m, Healed, t, in)
  BY HealedIs DEF Executed, RunsGiven
<1>2. \A m, ok, t, in : Stepped(m, ok, t, in)' = Stepped(m, ok, t, in)
  <2> TAKE m, ok, t, in
  <2>1. Executed(m, ok, t, in)' = Executed(m, ok, t, in)
    BY DEF Executed
  <2>2. StateAfter(m, t)' = StateAfter(m, t)
    BY DEF StateAfter
  <2>3. QED
    BY <2>1, <2>2 DEF Stepped
<1>3. \A m, t, in : Stepped(m, valid, t, in) = Stepped(m, Healed, t, in)
  <2> TAKE m, t, in
  <2>1. Executed(m, valid, t, in) = Executed(m, Healed, t, in)
    BY <1>1
  <2>2. QED
    BY <2>1, Zenon DEF Stepped
<1>4. Healed' = Healed
  <2>1. \A o \in Output : Healed[o] = (Healed[o] \/ root[o] # NoProgram)
    BY HealedIs
  <2>2. Healed = [o \in Output |-> Healed[o]]
    BY DEF Healed
  <2>3. Healed' = [o \in Output |-> Healed[o] \/ root[o] # NoProgram]
    BY DEF Healed
  <2> HIDE DEF Healed
  <2>4. QED
    BY <2>1, <2>2, <2>3
<1>5. SUFFICES ASSUME NEW h, NEW m, NEW times, NEW in, Projects(h, m, times, in)
               PROVE  Projects(h, m, times, in)'
  OBVIOUS
<1>6. ASSUME NEW i \in 1 .. Len(times)
      PROVE  (h[i] = Stepped(h[i - 1], IF i = 1 THEN valid ELSE Healed, times[i], in))'
  <2> PICK ok : ok = (IF i = 1 THEN valid ELSE Healed)'
    OBVIOUS
  <2> PICK a : a = h[i - 1]
    OBVIOUS
  <2> PICK t : t = times[i]
    OBVIOUS
  <2>1. h[i] = Stepped(a, IF i = 1 THEN valid ELSE Healed, t, in)
    BY <1>5, Zenon DEF Projects
  <2>2. ok = Healed
    BY <1>4
  <2>3. h[i] = Stepped(a, ok, t, in)
    BY <1>3, <2>1, <2>2
  <2>4. h[i] = Stepped(a, ok, t, in)'
    BY <1>2, <2>3
  <2>5. Stepped(a, ok, t, in)' = Stepped(a, IF i = 1 THEN valid ELSE Healed, t, in)'
    BY Zenon DEF Stepped, Executed
  <2>6. QED
    BY <2>4, <2>5
<1>7. QED
  BY <1>5, <1>6, Zenon DEF Projects

LEMMA UnmarkedProjects ==
  ASSUME Plain, Plain', ~RunsMarked, UNCHANGED <<root, knob>>,
         NEW m \in Machines, NEW k, NEW s, k # NoFork, ForkIs(k, s),
         NEW end \in Time, NEW n \in 1 .. MaxSamples, ProjectFrom(m, k, s, end, n),
         NEW k1, NEW s1, k1 = fork', s1 = since'
  PROVE  ForkIs(k1, s1)'
<1>1. CASE end <= k.frontier
  <2>1. k1 = k /\ s1 = s /\ UNCHANGED valid
    BY <1>1 DEF ProjectFrom
  <2>2. QED
    BY <2>1, TrailsStay
<1>2. CASE ~(end <= k.frontier)
  <2>1. /\ k.machine \in Machines /\ k.input \in Int
        /\ s.machine = k.machine /\ s.times = <<>>
    BY Zenon DEF ForkIs
  <2> PICK times \in Seq(Int) : \E h : Leaves(m, k, s, n, times, h)
    BY <1>2, Projected
  <2> PICK h : Leaves(m, k, s, n, times, h)
    OBVIOUS
  <2>0. /\ Len(times) = n /\ n \in Nat /\ times[n] \in Int /\ h[n] \in Machines
        /\ Projects(h, k.machine, times, k.input) /\ valid' = Healed
        /\ fork' = [valid |-> TRUE, machine |-> h[n], input |-> k.input, frontier |-> times[n]]
        /\ since' = [machine |-> s.machine, input |-> k.input, root |-> s.root,
                     still |-> s.still, times |-> s.times \o times]
    BY DEF Leaves
  <2>2. Projects(h, k.machine, times, k.input)'
    BY <2>0, ProjectsStay DEF Plain
  <2>3. ReadsValid' => \E f : (Plays(f, k.machine, times, k.input) /\ Agree(f[n], h[n]))'
    BY <2>0, <2>1, <2>2, FreshNext DEF Fresh
  <2>4. s.times \o times = times
    BY <2>1
  <2>5. /\ k1.machine = h[n] /\ k1.input = k.input /\ k1.frontier = times[n]
        /\ k1 = [valid |-> TRUE, machine |-> h[n], input |-> k.input, frontier |-> times[n]]
    BY <2>0
  <2>6. /\ s1.machine = k.machine /\ s1.input = k.input /\ s1.still = s.still
        /\ s1.root = s.root /\ s1.times = times
        /\ s1 = [machine |-> k.machine, input |-> k.input, root |-> s.root, still |-> s.still,
                 times |-> times]
    BY <2>0, <2>1, <2>4
  <2>7. ReadsValid' => (\E f : Trails(f, s1, k1.machine))'
    BY <2>0, <2>3, <2>5, <2>6 DEF Trails
  <2>8. RunsMarked'
    BY <2>0, HealedIs DEF RunsMarked, Plain
  <2>9. QED
    BY <2>0, <2>1, <2>5, <2>6, <2>7, <2>8 DEF ForkIs
<1>3. QED
  BY <1>1, <1>2

-----------------------------------------------------------------------------
(* What each call does to all of this.                                     *)
LEMMA EvaluateGives ==
  ASSUME LookInv, live \in Machines, Evaluate
  PROVE  live' \in Machines /\ UNCHANGED <<input, knob>>
<1>1. CASE AssignOutput /\ UNCHANGED <<live, input, knob>>
  BY <1>1
<1>2. CASE DefineState
  <2>1. live' = [live EXCEPT !.slots = 1, !.state = 0] /\ UNCHANGED <<root, valid, input, knob>>
    BY <1>2 DEF DefineState
  <2>2. live' = [state |-> 0, slots |-> 1, prev |-> live.prev, lkg |-> live.lkg,
                 last |-> live.last]
    BY <2>1 DEF LookInv, IsMachine
  <2>3. live.prev \in [Output -> Int] /\ live.lkg \in [Output -> Int] /\ live.last \in Int
    BY DEF Machines
  <2>4. live' \in Machines
    BY <2>2, <2>3 DEF Machines
  <2>5. QED
    BY <2>1, <2>4
<1>3. CASE Clear
  <2> DEFINE z == [o \in Output |-> 0]
  <2>1. live' = [live EXCEPT !.slots = 0, !.lkg = z]
    BY <1>3 DEF Clear
  <2>2. z \in [Output -> Int]
    OBVIOUS
  <2> HIDE DEF z
  <2>3. live' \in Machines
    BY <2>1, <2>2 DEF Machines
  <2>4. QED
    BY <1>3, <2>3 DEF Clear
<1>4. QED
  BY <1>1, <1>2, <1>3 DEF Evaluate

LEMMA SnapshotGives ==
  ASSUME live \in Machines, Snapshot
  PROVE  live' \in Machines /\ knob' \in Int /\ input' = input
<1>1. live' \in Machines
  <2>1. PICK n \in 0 .. Wrap - 1 : live' = [live EXCEPT !.state = IF live.slots = 1 THEN n ELSE @]
    BY DEF Snapshot
  <2>2. n \in Int
    BY ValueAssumption
  <2>3. QED
    BY <2>1, <2>2 DEF Machines
<1>2. QED
  BY <1>1, ValueAssumption DEF Snapshot

FutureShown ==
  answer'.kind = "future" /\ RunsMarked /\ ReadsValid /\ since'.still =>
    \A o \in OutputsIn(valid) :
      AsPlayed(answer'.rows[Named(o)], o, since'.machine, since'.times, since'.input,
               Len(answer'.times))

(* The trail of a fork that is left alone, or goes on.                     *)
LEMMA ForkStays ==
  ASSUME UNCHANGED <<root, valid, knob>>, ForkIs(fork', since')
  PROVE  ForkIs(fork, since)'
<1> PICK k : k = fork'
  OBVIOUS
<1> PICK s : s = since'
  OBVIOUS
<1>1. ForkIs(k, s)'
  BY TrailsStay
<1>2. QED
  BY <1>1

LEMMA ForkProjects ==
  ASSUME Plain, Plain', UNCHANGED <<root, knob>>,
         NEW m \in Machines, NEW k, NEW s, k # NoFork, ForkIs(k, s),
         NEW end \in Time, NEW n \in 1 .. MaxSamples, ProjectFrom(m, k, s, end, n)
  PROVE  ForkIs(fork, since)' /\ FutureShown
<1>1. CASE RunsMarked
  <2>1. ForkIs(fork', since') /\ FutureShown
    BY <1>1, ProjectionShows DEF FutureShown
  <2>2. UNCHANGED valid
    <3>1. UNCHANGED valid \/ valid' = Healed
      BY Zenon DEF ProjectFrom
    <3>2. QED
      BY <1>1, <3>1, NothingToHeal DEF Plain
  <2>3. QED
    BY <2>1, <2>2, ForkStays
<1>2. CASE ~RunsMarked
  <2> PICK k1 : k1 = fork'
    OBVIOUS
  <2> PICK s1 : s1 = since'
    OBVIOUS
  <2>1. ForkIs(k1, s1)'
    BY <1>2, UnmarkedProjects
  <2>2. QED
    BY <1>2, <2>1 DEF FutureShown
<1>3. QED
  BY <1>1, <1>2

(* A tick, and the projection after it.                                    *)
LEMMA TickAndProjectShows ==
  ASSUME PlayInv, Plain', UNCHANGED <<root, knob>>, answer = NoAnswer, NEW t \in Time,
         \/ TickOnly(t)
         \/ \E end \in Time, n \in 1 .. MaxSamples : ResetFill(t, end, n) \/ ExtendFrontier(t, end, n)
  PROVE  ForkIs(fork, since)' /\ FutureShown
<1> DEFINE m == Ticked(live, t, input)
<1>1. m \in Machines
  <2>1. t \in Int /\ input \in Int
    BY ValueAssumption DEF Time, PlayInv, Plain
  <2>2. QED
    BY <2>1, SteppedType DEF PlayInv
<1> HIDE DEF m
<1>2. answer' = answer \/ answer' = Refused => FutureShown
  BY DEF NoAnswer, Refused, FutureShown
<1>3. UNCHANGED <<valid, fork, since>> => ForkIs(fork, since)'
  BY ForkStays DEF PlayInv
<1>4. CASE TickOnly(t)
  BY <1>2, <1>3, <1>4 DEF TickOnly
<1>5. CASE \E end \in Time, n \in 1 .. MaxSamples : ResetFill(t, end, n)
  <2> PICK end \in Time, n \in 1 .. MaxSamples : ResetFill(t, end, n)
    BY <1>5
  <2> DEFINE k == Cloned(m)
             s == [machine |-> m, input |-> input, root |-> root, still |-> TRUE, times |-> <<>>]
  <2>1. ProjectFrom(m, k, s, end, n)
    BY Zenon DEF ResetFill, m
  <2>2. k # NoFork
    BY DEF Cloned, NoFork
  <2>3. /\ k = [valid |-> TRUE, machine |-> k.machine, input |-> k.input, frontier |-> k.frontier]
        /\ k.machine = m /\ k.input = input /\ k.frontier \in Int
    BY <1>1 DEF Cloned, Machines
  <2>4. /\ s = [machine |-> s.machine, input |-> s.input, root |-> s.root, still |-> s.still,
                times |-> s.times]
        /\ s.machine = m /\ s.input = input /\ s.times = <<>>
    OBVIOUS
  <2> HIDE DEF k, s
  <2>5. \E f : Trails(f, s, m)
    BY <1>1, <2>4, ShortTrail
  <2>6. input \in Int /\ <<>> \in Seq(Int)
    BY DEF PlayInv, Plain
  <2>7. ForkIs(k, s)
    BY <1>1, <2>3, <2>4, <2>5, <2>6 DEF ForkIs
  <2>8. QED
    BY <1>1, <2>1, <2>2, <2>7, ForkProjects DEF PlayInv
<1>6. CASE \E end \in Time, n \in 1 .. MaxSamples : ExtendFrontier(t, end, n)
  <2> PICK end \in Time, n \in 1 .. MaxSamples : ExtendFrontier(t, end, n)
    BY <1>6
  <2>1. CASE fork.valid
    <3>1. fork # NoFork
      BY <2>1 DEF NoFork
    <3>2. ProjectFrom(m, fork, since, end, n)
      BY <2>1, Zenon DEF ExtendFrontier, m
    <3>3. QED
      BY <1>1, <3>1, <3>2, ForkProjects DEF PlayInv
  <2>2. CASE ~fork.valid
    <3>1. answer' = Refused /\ UNCHANGED <<valid, fork, since>>
      BY <2>2, Zenon DEF ExtendFrontier
    <3>2. QED
      BY <1>2, <1>3, <3>1
  <2>3. QED
    BY <2>1, <2>2
<1>7. QED
  BY <1>4, <1>5, <1>6

LEMMA PlayStep ==
  ASSUME PlayInv, [Next]_vars
  PROVE  PlayInv' /\ (UNCHANGED vars \/ FutureShown)
<1>1. LookInv /\ RunsGiven /\ live \in Machines /\ input \in Int /\ knob \in Int
  BY MachinesAre DEF PlayInv, Plain, LookInv
<1>2. RunsGiven'
  BY <1>1, LookStep DEF LookInv
<1>3. SUFFICES /\ input' \in Int /\ knob' \in Int /\ live' \in Machines
               /\ ForkIs(fork, since)' /\ (UNCHANGED vars \/ FutureShown)
  BY <1>2 DEF PlayInv, Plain
<1>4. answer = NoAnswer /\ UNCHANGED answer => FutureShown
  BY DEF FutureShown, NoAnswer
<1>5. Dropped => ForkIs(fork, since)'
  BY DEF Dropped, ForkIs
<1>6. UNCHANGED <<root, valid, knob, fork, since>> => ForkIs(fork, since)'
  BY ForkStays DEF PlayInv
<1>7. CASE answer = NoAnswer /\ Eval
  BY <1>1, <1>4, <1>5, <1>7, EvaluateGives DEF Eval
<1>8. CASE answer = NoAnswer /\ ApplySnapshot
  BY <1>1, <1>4, <1>5, <1>8, SnapshotGives DEF ApplySnapshot
<1>9. CASE answer = NoAnswer /\ SetInputValue
  BY <1>1, <1>4, <1>6, <1>9, ValueAssumption DEF SetInputValue, SetInput
<1>10. CASE answer = NoAnswer /\ SetLiveInputs
  <2> PICK v \in KnobValue : /\ SetKnob(v)
                             /\ since' = IF fork.valid /\ v # knob
                                         THEN [since EXCEPT !.still = FALSE] ELSE since
                             /\ UNCHANGED <<answer, fork>>
    BY <1>10 DEF SetLiveInputs
  <2>1. knob' = v /\ UNCHANGED <<root, valid, live, input>> /\ v \in Int
    BY ValueAssumption DEF SetKnob
  <2>2. ForkIs(fork, since)'
    <3>1. CASE v = knob
      BY <1>6, <2>1, <3>1
    <3>2. CASE fork = NoFork
      BY <3>2 DEF ForkIs
    <3>3. CASE fork # NoFork /\ v # knob
      <4>1. /\ fork = [valid |-> TRUE, machine |-> fork.machine, input |-> fork.input,
                       frontier |-> fork.frontier]
            /\ since = [machine |-> since.machine, input |-> since.input, root |-> since.root,
                        still |-> since.still, times |-> since.times]
            /\ fork.machine \in Machines /\ fork.input \in Int /\ fork.frontier \in Int
            /\ since.machine \in Machines /\ since.times \in Seq(Int) /\ since.input = fork.input
            /\ RunsMarked \/ (since.times = <<>> /\ fork.machine = since.machine)
        BY <3>3, Zenon DEF PlayInv, ForkIs
      <4>2. fork.valid
        BY <4>1
      <4>3. since' = [since EXCEPT !.still = FALSE]
        BY <3>3, <4>2
      <4>4. /\ since' = [machine |-> since.machine, input |-> since.input, root |-> since.root,
                         still |-> FALSE, times |-> since.times]
        BY <4>1, <4>3
      <4>5. /\ since'.machine = since.machine /\ since'.input = since.input
            /\ since'.root = since.root /\ since'.times = since.times /\ since'.still = FALSE
        BY <4>4
      <4>6. since' = [machine |-> since'.machine, input |-> since'.input, root |-> since'.root,
                      still |-> since'.still, times |-> since'.times]
        BY <4>4, <4>5, Zenon
      <4>7. RunsMarked' <=> RunsMarked
        BY <2>1 DEF RunsMarked
      <4>8. fork' = fork
        BY <1>10 DEF SetLiveInputs
      <4>9. QED
        BY <4>1, <4>5, <4>6, <4>7, <4>8, Zenon DEF ForkIs
    <3>4. QED
      BY <3>1, <3>2, <3>3
  <2>3. QED
    BY <1>1, <1>4, <1>10, <2>1, <2>2
<1>11. CASE answer = NoAnswer /\ Observe
  <2>1. UNCHANGED liveVars \/ Mark
    BY <1>1, <1>11, ObserveLeaves
  <2>2. UNCHANGED <<root, live, input, knob>> /\ (UNCHANGED valid \/ valid' = Healed)
    BY <2>1 DEF liveVars, Mark
  <2>3. UNCHANGED <<fork, since, answer>>
    BY <1>11 DEF Observe, EvalOutput, Window
  <2>4. ForkIs(fork, since)'
    <3>1. CASE UNCHANGED valid
      BY <1>6, <2>2, <2>3, <3>1
    <3>2. CASE valid' = Healed /\ RunsMarked
      BY <1>1, <1>6, <2>2, <2>3, <3>2, NothingToHeal
    <3>3. CASE valid' = Healed /\ ~RunsMarked
      <4> PICK k : k = fork
        OBVIOUS
      <4> PICK s : s = since
        OBVIOUS
      <4>1. ForkIs(k, s)'
        BY <1>1, <2>2, <3>3, MarkedStays DEF PlayInv
      <4>2. k = fork' /\ s = since'
        BY <2>3
      <4>3. QED
        BY <4>1, <4>2
    <3>4. QED
      BY <2>2, <3>1, <3>2, <3>3
  <2>5. QED
    BY <1>1, <1>4, <1>11, <2>2, <2>3, <2>4
<1>12. CASE answer = NoAnswer /\ TickAndProject
  <2> PICK t \in Time :
        \/ TickOnly(t)
        \/ \E end \in Time, n \in 1 .. MaxSamples : ResetFill(t, end, n) \/ ExtendFrontier(t, end, n)
    BY <1>12 DEF TickAndProject
  <2>1. live' = Ticked(live, t, input) /\ UNCHANGED <<root, input, knob>>
    BY <1>1, TickAndProjectLeaves DEF Tick, TickAndMark
  <2>2. live' \in Machines
    <3>1. t \in Int
      BY ValueAssumption DEF Time
    <3>2. QED
      BY <1>1, <2>1, <3>1, SteppedType DEF PlayInv
  <2>3. Plain'
    BY <1>1, <1>2, <2>1 DEF Plain
  <2>4. ForkIs(fork, since)' /\ FutureShown
    BY <1>12, <2>1, <2>3, TickAndProjectShows
  <2>5. QED
    BY <1>1, <2>1, <2>2, <2>4
<1>13. CASE Return
  <2>1. FutureShown
    BY <1>13 DEF Return, NoAnswer, FutureShown
  <2>2. QED
    BY <1>1, <1>6, <1>13, <2>1 DEF Return
<1>14. CASE UNCHANGED vars
  BY <1>1, <1>6, <1>14 DEF vars
<1>15. QED
  BY <1>7, <1>8, <1>9, <1>10, <1>11, <1>12, <1>13, <1>14 DEF Next, Call

LEMMA PlayInit == Init => PlayInv
<1> SUFFICES ASSUME Init PROVE PlayInv
  OBVIOUS
<1>1. RunsGiven /\ input \in Int /\ knob \in Int
  BY LookInit DEF Init, LiveInit, LookInv
<1>2. live \in Machines /\ fork = NoFork
  BY DEF Init, LiveInit, Machines
<1>3. QED
  BY <1>1, <1>2 DEF PlayInv, Plain, ForkIs

(* A window shows each output the samples that ticks at its times would    *)
(* have given it, for any programs and number of outputs: whichever way    *)
(* execute_batch takes and in both forms of the call while no output runs  *)
(* marked invalid, and on the sequential path answered in JSON always.     *)
THEOREM WindowsAreSampled == Spec => []WindowIsSampled
<1>1. PlayInv /\ [Next]_vars => PlayInv'
  BY PlayStep
<1>2. PlayInv => WindowIsSampled
  BY WindowShows DEF PlayInv
<1>3. QED
  BY <1>1, <1>2, PlayInit, PTL DEF Spec

(* Every sample shown by a projection that is asked for while no output    *)
(* runs marked invalid is the one the live engine would play at that time, *)
(* however many extensions lie between the fork and it, whatever the live  *)
(* engine did meanwhile, and although an output ran marked invalid when    *)
(* the fork was cloned.                                                    *)
THEOREM ProjectionsComeTrue == Spec => FutureIsReal
<1>1. PlayInv /\ [Next]_vars => PlayInv' /\ [FutureShown]_vars
  BY PlayStep
<1>2. QED
  BY <1>1, PlayInit, PTL DEF Spec, FutureIsReal, FutureShown

=============================================================================
