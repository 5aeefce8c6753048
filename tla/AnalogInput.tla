---------------------------- MODULE AnalogInput ----------------------------
(***************************************************************************)
(* An analog input of the 1.0 hardware and its light: the median filter    *)
(* that read_inputs puts every sample through, and the timer interrupt     *)
(* that dithers LED_AI1 to the brightness read_inputs asks for             *)
(* (firmware/hardware_io.cpp).  A sample is a number of converter steps.   *)
(***************************************************************************)
EXTENDS Integers, Sequences, FiniteSets

CONSTANTS
  Size,   \* MedianFilter51::SIZE
  Scale,  \* converter steps, 2048; also the steps of the brightness
  Raw     \* the samples that may be read, in 0 .. Scale - 1

VARIABLES
  buf,     \* buf: the filter's ring
  idx,     \* idx: where the next sample goes
  tally,   \* count: how many samples there are
  input,   \* inputs[INP_AI1], in steps
  w,       \* pdm_w, in steps
  err,     \* pdm_err, in steps
  ahead    \* history: the steps of light given beyond those asked for

filter == <<buf, idx, tally, input>>
light == <<err, ahead>>
analog == <<filter, w, light>>

-----------------------------------------------------------------------------
(* nth_element(n / 2) of the first n samples: the upper one of two middles.*)
MedianOf(b, n) ==
  CHOOSE v \in {b[i] : i \in 0 .. n - 1} :
    /\ Cardinality({i \in 0 .. n - 1 : b[i] < v}) <= n \div 2
    /\ Cardinality({i \in 0 .. n - 1 : b[i] <= v}) > n \div 2

(* MedianFilter51::process.                                                *)
Process(r) ==
  /\ buf' = [buf EXCEPT ![idx] = r]
  /\ idx' = (idx + 1) % Size
  /\ tally' = IF tally < Size THEN tally + 1 ELSE tally
  /\ input' = MedianOf(buf', tally')

(* The brightness is squared, as the eye sees it.                          *)
Brightness(r) == (r * r) \div Scale

ReadInputs(r) ==
  /\ Process(r)
  /\ w' = Brightness(r)
  /\ UNCHANGED light

-----------------------------------------------------------------------------
LitWhenEqual(a, e) == IF a >= e THEN 1 ELSE 0   \* mutant: >= for >

Lit(a, e) == IF a > e THEN 1 ELSE 0

(* pdm_timer_callback, at any moment of the tick.  It reads pdm_w twice,   *)
(* but read_inputs cannot write it in between: nothing preempts the timer. *)
Timer ==
  /\ err' = Scale * Lit(w, err) - w + err
  /\ ahead' = ahead + Scale * Lit(w, err) - w
  /\ UNCHANGED <<filter, w>>

-----------------------------------------------------------------------------
Init ==
  /\ buf = [i \in 0 .. Size - 1 |-> 0]
  /\ idx = 0 /\ tally = 0 /\ input = 0
  /\ w = 0 /\ err = 0
  /\ ahead = 0

Next == (\E r \in Raw : ReadInputs(r)) \/ Timer

Spec == Init /\ [][Next]_analog

-----------------------------------------------------------------------------
(* The light given is never behind the brightness asked for, nor a whole   *)
(* flash ahead of it, however the brightness changes between two ticks of  *)
(* the timer: the dither neither drifts nor saturates.                     *)
LightIsAsAsked == ahead \in 0 .. Scale - 1

=============================================================================
