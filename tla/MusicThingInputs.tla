-------------------------- MODULE MusicThingInputs --------------------------
(***************************************************************************)
(* The knobs and sockets of the Music Thing hardware: two converter pins   *)
(* behind a multiplexer, two sockets without one, and a filter for each of *)
(* them (firmware/hardware_io.cpp, utils/ResponsiveAnalogRead).            *)
(*                                                                         *)
(* The filters are static objects made by the default constructor, which   *)
(* leaves snapMultiplier and sleepEnable to the zeroes of static storage;  *)
(* no call of begin sets them.  So a filter never sleeps, and the branches *)
(* for one that does are left out.                                         *)
(***************************************************************************)
EXTENDS Integers

CONSTANTS
  Top,     \* the largest converter reading, 4095
  Raw,     \* the readings the controls may give
  Unit,    \* the filters' fixed-point unit
  SnapMultiplier,    \* snapMultiplier, in units: 0
  AnalogResolution   \* analogResolution, 1024

VARIABLES
  control,  \* what each control is set to
  held,     \* history: readings since a control was last moved
  smooth,   \* smoothValue of each filter, in units
  input     \* the inputs made of them, in steps; the switch as 0, 1 or 2

thing == <<control, held, smooth, input>>

(* The controls; a socket for a control voltage is read upside down.       *)
Controls == {"main", "y", "x", "switch", "cv1", "cv2", "left", "right"}

Inverted == {"cv1", "cv2"}

-----------------------------------------------------------------------------
Abs(n) == IF n < 0 THEN -n ELSE n

(* snapCurve, of x in units.                                               *)
SnapCurve(x) ==
  LET y == (2 * x * Unit) \div (x + Unit)
  IN IF y > Unit THEN Unit ELSE y

Bounded(s) == IF s < 0 THEN 0
              ELSE IF s > (AnalogResolution - 1) * Unit THEN (AnalogResolution - 1) * Unit
              ELSE s

(* getResponsiveValue, the value it leaves in smoothValue.                 *)
Smoothed(s, new) ==
  LET off == new * Unit - s
      snap == SnapCurve((Abs(off) \div Unit) * SnapMultiplier)
  IN Bounded(s + (off * snap) \div Unit)

(* What is sampled for a control: the multiplexer is set to it and settles *)
(* before it is read.                                                      *)
Sample(c) == IF c \in Inverted THEN Top - control[c] ELSE control[c]

SwitchPosition(v) == IF v < 100 THEN 0 ELSE IF v > 3500 THEN 2 ELSE 1

Normalized(c, s) ==
  IF c = "switch" THEN SwitchPosition(s \div Unit) ELSE s \div Unit

ReadInputs ==
  /\ smooth' = [c \in Controls |-> Smoothed(smooth[c], Sample(c))]
  /\ input' = [c \in Controls |-> Normalized(c, smooth'[c])]
  /\ held' = IF held < 3 THEN held + 1 ELSE held
  /\ UNCHANGED control

Move(c, r) ==
  /\ r # control[c]
  /\ control' = [control EXCEPT ![c] = r]
  /\ held' = 0
  /\ UNCHANGED <<smooth, input>>

Init ==
  /\ control = [c \in Controls |-> 0]
  /\ held = 0
  /\ smooth = [c \in Controls |-> 0]
  /\ input = [c \in Controls |-> 0]

Next == ReadInputs \/ \E c \in Controls, r \in Raw : Move(c, r)

Spec == Init /\ [][Next]_thing

-----------------------------------------------------------------------------
(* A knob that is turned right up and left there is read as more than      *)
(* nothing by the third reading.                                           *)
KnobsAreRead ==
  \A c \in {"main", "x", "y"} : held = 3 /\ control[c] = Top => input[c] # 0

=============================================================================
