---------------------------- MODULE MCSurroundings ----------------------------
(***************************************************************************)
(* What is around the engine: the wrapper that shows it in a browser, and  *)
(* the parts of the firmware that face the outside.  None shares a         *)
(* variable with another: a behaviour moves one of them and leaves the     *)
(* rest at a start.                                                        *)
(***************************************************************************)
EXTENDS Projection, GateInput

CONSTANTS m1, m2, huge, Message, Oversize, Capacity, Nothing,  \* I2CIncoming
          k1, k2, Knob, None, Bounds, Entry, MaxEntries, MaxSent     \* LiveInputs

CONSTANTS MaxPhase, MaxCount,                         \* Encoder
          Size, Scale, Samples,                       \* AnalogInput
          Full, Unit, SnapMultiplier, AnalogResolution,  \* MusicThingInputs
          Boards, Top, Values,                        \* Pins
          Address, MaxExpanders, Lengths              \* I2CNetwork

ASSUME SamplesAssumption ==
  Scale \in Nat \ {0} /\ Samples \subseteq 0 .. Scale - 1

ASSUME RingAssumption == Capacity \in Nat \ {0}

ASSUME AddressAssumption ==
  IsFiniteSet(Address) /\ MaxExpanders \in Nat /\ Lengths \subseteq Nat \ {0}

(* compile_live_edit refuses bounds that are not in order.                 *)
ASSUME KnobAssumption ==
  /\ Bounds \subseteq {g \in [lo : Int, hi : Int, seed : Int] : g.lo < g.hi}
  /\ Entry \subseteq [id : Knob, number : Int,
                      kind : {"number", "true", "false", "huge", "other", "word"}]
  /\ MaxEntries \in Nat

(* The firmware is built for one of four variants.                         *)
ASSUME BoardAssumption ==
  Boards \subseteq {"MUSICTHING", "USEQHARDWARE_1_0", "USEQHARDWARE_0_2", "EXPANDER_OUT"}

VARIABLES
  part,
  data, occupied, oldest, newest, popped,
  phase, code, store, count, half,
  buf, idx, tally, median, w, err, ahead,
  control, held, smooth, reading,
  board, stage, role, bit, level, channel, dac, outputs,
  kind, expanders, message, offset, heard, wanted, stayed,
  pending, device, browser, applied, sent, wish

Reads(o) == [op |-> "prev", of |-> o]

Plain(op) == [op |-> op, of |-> 1]

(* Output 1 shows what changes with time, and may be given a text that     *)
(* does not compile while it runs; output 2 listens to it, to an input, or *)
(* to the time that has passed; output 3 is never given anything.          *)
TextsOf == <<{Plain("state")}, {Reads(1), Plain("input"), Plain("dt")}, {}>>

Programs == UNION {TextsOf[o] : o \in Output}

Probes == {Plain("state")}

-----------------------------------------------------------------------------
OutputValues == {-1, 2, Top + 1}

-----------------------------------------------------------------------------
(* Numbers beyond the bounds of the texts and within, a seed beyond, and   *)
(* the other kinds of value.                                               *)
Ranges == {[lo |-> 0, hi |-> 2, seed |-> 3], [lo |-> 1, hi |-> 4, seed |-> 1]}

Entries ==
  {[id |-> k2, kind |-> "number", number |-> 2]}
  \cup {[id |-> k1, kind |-> k, number |-> 5] : k \in {"number", "false", "huge", "other", "word"}}

Ring == INSTANCE I2CIncoming WITH head <- newest, tail <- oldest, answer <- popped
Dial == INSTANCE Encoder
Analog == INSTANCE AnalogInput WITH Raw <- Samples, input <- median
Thing == INSTANCE MusicThingInputs WITH Raw <- {0, Full}, Top <- Full, input <- reading
Panel == INSTANCE Pins
Network == INSTANCE I2CNetwork
Knobs == INSTANCE LiveInputs WITH wire <- pending

-----------------------------------------------------------------------------
ringVars == <<data, occupied, oldest, newest, popped>>
dialVars == <<phase, code, store, count, half>>
analogVars == <<buf, idx, tally, median, w, err, ahead>>
thingVars == <<control, held, smooth, reading>>
panelVars == <<board, stage, role, bit, level, channel, dac, outputs>>
networkVars == <<kind, expanders, message, offset, heard, wanted, stayed>>
knobVars == <<pending, device, browser, applied, sent, wish>>

everything == <<part, vars, ringVars, gateVars, dialVars, analogVars, thingVars, panelVars,
                networkVars, knobVars>>

(* The part p is the one that moves.                                       *)
Only(p) ==
  /\ part = p /\ UNCHANGED part
  /\ IF p = "wrapper" THEN TRUE ELSE UNCHANGED vars
  /\ IF p = "ring" THEN TRUE ELSE UNCHANGED ringVars
  /\ IF p = "gate" THEN TRUE ELSE UNCHANGED gateVars
  /\ IF p = "dial" THEN TRUE ELSE UNCHANGED dialVars
  /\ IF p = "analog" THEN TRUE ELSE UNCHANGED analogVars
  /\ IF p = "thing" THEN TRUE ELSE UNCHANGED thingVars
  /\ IF p = "panel" THEN TRUE ELSE UNCHANGED panelVars
  /\ IF p = "network" THEN TRUE ELSE UNCHANGED networkVars
  /\ IF p = "knobs" THEN TRUE ELSE UNCHANGED knobVars

(* A part that stays where it is has one start.                            *)
AroundInit ==
  /\ part \in {"wrapper", "ring", "gate", "dial", "analog", "thing", "panel", "network",
              "knobs"}
  /\ Init /\ Ring!Init /\ GateInit /\ Dial!Init /\ Analog!Init /\ Thing!Init /\ Panel!Init /\ Network!Init
  /\ Knobs!Init
  /\ part # "gate" => gate = 0
  /\ part # "panel" => board = "MUSICTHING"
  /\ part # "network" => kind = [a \in Address |-> "none"]

AroundNext ==
  \/ Only("wrapper") /\ Next
  \/ Only("ring") /\ Ring!Next
  \/ Only("gate") /\ GateNext
  \/ Only("dial") /\ Dial!Next
  \/ Only("analog") /\ Analog!Next
  \/ Only("thing") /\ Thing!Next
  \/ Only("panel") /\ Panel!Next
  \/ Only("network") /\ Network!Next
  \/ Only("knobs") /\ Knobs!Next

AroundSpec == AroundInit /\ [][AroundNext]_everything

-----------------------------------------------------------------------------
(* The properties of the parts, under the names they have there.           *)
IsMailbox == Ring!IsMailbox
BouncesAreNot == Dial!BouncesAreNot
LightIsAsAsked == Analog!LightIsAsAsked
JacksShowTheOutputs == part = "panel" => Panel!JacksShowTheOutputs
TheRestHears == part = "network" => Network!TheRestHears
KnobsAreAsSent == part = "knobs" => Knobs!KnobsAreAsSent

=============================================================================
