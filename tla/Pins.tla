-------------------------------- MODULE Pins --------------------------------
(***************************************************************************)
(* Who drives which pin, on each hardware variant: HardwareIO::init, the   *)
(* lights of the boot, the interrupt handlers and write_outputs            *)
(* (firmware/hardware_io.cpp).                                             *)
(*                                                                         *)
(* A pin shows what the peripheral it is assigned to holds for it: its own *)
(* bit, the level of a state machine (PIO), or a channel of the PWM, which *)
(* it shares with the pin 16 away.                                         *)
(***************************************************************************)
EXTENDS Integers, Sequences

CONSTANTS
  Boards,  \* the variants
  Top,     \* MAX_PWM_I, 2047
  Values   \* what outputs may be, in steps of 1/Top

VARIABLES
  board,   \* the variant the firmware was built for
  stage,   \* how far Firmware::init is: "reset", "inputs", "lights", "bus", "run"
  role,    \* what each pin is assigned to
  bit,     \* what digitalWrite left for each pin
  level,   \* what the state machine of each pin counts to
  channel, \* what analogWrite left in each channel of the PWM
  dac,     \* the converter on the SPI bus, by output
  outputs  \* outputs, by jack; empty before the first tick

pins == <<board, stage, role, bit, level, channel, dac, outputs>>

-----------------------------------------------------------------------------
(* The pin maps.  The first AnalogJacks jacks are continuous; -1 is a jack *)
(* of the converter.                                                       *)
Lights ==
  [MUSICTHING |-> <<10, 11, 12, 13, 14, 15>>,
   USEQHARDWARE_1_0 |-> <<3, 2, 11, 12, 13, 22>>,
   USEQHARDWARE_0_2 |-> <<3, 2, 28, 27, 26, 22>>,
   EXPANDER_OUT |-> <<15, 20, 17, 12, 9, 6, 2, 0>>]

Jacks ==
  [MUSICTHING |-> <<-1, -1, 23, 22, 8, 9>>,
   USEQHARDWARE_1_0 |-> <<21, 20, 19, 18, 17, 16>>,
   USEQHARDWARE_0_2 |-> <<21, 20, 19, 18, 17, 16>>,
   EXPANDER_OUT |-> <<13, 14, 10, 11, 8, 7, 5, 3>>]

AnalogJacks ==
  [MUSICTHING |-> 4, USEQHARDWARE_1_0 |-> 3, USEQHARDWARE_0_2 |-> 2, EXPANDER_OUT |-> 8]

(* The pins that something outside the module drives.                      *)
InputPins ==
  [MUSICTHING |-> {2, 3, 26, 27, 28, 29},
   USEQHARDWARE_1_0 |-> {8, 9, 10, 14, 23, 26, 27},
   USEQHARDWARE_0_2 |-> {7, 8, 9, 10, 11, 12, 13, 14, 15},
   EXPANDER_OUT |-> {}]

(* The lights of the inputs: those of the gates, which their interrupt     *)
(* handlers switch, AI1, which the timer switches, and AI2.                *)
GateLights == {5, 4}
AI1Light == 25
AI2Light == 24

(* The converter's select pin and the address of the multiplexer.          *)
Addresses == {21, 24, 25}

Builtin == 25   \* LED_BUILTIN

BusPins == {0, 1}   \* USEQ_I2C_SDA_PIN, USEQ_I2C_SCL_PIN

Pin == 0 .. 29

Indices == DOMAIN Jacks[board]

Machined == board \in {"USEQHARDWARE_1_0", "USEQHARDWARE_0_2"}

Inverted == board = "MUSICTHING"

(* The channel of the PWM that a pin is wired to: its slice and side.      *)
ChannelOf(p) == <<(p \div 2) % 8, p % 2>>

(* The lights that state machines drive.                                   *)
OnMachine == {i \in Indices : Machined /\ i <= AnalogJacks[board]}

At(map, I) == {map[board][i] : i \in I} \ {-1}

-----------------------------------------------------------------------------
(* What the calls of the Arduino core do, for a function from the pins     *)
(* they are called for: the other pins keep what they have.                *)
PinMode(P, new) == [p \in Pin |-> IF p \in P THEN new ELSE role[p]]

Over(old, w) == [p \in Pin |-> IF p \in DOMAIN w THEN w[p] ELSE old[p]]

Alone(p, v) == [q \in {p} |-> v]

DigitalWrite(w) == bit' = Over(bit, w)

(* analogWrite takes the pin for the PWM and sets its channel.             *)
AnalogWrite(w) ==
  /\ role' = PinMode(DOMAIN w, "pwm")
  /\ channel' = [c \in DOMAIN channel |->
       IF \E p \in DOMAIN w : ChannelOf(p) = c
       THEN w[CHOOSE p \in DOMAIN w : ChannelOf(p) = c] ELSE channel[c]]

(* set_output_led, for the lights in I.                                    *)
SetOutputLeds(I, v) ==
  /\ level' = Over(level, [p \in At(Lights, I \cap OnMachine) |-> v])
  /\ AnalogWrite([p \in At(Lights, I \ OnMachine) |-> v])

-----------------------------------------------------------------------------
(* init up to the interrupts: jacks, state machines, inputs.               *)
InitJacksAndInputs ==
  /\ stage = "reset"
  /\ stage' = "inputs"
  /\ role' = [p \in Pin |->
       IF p \in InputPins[board] THEN "in"
       ELSE IF p \in At(Lights, OnMachine) THEN "machine"
       ELSE IF p \in At(Jacks, Indices) \/ (Inverted /\ p \in Addresses) THEN "bit"
       ELSE role[p]]
  /\ dac' = [i \in {1, 2} |-> 0]
  /\ UNCHANGED <<board, bit, level, channel, outputs>>

ConfigureAll == Indices   \* mutant: pinMode on every light

Configured == Indices \ OnMachine

(* The rest of init: the lights that no state machine drives, and those of *)
(* the inputs.                                                             *)
InitLights ==
  /\ stage = "inputs"
  /\ stage' = "lights"
  /\ role' = PinMode(At(Lights, Configured)
                     \cup (IF board = "USEQHARDWARE_1_0"
                           THEN GateLights \cup {AI1Light, AI2Light} ELSE {}), "bit")
  /\ UNCHANGED <<board, bit, level, channel, dac, outputs>>

(* One frame of boot_led_animation.                                        *)
Frame ==
  /\ stage = "lights"
  /\ \E i \in Indices, v \in {0, Top} : SetOutputLeds({i}, v)
  /\ UNCHANGED <<board, stage, bit, dac, outputs>>

(* The end of the animation, and I2CNetwork::init.                         *)
InitBus ==
  /\ stage = "lights"
  /\ stage' = "bus"
  /\ role' = [PinMode(BusPins, "bus") EXCEPT ![Builtin] = "bit"]
  /\ DigitalWrite(Alone(Builtin, 1))
  /\ UNCHANGED <<board, level, channel, dac, outputs>>

(* boot_led_error_flash, when the saved state does not load; it ends with  *)
(* the lights out, as boot_led_green does.                                 *)
ErrorFlash ==
  /\ stage = "bus"
  /\ SetOutputLeds(Indices, Top)
  /\ DigitalWrite(Alone(Builtin, 1))
  /\ UNCHANGED <<board, stage, dac, outputs>>

BootLedGreen ==
  /\ stage = "bus"
  /\ stage' = "run"
  /\ SetOutputLeds(Indices, 0)
  /\ DigitalWrite(Alone(Builtin, 0))
  /\ UNCHANGED <<board, dac, outputs>>

-----------------------------------------------------------------------------
(* The interrupt handlers of the 1.0 hardware switch their lights at any   *)
(* moment after they are attached.                                         *)
Handler ==
  /\ board = "USEQHARDWARE_1_0" /\ stage # "reset"
  /\ \E p \in GateLights \cup (IF stage = "inputs" THEN {} ELSE {AI1Light}), v \in {0, 1} :
       DigitalWrite(Alone(p, v))
  /\ UNCHANGED <<board, stage, role, level, channel, dac, outputs>>

(* read_inputs, the light of AI2.                                          *)
ShowAI2 ==
  /\ board = "USEQHARDWARE_1_0" /\ stage = "run"
  /\ \E v \in {0, Top} : AnalogWrite(Alone(AI2Light, v))
  /\ UNCHANGED <<board, stage, bit, level, dac, outputs>>

Clamped(v) == IF v < 0 THEN 0 ELSE IF v > Top THEN Top ELSE v

Curve(v) == (Clamped(v) * Clamped(v)) \div (Top + 1)

Physical(v) == IF Inverted THEN Top - Clamped(v) ELSE Clamped(v)

Binary(v) == IF (v > 0) = Inverted THEN 0 ELSE 1

IsAnalog(i) == i <= AnalogJacks[board]

(* The outputs of a tick: one jack may differ from the others.             *)
TickOutputs == {[i \in Indices |-> IF i = j THEN u ELSE v] :
                  j \in Indices, u \in Values, v \in Values}

IndexOf(map, p) == CHOOSE i \in Indices : map[board][i] = p

(* write_outputs.                                                          *)
WriteOutputs ==
  /\ stage = "run"
  /\ outputs' \in TickOutputs
  /\ LET of(map, p) == outputs'[IndexOf(map, p)]
         continuous == {i \in Indices : IsAnalog(i)}
         brightness(p) == IF IsAnalog(IndexOf(Lights, p)) THEN Curve(of(Lights, p))
                                                          ELSE Clamped(of(Lights, p))
     IN /\ level' = Over(level, [p \in At(Lights, OnMachine) |-> Curve(of(Lights, p))])
        /\ AnalogWrite([p \in At(Lights, Indices \ OnMachine) \cup At(Jacks, continuous) |->
             IF p \in At(Jacks, continuous) THEN Physical(of(Jacks, p)) ELSE brightness(p)])
        /\ DigitalWrite([p \in At(Jacks, Indices \ continuous) |-> Binary(of(Jacks, p))])
  /\ dac' = [i \in {1, 2} |-> Physical(outputs'[i])]
  /\ UNCHANGED <<board, stage>>

-----------------------------------------------------------------------------
Init ==
  /\ board \in Boards
  /\ stage = "reset"
  /\ role = [p \in Pin |-> "none"]
  /\ bit = [p \in Pin |-> 0]
  /\ level = [p \in Pin |-> 0]
  /\ channel = [c \in (0 .. 7) \X {0, 1} |-> 0]
  /\ dac = [i \in {1, 2} |-> 0]
  /\ outputs = <<>>

Next ==
  \/ InitJacksAndInputs \/ InitLights \/ Frame \/ InitBus \/ ErrorFlash
  \/ BootLedGreen \/ Handler \/ ShowAI2 \/ WriteOutputs

-----------------------------------------------------------------------------
(* What a pin shows, of Top.                                               *)
Shown(p) == CASE role[p] = "bit" -> Top * bit[p]
              [] role[p] = "machine" -> level[p]
              [] role[p] = "pwm" -> channel[ChannelOf(p)]
              [] OTHER -> -1

(* After every tick each jack and each light of an output shows what the   *)
(* tick computed, on every variant: no other light, handler or jack drives *)
(* its pin, takes it from its peripheral or shares its channel of the PWM. *)
JacksShowTheOutputs ==
  \A i \in DOMAIN outputs :
    LET jack == Jacks[board][i]
    IN /\ IF jack = -1 THEN dac[i] = Physical(outputs[i])
          ELSE Shown(jack) = IF IsAnalog(i) THEN Physical(outputs[i])
                                            ELSE Top * Binary(outputs[i])
       /\ Shown(Lights[board][i]) = IF IsAnalog(i) THEN Curve(outputs[i])
                                                   ELSE Clamped(outputs[i])

=============================================================================
