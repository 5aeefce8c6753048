------------------------------ MODULE Encoder ------------------------------
(***************************************************************************)
(* The rotary encoder of the 0.2 hardware: two contacts that open and      *)
(* close as the knob turns, and read_rotary, which every tick samples them *)
(* and counts (firmware/hardware_io.cpp).                                  *)
(*                                                                         *)
(* The knob is at a multiple of a quarter step, and clicks into a detent   *)
(* at every whole one.  A contact that bounces is a knob that turns back   *)
(* and forth.                                                              *)
(***************************************************************************)
EXTENDS Integers

CONSTANTS
  MaxPhase,  \* bound: how far the knob turns, in quarter steps
  MaxCount   \* bound: how far the count runs

VARIABLES
  phase,   \* where the knob is, in quarter steps
  code,    \* s_rotary_prev_next_code: the last two samples
  store,   \* s_rotary_store, of which only the low byte is looked at
  count,   \* inputs[INP_R1]
  half     \* history: it was seen half way between detents after the last count;
           \* a code of 0 is such a sample, and the code starts as 0

encoder == <<phase, code, store, count, half>>

AtDetent(p) == p % 4 = 0

(* The samples (B, A): both contacts are open at a detent.                 *)
Contacts(p) == CASE p % 4 = 0 -> 3 [] p % 4 = 1 -> 2 [] p % 4 = 2 -> 0 [] p % 4 = 3 -> 1

-----------------------------------------------------------------------------
(* The knob moves by a quarter step.                                       *)
Turn(d) ==
  /\ phase + d \in -MaxPhase .. MaxPhase
  /\ phase' = phase + d
  /\ UNCHANGED <<code, store, count, half>>

-----------------------------------------------------------------------------
(* rot_enc_table: exactly one of the two contacts has changed.             *)
Changed(c) == c \in {1, 2, 4, 7, 8, 11, 13, 14}

Stored(c) == IF Changed(c) THEN (store * 16 + c) % 256 ELSE store

StepAtOnce(c) ==   \* mutant: the transition before the last is not looked at
  IF Changed(c) THEN CASE c = 11 -> -1 [] c = 7 -> 1 [] OTHER -> 0 ELSE 0

(* What the last two transitions say: 0x2b and 0x17.                       *)
Step(c) ==
  IF Changed(c)
  THEN CASE Stored(c) = 43 -> -1 [] Stored(c) = 23 -> 1 [] OTHER -> 0
  ELSE 0

(* read_rotary, and read_inputs with its result.                           *)
ReadRotary ==
  LET c == (code * 4 + Contacts(phase)) % 16
  IN /\ count + Step(c) \in -MaxCount .. MaxCount
     /\ code' = c
     /\ store' = Stored(c)
     /\ count' = count + Step(c)
     /\ half' = IF phase % 4 = 2 THEN TRUE ELSE half /\ Step(c) = 0
     /\ UNCHANGED phase

-----------------------------------------------------------------------------
(* The module is switched on with the knob at a detent.                    *)
Init ==
  /\ phase = 0
  /\ code = 0 /\ store = 0 /\ count = 0
  /\ half = TRUE

Next == Turn(1) \/ Turn(-1) \/ ReadRotary

-----------------------------------------------------------------------------
(* However the contacts bounce and however many samples are missed, the    *)
(* count changes at a detent only, by one, and no second time before the   *)
(* knob has been seen half way to another.                                 *)
BouncesAreNot ==
  [][count' # count => AtDetent(phase) /\ half /\ count' - count \in {-1, 1}]_encoder

=============================================================================
