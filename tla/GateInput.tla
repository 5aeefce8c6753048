----------------------------- MODULE GateInput -----------------------------
(***************************************************************************)
(* One gate jack of the 1.0 hardware: the pin, the interrupt handler that  *)
(* follows it, and the tick's read_inputs (firmware/hardware_io.cpp).  The *)
(* two gates run the same code on variables of their own.                  *)
(*                                                                         *)
(* The handler preempts the tick between any two of its accesses to the    *)
(* shared variables; the jack changes at any moment, inside the handler    *)
(* too.  A change requests an interrupt; requests do not queue.            *)
(***************************************************************************)
EXTENDS Naturals

VARIABLES
  gate,     \* the level at the jack, 1 is high
  request,  \* an edge interrupt is requested
  isr,      \* where the handler is: "idle", "read" or "store"
  val,      \* its local variable
  state,    \* s_gate1_state
  latched,  \* s_gate1_latched
  pc,       \* where read_inputs is: "load", "test", "reset" or "publish"
  g1,       \* its local variable
  sensed,   \* inputs[INP_I1], what a tick's programs read
  moved,    \* history: the jack has changed since the handler was attached
  captured  \* history: the handler has seen a high level that no tick was given

hardware == <<gate, request>>
handler == <<isr, val, state, captured>>
reader == <<pc, g1, sensed>>
gateVars == <<hardware, handler, reader, latched, moved>>

-----------------------------------------------------------------------------
(* The jack.                                                               *)
Edge ==
  /\ gate' = 1 - gate
  /\ request' = TRUE
  /\ moved' = TRUE
  /\ UNCHANGED <<handler, reader, latched>>

(* The core acknowledges the request before it calls the handler.          *)
EnterIsr ==
  /\ isr = "idle" /\ request
  /\ isr' = "read"
  /\ request' = FALSE
  /\ UNCHANGED <<gate, val, state, captured, reader, latched, moved>>

ReadPin ==
  /\ isr = "read"
  /\ isr' = "store"
  /\ val' = gate
  /\ UNCHANGED <<hardware, state, captured, reader, latched, moved>>

StoreHighOnly ==   \* mutant: the level is stored when it is high only
  /\ isr = "store"
  /\ isr' = "idle"
  /\ state' = IF val = 1 THEN val ELSE state
  /\ latched' = IF val = 1 THEN 1 ELSE latched
  /\ captured' = (captured \/ val = 1)
  /\ UNCHANGED <<hardware, val, reader, moved>>

(* The level, the latch and the LED; nothing preempts the handler here.    *)
StoreLevel ==
  /\ isr = "store"
  /\ isr' = "idle"
  /\ state' = val
  /\ latched' = IF val = 1 THEN 1 ELSE latched
  /\ captured' = (captured \/ val = 1)
  /\ UNCHANGED <<hardware, val, reader, moved>>

-----------------------------------------------------------------------------
(* read_inputs, access by access; the tick runs while the handler does not *)
LoadState ==
  /\ isr = "idle" /\ pc = "load"
  /\ pc' = "test"
  /\ g1' = state
  /\ UNCHANGED <<hardware, handler, sensed, latched, moved>>

TestAlwaysReset ==   \* mutant: the latch is reset whether it was seen set or not
  /\ isr = "idle" /\ pc = "test"
  /\ pc' = "reset"
  /\ g1' = IF latched = 1 THEN 1 ELSE g1
  /\ UNCHANGED <<hardware, handler, sensed, latched, moved>>

TestLatch ==
  /\ isr = "idle" /\ pc = "test"
  /\ IF latched = 1 THEN pc' = "reset" /\ g1' = 1
                    ELSE pc' = "publish" /\ UNCHANGED g1
  /\ UNCHANGED <<hardware, handler, sensed, latched, moved>>

ResetLatch ==
  /\ isr = "idle" /\ pc = "reset"
  /\ pc' = "publish"
  /\ latched' = 0
  /\ UNCHANGED <<hardware, handler, g1, sensed, moved>>

(* What is written here is what the rest of the tick works with.           *)
Publish ==
  /\ isr = "idle" /\ pc = "publish"
  /\ pc' = "load"
  /\ sensed' = g1
  /\ captured' = (captured /\ g1 = 0)
  /\ UNCHANGED <<hardware, isr, val, state, g1, latched, moved>>

-----------------------------------------------------------------------------
(* The jack may be high when the module is switched on.                    *)
GateInit ==
  /\ gate \in {0, 1}
  /\ request = FALSE
  /\ isr = "idle" /\ val = 0
  /\ state = 0 /\ latched = 0
  /\ pc = "load" /\ g1 = 0 /\ sensed = 0
  /\ moved = FALSE /\ captured = FALSE

Isr == EnterIsr \/ ReadPin \/ StoreLevel

ReadInputs == LoadState \/ TestLatch \/ ResetLatch \/ Publish

GateNext == Edge \/ Isr \/ ReadInputs

GateSpec == GateInit /\ [][GateNext]_gateVars

-----------------------------------------------------------------------------
Bit == {0, 1}

GateTypeOK ==
  /\ gate \in Bit /\ val \in Bit /\ state \in Bit
  /\ latched \in Bit /\ g1 \in Bit /\ sensed \in Bit
  /\ request \in BOOLEAN /\ moved \in BOOLEAN
  /\ captured \in BOOLEAN
  /\ isr \in {"idle", "read", "store"}
  /\ pc \in {"load", "test", "reset", "publish"}

(* A pulse the handler saw is not lost, however the handler and the read   *)
(* interleave: until a tick is given it, either the latch holds it or the  *)
(* read in progress is about to publish it.  In particular a pulse that    *)
(* arrives between the test of the latch and its reset is not wiped out.   *)
PulseIsKept ==
  captured => latched = 1 \/ (pc \in {"reset", "publish"} /\ g1 = 1)

(* When no interrupt is requested or running, the stored level is the      *)
(* level at the jack: an edge during the handler requests another run.     *)
StateFollowsGate == moved /\ ~request /\ isr = "idle" => state = gate

=============================================================================
