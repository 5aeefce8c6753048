----------------------------- MODULE LiveInputs -----------------------------
(***************************************************************************)
(* The knobs of live-edit forms behind both of an editor's transports: the *)
(* firmware, which is sent set-live-inputs (firmware/serial_protocol.cpp), *)
(* and the engine in the browser, which is called useq_set_live_inputs     *)
(* (wasm/wasm_wrapper.cpp).  The editor gives both the same texts and the  *)
(* same slots; the firmware is behind by what is on the wire.              *)
(*                                                                         *)
(* Every knob is numeric: compile_live_edit makes no other.                *)
(***************************************************************************)
EXTENDS Integers, Sequences

CONSTANTS
  Knob,       \* identifiers of live-edit slots
  Bounds,     \* what a text may give one: records [lo, hi, seed]
  Entry,      \* the entries of "slots": records [id, kind, number]
  None,       \* nothing is known of where a knob should be
  MaxEntries, \* bound: how many there are in a message
  MaxSent     \* bound: how many messages and texts are sent

VARIABLES
  wire,     \* what the firmware has still to read
  device,   \* pool.live_slots of the firmware, by identifier
  browser,  \* and of the browser
  applied,  \* what the last message answered: by the firmware, by the browser
  sent,     \* how many
  wish      \* history: where every knob should be, within the bounds of its text

vars == <<wire, device, browser, applied, sent, wish>>

NoSlots == [k \in {} |-> 0]

Clamp(v, slot) == IF v < slot.lo THEN slot.lo ELSE IF v > slot.hi THEN slot.hi ELSE v

-----------------------------------------------------------------------------
(* alloc_live_slot: a slot that is there keeps its value, within the new   *)
(* bounds; a new one starts at the seed, as it is.                         *)
Alloc(slots, k, given) ==
  [x \in DOMAIN slots \cup {k} |->
     IF x # k THEN slots[x]
     ELSE [lo |-> given.lo, hi |-> given.hi, seed |-> given.seed,
           value |-> IF k \in DOMAIN slots THEN Clamp(slots[k].value, given) ELSE given.seed]]

WriteAsIs(slots, k, v) ==   \* mutant: no clamping
  IF k \in DOMAIN slots THEN [slots EXCEPT ![k].value = v] ELSE slots

(* set_live_slot_value.                                                    *)
Write(slots, k, v) ==
  IF k \in DOMAIN slots THEN [slots EXCEPT ![k].value = Clamp(v, slots[k])] ELSE slots

-----------------------------------------------------------------------------
(* The kinds of value: a finite number; one that is not; true and false; a *)
(* string, null, object or list; and a word that is none of these.         *)
Number(e) == CASE e.kind = "number" -> e.number
               [] e.kind = "true" -> 1
               [] e.kind = "false" -> 0

MeansNumber(e) == e.kind \in {"number", "true", "false"}

(* One entry of handle_set_live_inputs.  A value that means no number is   *)
(* passed over; a word ends the walk.                                      *)
Heard(acc, e) ==
  IF ~acc.on \/ e.kind = "word" THEN [acc EXCEPT !.on = FALSE]
  ELSE IF MeansNumber(e) /\ e.id \in DOMAIN acc.slots
  THEN [acc EXCEPT !.slots = Write(@, e.id, Number(e)), !.applied = @ + 1]
  ELSE acc

(* One entry of useq_set_live_inputs: anything but a number ends the walk, *)
(* and every number counts, that of an unknown knob and an infinite one    *)
(* included.                                                               *)
Called(acc, e) ==
  IF ~acc.on \/ e.kind \notin {"number", "huge"} THEN [acc EXCEPT !.on = FALSE]
  ELSE [acc EXCEPT !.slots = IF e.kind = "huge" THEN @ ELSE Write(@, e.id, e.number),
                   !.applied = @ + 1]

Step(who, acc, e) == IF who = "device" THEN Heard(acc, e) ELSE Called(acc, e)

Walk(who, slots, entries) ==
  LET walked[n \in 0 .. Len(entries)] ==
        IF n = 0 THEN [on |-> TRUE, slots |-> slots, applied |-> 0]
        ELSE Step(who, walked[n - 1], entries[n])
  IN walked[Len(entries)]

-----------------------------------------------------------------------------
(* A text with a live-edit form is evaluated.  Where a knob has been put   *)
(* it stays, as near as the new bounds let it; where it has not, its seed  *)
(* says where it is.  Of a seed beyond its bounds nothing is wished: it    *)
(* governs as it is until the knob is turned, or the text is given anew.   *)
Text(k, given) ==
  /\ sent < MaxSent /\ sent' = sent + 1
  /\ wire' = Append(wire, [kind |-> "text", id |-> k, given |-> given])
  /\ browser' = Alloc(browser, k, given)
  /\ wish' = [wish EXCEPT ![k] =
                IF @ # None THEN Clamp(@, given)
                ELSE IF k \in DOMAIN browser \/ given.seed \notin given.lo .. given.hi THEN None
                ELSE given.seed]
  /\ UNCHANGED <<device, applied>>

(* The entries that say where a knob should be: those before the first     *)
(* word, as far as they mean a number.                                     *)
Meant(k, entries) ==
  {n \in 1 .. Len(entries) :
     /\ entries[n].id = k /\ MeansNumber(entries[n])
     /\ \A i \in 1 .. n : entries[i].kind # "word"}

LastOf(S) == CHOOSE n \in S : \A i \in S : i =< n

(* Knobs are turned.                                                       *)
Turn(entries) ==
  LET there == Walk("browser", browser, entries)
  IN /\ sent < MaxSent /\ sent' = sent + 1
     /\ wire' = Append(wire, [kind |-> "slots", entries |-> entries])
     /\ browser' = there.slots
     /\ applied' = [applied EXCEPT !.browser = there.applied]
     /\ wish' = [k \in Knob |->
                   IF k \in DOMAIN browser /\ Meant(k, entries) # {}
                   THEN Clamp(Number(entries[LastOf(Meant(k, entries))]), browser[k])
                   ELSE wish[k]]
     /\ UNCHANGED device

(* The firmware's tick finds the next line.                                *)
Take ==
  /\ wire # <<>> /\ wire' = Tail(wire)
  /\ LET m == Head(wire)
         here == Walk("device", device, m.entries)
     IN IF m.kind = "text"
        THEN device' = Alloc(device, m.id, m.given) /\ UNCHANGED applied
        ELSE device' = here.slots /\ applied' = [applied EXCEPT !.device = here.applied]
  /\ UNCHANGED <<browser, sent, wish>>

-----------------------------------------------------------------------------
Init ==
  /\ wire = <<>> /\ device = NoSlots /\ browser = NoSlots
  /\ applied = [device |-> 0, browser |-> 0]
  /\ sent = 0 /\ wish = [k \in Knob |-> None]

Next ==
  \/ \E k \in Knob, given \in Bounds : Text(k, given)
  \/ \E n \in 1 .. MaxEntries : \E entries \in [1 .. n -> Entry] : Turn(entries)
  \/ Take

Spec == Init /\ [][Next]_vars

-----------------------------------------------------------------------------
(* Once the firmware has caught up, every knob is where the editor last    *)
(* put it, within the bounds its texts have given it since, and where its  *)
(* seed says while it has not been put anywhere: entries that cannot be    *)
(* used cost no other entry, the last of several counts, and a text that   *)
(* is evaluated before or after loses nothing.                             *)
KnobsAreAsSent ==
  wire = <<>> => \A k \in Knob : wish[k] # None => k \in DOMAIN device /\ device[k].value = wish[k]

=============================================================================
