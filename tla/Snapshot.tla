------------------------------ MODULE Snapshot ------------------------------
(***************************************************************************)
(* The browser takes over what the device is playing: get-state            *)
(* (firmware/serial_protocol.cpp) and useq_apply_state_snapshot            *)
(* (wasm/wasm_wrapper.cpp).                                                *)
(*                                                                         *)
(* Two engines, of which only what a snapshot is about is kept: the text   *)
(* of every output, the program that runs, the slots of stateful operators *)
(* and the live-edit slots.  A text has at most one stateful operator and  *)
(* one live edit; cells are not taken over, and these texts read none.     *)
(***************************************************************************)
EXTENDS Naturals, Sequences, SequencesExt, FiniteSetsExt

CONSTANTS
  LastOutput, \* outputs are 1 .. LastOutput
  Source,     \* what an output may be given
  StateId,    \* the identifier of a text's stateful operator, Unnamed, or NoId
  LiveId,     \* of its live edit, or NoId
  Faulty,     \* texts with a mistake after both
  Value,
  Seed,       \* the value everything begins with
  Unnamed, NoId, NoSource,
  MaxStates,  \* MAX_STATE_SLOTS
  NoReply,
  MaxForms    \* bound: forms and ticks

ASSUME SourceAssumption ==
  /\ LastOutput \in Nat /\ MaxStates \in Nat
  /\ NoSource \notin Source /\ Unnamed # NoId

VARIABLES
  device, browser,  \* the two engines
  reply,            \* the snapshot on its way
  taken,            \* history: the device when it was taken
  before,           \* history: the browser when it was applied
  agreed,           \* the browser has just applied one
  forms

snapshot == <<device, browser, reply, taken, before, agreed, forms>>

Played == 1..LastOutput

(* owner and value: the registry's identifiers and state_values, by slot;  *)
(* live: live_slots, in the order they were made.                          *)
NewEngine ==
  [source |-> [o \in Played |-> NoSource], program |-> [o \in Played |-> NoSource],
   valid |-> [o \in Played |-> FALSE], slot |-> [o \in Played |-> 0],
   owner |-> <<>>, value |-> <<>>, live |-> <<>>]

Named(e, id) == id # Unnamed /\ Contains(e.owner, id)

(* The slot of the identifier, or the next one; without an identifier it   *)
(* is always the next one.                                                 *)
SlotFor(e, id) ==
  IF Named(e, id) THEN SelectInSeq(e.owner, LAMBDA i : i = id) ELSE Len(e.owner) + 1

WithState(e, id) ==
  IF id = NoId \/ Named(e, id) \/ Len(e.owner) = MaxStates THEN e
  ELSE [e EXCEPT !.owner = Append(@, id), !.value = Append(@, Seed)]

WithLive(e, id) ==
  IF id = NoId \/ \E i \in DOMAIN e.live : e.live[i].id = id THEN e
  ELSE [e EXCEPT !.live = Append(@, [id |-> id, value |-> Seed])]

(* (o text): the text is kept and its slots are made, also when it does    *)
(* not compile.                                                            *)
Assigned(e, o, text) ==
  LET id == StateId[text]
      slot == SlotFor(e, id)
      made == [WithLive(WithState(e, id), LiveId[text]) EXCEPT !.source[o] = text]
  IN IF text \in Faulty \/ (id # NoId /\ slot > MaxStates)
     THEN [made EXCEPT !.valid[o] = FALSE]
     ELSE [made EXCEPT !.program[o] = text, !.valid[o] = TRUE,
                       !.slot[o] = IF id = NoId THEN 0 ELSE slot]

Cleared(e) == [NewEngine EXCEPT !.live = e.live]

(* A state or a live edit gets another value: commit_state, and            *)
(* set_live_slot_value.                                                    *)
Moved(e, v) ==
  {[e EXCEPT !.value[k] = v] : k \in DOMAIN e.value}
    \cup {[e EXCEPT !.live[i].value = v] : i \in DOMAIN e.live}

-----------------------------------------------------------------------------
(* handle_get_state: the outputs that run or have a text, the values of    *)
(* the state slots under their numbers, the live edits under their         *)
(* identifiers.                                                            *)
Snapshots(e) ==
  [outputs |-> [o \in {p \in Played : e.program[p] # NoSource \/ e.source[p] # NoSource} |->
                  e.source[o]],
   states |-> e.value,
   live |-> e.live]

(* useq_apply_state_snapshot: the texts are evaluated in the order of the  *)
(* outputs, then the values are put in.                                    *)
Evaluated(e, outputs) ==
  LET upTo[o \in 0..LastOutput] ==
        IF o = 0 THEN e
        ELSE IF o \in DOMAIN outputs /\ outputs[o] # NoSource
             THEN Assigned(upTo[o - 1], o, outputs[o]) ELSE upTo[o - 1]
  IN upTo[LastOutput]

Patched(e, s) ==
  LET given(id) == {i \in DOMAIN s.live : s.live[i].id = id}
  IN [e EXCEPT
        !.value = [k \in DOMAIN e.value |-> IF k \in DOMAIN s.states THEN s.states[k] ELSE @[k]],
        !.live = [i \in DOMAIN e.live |->
                    IF given(@[i].id) = {} THEN @[i]
                    ELSE [@[i] EXCEPT !.value = s.live[Max(given(e.live[i].id))].value]]]

PatchedFirst(e, s) ==   \* mutant: the values are put in before there are slots for them
  Evaluated(Patched(e, s), s.outputs)

Applied(e, s) == Patched(Evaluated(e, s.outputs), s)

-----------------------------------------------------------------------------
SnapshotInit ==
  /\ device = NewEngine /\ browser = NewEngine
  /\ reply = NoReply /\ taken = NewEngine /\ before = NewEngine
  /\ agreed = FALSE /\ forms = 0

Works ==
  /\ forms < MaxForms /\ forms' = forms + 1
  /\ agreed' = FALSE
  /\ UNCHANGED <<reply, taken, before>>

Evaluate ==
  /\ \E o \in Played, t \in Source :
       \/ device' = Assigned(device, o, t) /\ UNCHANGED browser
       \/ browser' = Assigned(browser, o, t) /\ UNCHANGED device
  /\ Works

Clear ==
  /\ \/ device' = Cleared(device) /\ UNCHANGED browser
     \/ browser' = Cleared(browser) /\ UNCHANGED device
  /\ Works

Tick ==
  /\ \E v \in Value \ {Seed} :
       \/ device' \in Moved(device, v) /\ UNCHANGED browser
       \/ browser' \in Moved(browser, v) /\ UNCHANGED device
  /\ Works

GetState ==
  /\ reply = NoReply
  /\ reply' = Snapshots(device)
  /\ taken' = device
  /\ agreed' = FALSE
  /\ UNCHANGED <<device, browser, before, forms>>

Apply ==
  /\ reply # NoReply
  /\ browser' = Applied(browser, reply)
  /\ before' = browser
  /\ reply' = NoReply
  /\ agreed' = TRUE
  /\ UNCHANGED <<device, taken, forms>>

SnapshotNext == Evaluate \/ Clear \/ Tick \/ GetState \/ Apply

SnapshotSpec == SnapshotInit /\ [][SnapshotNext]_snapshot

-----------------------------------------------------------------------------
(* Slots are taken over by their numbers.  The numbers mean the same when  *)
(* the device gave them in the order of its outputs, as an evaluation of   *)
(* its texts does, and the browser has given none, or the same to the same *)
(* identifiers.                                                            *)
SameNumbers ==
  LET anew == Evaluated(NewEngine, Snapshots(taken).outputs)
  IN /\ taken.owner = anew.owner
     /\ \A o \in Played : taken.valid[o] => taken.slot[o] = anew.slot[o]
     /\ IsPrefix(before.owner, taken.owner)
     /\ before.owner # <<>> => ~Contains(taken.owner, Unnamed)

(* Right after a snapshot every output that the device was running without *)
(* a fault runs in the browser, and from where it was on the device: with  *)
(* the same states and the same values of its live edits, whatever the     *)
(* browser was doing and whatever the device has done since.               *)
(* [wasm/wasm_wrapper.cpp:753-848, firmware/serial_protocol.cpp:908-1086]  *)
MirrorAgrees ==
  agreed /\ SameNumbers =>
    \A o \in Played :
      taken.valid[o] =>
        /\ browser.valid[o] /\ browser.program[o] = taken.program[o]
        /\ taken.slot[o] # 0 => browser.value[browser.slot[o]] = taken.value[taken.slot[o]]
        /\ \A i \in DOMAIN taken.live :
             taken.live[i].id = LiveId[taken.program[o]]
               => taken.live[i] \in ToSet(browser.live)

=============================================================================
