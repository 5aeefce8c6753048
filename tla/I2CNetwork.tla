----------------------------- MODULE I2CNetwork -----------------------------
(***************************************************************************)
(* The host's end of the bus between modules (firmware/i2c_network.cpp):   *)
(* the scan for expanders at start-up and the messages sent to them in     *)
(* packets.  A module may be plugged in or pulled out at any moment,       *)
(* between two packets too; the bus then answers with an error.            *)
(***************************************************************************)
EXTENDS Naturals, Sequences, SequencesExt, FiniteSets

CONSTANTS
  Address,       \* the addresses of the bus, in the order of the scan
  MaxExpanders,  \* MAX_EXPANDERS
  Lengths        \* the messages' lengths, in packets of 250 bytes

VARIABLES
  kind,       \* what answers at each address: "none", "expander" or "other"
  expanders,  \* expander_addrs up to expander_count
  message,    \* the message being sent: its length and who is still to get it
  offset,     \* how many of its packets the first of them has been sent
  heard,      \* what each address has received of it
  wanted,     \* history: whom the message is for
  stayed      \* history: the expanders that have answered all along

network == <<kind, expanders, message, offset, heard, wanted, stayed>>

Idle == message.to = <<>>

-----------------------------------------------------------------------------
(* scan_for_expanders, from the lowest address up: it stops when the table *)
(* is full, and passes by what does not answer or is no expander.          *)
Found == {a \in Address : kind[a] = "expander"}

Listed(n) ==
  [i \in 1 .. n |-> CHOOSE a \in Found : Cardinality({b \in Found : b < a}) = i - 1]

ScanForExpanders ==
  /\ Idle /\ expanders = <<>>
  /\ expanders' =
       Listed(IF Cardinality(Found) < MaxExpanders THEN Cardinality(Found) ELSE MaxExpanders)
  /\ UNCHANGED <<kind, message, offset, heard, wanted, stayed>>

Begin(to, length) ==
  /\ Idle
  /\ message' = [to |-> to, length |-> length]
  /\ offset' = 0
  /\ heard' = [a \in Address |-> 0]
  /\ wanted' = ToSet(to)
  /\ stayed' = {a \in Address : kind[a] # "none"}
  /\ UNCHANGED <<kind, expanders>>

(* send_eval_to; sync_all and the broadcasts.                              *)
SendEvalTo(i, length) == i \in DOMAIN expanders /\ Begin(<<expanders[i]>>, length)

Broadcast(length) == Begin(expanders, length)

-----------------------------------------------------------------------------
StopAtError ==   \* mutant: the first error ends the broadcast
  /\ message' = [message EXCEPT !.to = <<>>]
  /\ UNCHANGED <<offset, heard>>

NextOne ==
  /\ message' = [message EXCEPT !.to = Tail(message.to)]
  /\ offset' = 0

(* An error ends the message for this expander only.                       *)
GivesUp == NextOne /\ UNCHANGED heard

(* send_to, packet by packet.                                              *)
Packet ==
  /\ ~Idle
  /\ LET a == Head(message.to)
     IN IF kind[a] = "none" THEN GivesUp
        ELSE /\ heard' = [heard EXCEPT ![a] = offset + 1]
             /\ IF offset + 1 = message.length THEN NextOne
                ELSE offset' = offset + 1 /\ UNCHANGED message
  /\ UNCHANGED <<kind, expanders, wanted, stayed>>

(* Somebody plugs a module in or pulls it out.                             *)
Plug(a, k) ==
  /\ kind[a] # k /\ "none" \in {kind[a], k}
  /\ kind' = [kind EXCEPT ![a] = k]
  /\ stayed' = stayed \ {a}
  /\ UNCHANGED <<expanders, message, offset, heard, wanted>>

-----------------------------------------------------------------------------
Init ==
  /\ kind \in [Address -> {"none", "expander", "other"}]
  /\ expanders = <<>>
  /\ message = [to |-> <<>>, length |-> 1]
  /\ offset = 0
  /\ heard = [a \in Address |-> 0]
  /\ wanted = {} /\ stayed = {}

Next ==
  \/ ScanForExpanders \/ Packet
  \/ \E length \in Lengths :
       Broadcast(length) \/ \E i \in 1 .. MaxExpanders : SendEvalTo(i, length)
  \/ \E a \in Address, k \in {"none", "expander", "other"} : Plug(a, k)

-----------------------------------------------------------------------------
(* An expander that keeps answering gets every message it is sent whole,   *)
(* whatever happens to the others meanwhile: one that is pulled out costs  *)
(* the rest nothing.                                                       *)
TheRestHears ==
  \A a \in (wanted \cap stayed) \ ToSet(message.to) : heard[a] = message.length

=============================================================================
