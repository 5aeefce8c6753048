--------------------------- MODULE SerialProtocol ---------------------------
(***************************************************************************)
(* The receiving side of the serial protocol: the ring of received bytes,  *)
(* the extraction of one JSON line per tick, and the answer to it          *)
(* (firmware/serial_protocol.cpp, called from Firmware::tick).             *)
(*                                                                         *)
(* A byte is known by the message it belongs to and its place in it.  The  *)
(* last byte of a message is its newline.  The line itself is USB: it      *)
(* neither loses nor reorders bytes, and delivers any part of what was     *)
(* sent.                                                                   *)
(***************************************************************************)
EXTENDS Naturals, Sequences, SequencesExt

CONSTANTS
  Line,        \* the messages an editor may send
  Kind,        \* Kind[m]: "request", "live" (set-live-inputs) or "junk"
  Id,          \* Id[m]: its requestId, or NoId
  NoId,        \* the field is missing; the empty m_request_id
  Size,        \* Size[m]: its bytes, the newline counted
  RxSize,      \* RX_BUF_SIZE
  MaxMessages  \* bound: how many messages are sent

(* Junk is what has no opening brace, and so no fields.                    *)
ASSUME LineAssumption ==
  /\ Kind \in [Line -> {"request", "live", "junk"}]
  /\ Size \in [Line -> Nat \ {0}]
  /\ \A m \in Line : Kind[m] = "junk" => Id[m] = NoId
  /\ RxSize \in Nat

VARIABLES
  log,        \* history: the messages sent so far
  wire,       \* bytes sent and not yet read from Serial
  rx,         \* m_rx_buf: m_rx_len bytes from m_rx_head on
  ready,      \* m_message_ready
  msg,        \* m_msg_buf: the number of the message in it, 0 for none
  requestId,  \* m_request_id
  replies     \* the answers written: which message, under which identifier

lines == <<log, wire, rx, ready, msg, requestId, replies>>

-----------------------------------------------------------------------------
(* The editor.                                                             *)
BytesOf(n, m) == [k \in 1 .. Size[m] |-> <<n, k>>]

SendLine(m) ==
  /\ Len(log) < MaxMessages
  /\ log' = Append(log, m)
  /\ wire' = wire \o BytesOf(Len(log) + 1, m)
  /\ UNCHANGED <<rx, ready, msg, requestId, replies>>

-----------------------------------------------------------------------------
Opens(b) == b[2] = 1 /\ Kind[log[b[1]]] # "junk"     \* '{'

IsNewline(b) == b[2] = Size[log[b[1]]]

(* How many bytes one drain may move: what is there and what the ring has  *)
(* room for.                                                               *)
RoomKeepsOneFree ==   \* mutant: a ring that is never quite full
  0 .. (IF Len(wire) < RxSize - 1 - Len(rx) THEN Len(wire) ELSE RxSize - 1 - Len(rx))

Room == 0 .. (IF Len(wire) < RxSize - Len(rx) THEN Len(wire) ELSE RxSize - Len(rx))

(* What is before the first opening brace is thrown away.                  *)
Trimmed(bytes) ==
  LET i == SelectInSeq(bytes, Opens)
  IN IF i = 0 THEN <<>> ELSE SubSeq(bytes, i, Len(bytes))

(* drain_serial_into_rx_buf, then try_extract_message.                     *)
Extract(bytes) ==
  LET i == SelectInSeq(bytes, IsNewline)
  IN IF i = 0 THEN /\ rx' = bytes
                   /\ UNCHANGED <<ready, msg>>
              ELSE /\ rx' = SubSeq(bytes, i + 1, Len(bytes))
                   /\ msg' = bytes[1][1]
                   /\ ready' = TRUE

ReceiveAgain ==   \* mutant: a message in the buffer is overwritten
  /\ \E k \in Room :
       /\ Extract(Trimmed(rx \o SubSeq(wire, 1, k)))
       /\ wire' = SubSeq(wire, k + 1, Len(wire))
  /\ UNCHANGED <<log, requestId, replies>>

(* has_incoming, called once in every tick.                                *)
HasIncoming ==
  /\ ~ready
  /\ \E k \in Room :
       /\ Extract(Trimmed(rx \o SubSeq(wire, 1, k)))
       /\ wire' = SubSeq(wire, k + 1, Len(wire))
  /\ UNCHANGED <<log, requestId, replies>>

(* Which identifier a message leaves in m_request_id: extract_string does  *)
(* not touch its destination when the field is missing.                    *)
IdAfter(m) == IF Id[m] = NoId THEN requestId ELSE Id[m]

(* The answer to the n-th message.  Its envelope is written under whatever *)
(* m_request_id holds.                                                     *)
Reply(n) == [to |-> n, id |-> IdAfter(log[n])]

(* read_command: every message is answered under m_request_id, and a       *)
(* set-live-inputs only when that is not empty.                            *)
ReadCommand ==
  /\ ready
  /\ ready' = FALSE
  /\ LET m == log[msg]
     IN /\ requestId' = IdAfter(m)
        /\ replies' = IF Kind[m] = "live" /\ IdAfter(m) = NoId THEN replies
                      ELSE Append(replies, Reply(msg))
  /\ UNCHANGED <<log, wire, rx, msg>>

-----------------------------------------------------------------------------
LinesInit ==
  /\ log = <<>> /\ wire = <<>>
  /\ rx = <<>> /\ ready = FALSE /\ msg = 0
  /\ requestId = NoId
  /\ replies = <<>>

LinesNext == (\E m \in Line : SendLine(m)) \/ HasIncoming \/ ReadCommand

(* Every tick calls has_incoming, and read_command when it returned true.  *)
LinesSpec == LinesInit /\ [][LinesNext]_lines /\ WF_lines(HasIncoming) /\ WF_lines(ReadCommand)

-----------------------------------------------------------------------------
(* The messages that are owed an answer: requests, and live edits that     *)
(* carry an identifier.                                                    *)
Owed(n) == \/ Kind[log[n]] = "request"
           \/ Kind[log[n]] = "live" /\ Id[log[n]] # NoId

(* What the editor relies on: answers come in the order of the messages,   *)
(* no message is answered twice, none that is owed an answer is passed     *)
(* over, junk has none, and an answer to a message with an identifier      *)
(* carries that identifier, however the bytes are cut up, held back and    *)
(* mixed with junk.  Of an answer to a live edit without identifier, which *)
(* should have none, nothing is said.                                      *)
AnswersMatch ==
  \A i \in DOMAIN replies :
    LET n == replies[i].to
        before == IF i = 1 THEN 0 ELSE replies[i - 1].to
    IN /\ n \in DOMAIN log /\ Kind[log[n]] # "junk"
       /\ Id[log[n]] # NoId => replies[i].id = Id[log[n]]
       /\ before < n /\ \A j \in before + 1 .. n - 1 : ~Owed(j)

(* Every request that fits the ring is answered: again and again there is  *)
(* none that waits.                                                        *)
RequestsAreAnswered ==
  []<>(\A n \in DOMAIN log :
         Kind[log[n]] = "request" => \E i \in DOMAIN replies : replies[i].to = n)

=============================================================================
