---------------------------- MODULE I2CIncoming ----------------------------
(***************************************************************************)
(* The ring of incoming I2C messages (firmware/i2c_network.cpp): head and  *)
(* tail walk round a fixed array, and an `occupied' flag in every slot     *)
(* tells a full ring from an empty one.  A popped slot keeps its bytes.    *)
(***************************************************************************)
EXTENDS Naturals, Sequences

CONSTANTS Message,   \* the messages that may arrive
          Oversize,  \* those with no bytes or more than I2C_MAX_MSG_SIZE
          Capacity,  \* CAPACITY
          Nothing    \* pop returned false; a slot never written

VARIABLES data,      \* slots[].data
          occupied,  \* slots[].occupied
          head,      \* where the next message goes
          tail,      \* where the oldest message is
          answer     \* what the last operation returned

vars == <<data, occupied, head, tail, answer>>

Index == 0 .. Capacity - 1

After(i) == (i + 1) % Capacity

-----------------------------------------------------------------------------
PushKeepsTail(m) ==   \* mutant: a full ring does not advance the tail
  /\ m \notin Oversize
  /\ data' = [data EXCEPT ![head] = m]
  /\ occupied' = [occupied EXCEPT ![head] = TRUE]
  /\ head' = After(head)
  /\ answer' = TRUE
  /\ UNCHANGED tail

(* push: a full ring drops its oldest message.                             *)
Push(m) ==
  /\ m \notin Oversize
  /\ tail' = IF occupied[head] THEN After(tail) ELSE tail
  /\ data' = [data EXCEPT ![head] = m]
  /\ occupied' = [occupied EXCEPT ![head] = TRUE]
  /\ head' = After(head)
  /\ answer' = TRUE

Refuse(m) ==
  /\ m \in Oversize
  /\ answer' = FALSE
  /\ UNCHANGED <<data, occupied, head, tail>>

(* pop; its two tests for an empty ring both come down to the flag.        *)
Pop ==
  IF ~occupied[tail]
  THEN answer' = Nothing /\ UNCHANGED <<data, occupied, head, tail>>
  ELSE /\ answer' = data[tail]
       /\ occupied' = [occupied EXCEPT ![tail] = FALSE]
       /\ tail' = After(tail)
       /\ UNCHANGED <<data, head>>

(* any: the flag is consulted only where head and tail meet.               *)
Any ==
  /\ answer' = (head # tail \/ occupied[tail])
  /\ UNCHANGED <<data, occupied, head, tail>>

-----------------------------------------------------------------------------
Init ==
  /\ data = [i \in Index |-> Nothing]
  /\ occupied = [i \in Index |-> FALSE]
  /\ head = 0 /\ tail = 0
  /\ answer = Nothing

Next == (\E m \in Message : Push(m) \/ Refuse(m)) \/ Pop \/ Any

Spec == Init /\ [][Next]_vars

-----------------------------------------------------------------------------
Count == IF head = tail THEN IF occupied[tail] THEN Capacity ELSE 0
                        ELSE (head + Capacity - tail) % Capacity

(* The messages in the ring, oldest first.                                 *)
Contents == [i \in 1 .. Count |-> data[(tail + i - 1) % Capacity]]

(* The ring behaves as the mailbox, through every wrap and overflow, and   *)
(* push, pop and any answer as the mailbox does.                           *)
Box == INSTANCE Mailbox WITH queue <- Contents

IsMailbox == Box!Spec

(* The flags and the two indices say the same thing: the occupied slots    *)
(* are the Count slots from tail on.  push relies on the flag under head,  *)
(* pop on the flag under tail, any on the indices.                         *)
FlagsAgree ==
  \A i \in Index : occupied[i] <=> (i + Capacity - tail) % Capacity < Count

=============================================================================
