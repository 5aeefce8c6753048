------------------------------ MODULE Mailbox ------------------------------
(***************************************************************************)
(* What the store of incoming I2C messages promises: a queue of at most    *)
(* Capacity messages that gives up its oldest message for a new one.       *)
(***************************************************************************)
EXTENDS Naturals, Sequences

CONSTANTS Message,   \* the messages that may be offered
          Oversize,  \* those that are empty or too long to be kept
          Capacity,
          Nothing    \* the reader was given no message

VARIABLES queue,     \* the messages kept, oldest first
          answer     \* what the last operation returned

(* Make room for one message.                                              *)
Kept == IF Len(queue) = Capacity THEN Tail(queue) ELSE queue

Push(m) == /\ queue' = IF m \in Oversize THEN queue ELSE Append(Kept, m)
           /\ answer' = (m \notin Oversize)

Pop == IF queue = <<>> THEN /\ answer' = Nothing
                            /\ UNCHANGED queue
                       ELSE /\ answer' = Head(queue)
                            /\ queue' = Tail(queue)

Ask == /\ answer' = (queue # <<>>)
       /\ UNCHANGED queue

Init == queue = <<>> /\ answer = Nothing

Next == (\E m \in Message : Push(m)) \/ Pop \/ Ask

Spec == Init /\ [][Next]_<<queue, answer>>

=============================================================================
