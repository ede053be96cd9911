---------------------------- MODULE BoundedFIFO ----------------------------
(***************************************************************************)
(* What the in-memory buffer promises its callers: a bounded first-in      *)
(* first-out queue.  A producer appends one message when there is room; a  *)
(* consumer that asks for n messages gets the n oldest ones, or everything *)
(* when fewer are there, in one atomic step.  Nothing is lost, duplicated  *)
(* or reordered between the two.  internal/buffer documents this as        *)
(* "a bounded FIFO of postgres.Message ready for the flusher".             *)
(***************************************************************************)
EXTENDS Naturals, Sequences

CONSTANTS Messages,   \* what can be queued
          Consumers,  \* the threads that take
          Capacity    \* how many messages fit

VARIABLES queue,      \* the messages held, oldest first
          out         \* what each consumer's latest Take returned

fifoVars == <<queue, out>>

Init == /\ queue = << >>
        /\ out = [c \in Consumers |-> << >>]

Put(m) == /\ Len(queue) < Capacity
          /\ queue' = Append(queue, m)
          /\ UNCHANGED out

Take(c, n) ==
  LET k == IF n > Len(queue) THEN Len(queue) ELSE n
  IN  /\ out' = [out EXCEPT ![c] = SubSeq(queue, 1, k)]
      /\ queue' = SubSeq(queue, k + 1, Len(queue))

Next == \/ \E m \in Messages : Put(m)
        \/ \E c \in Consumers, n \in 0..Capacity : Take(c, n)

Spec == Init /\ [][Next]_fifoVars
============================================================================
