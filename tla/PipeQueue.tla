----------------------------- MODULE PipeQueue -----------------------------
(***************************************************************************)
(* What LocklessPipe promises its two users: a first-in first-out queue of *)
(* elements, numbered in the order they are pushed, that holds at most     *)
(* PIPE_SIZE bytes of elements and headers.                                *)
(***************************************************************************)
EXTENDS Integers, Sequences

CONSTANTS
  PIPE_SIZE,      \* bytes of storage
  SIZEOF_LENGTH,  \* bytes of header per element
  Lengths         \* lengths of elements

VARIABLES
  queue,  \* the elements in the pipe, oldest first: records [item, len]
  sent,   \* how many elements have been pushed
  used,   \* bytes of those elements and their headers
  last    \* the element popped last

Init ==
  /\ queue = <<>>
  /\ sent = 0 /\ used = 0
  /\ last = [item |-> 0, len |-> 0]

Push(length) ==
  /\ queue' = Append(queue, [item |-> sent + 1, len |-> length])
  /\ used' = used + SIZEOF_LENGTH + length
  /\ used' <= PIPE_SIZE
  /\ sent' = sent + 1
  /\ UNCHANGED last

Pop ==
  /\ queue # <<>>
  /\ last' = Head(queue)
  /\ queue' = Tail(queue)
  /\ used' = used - (SIZEOF_LENGTH + Head(queue).len)
  /\ UNCHANGED sent

Next == Pop \/ \E length \in Lengths : Push(length)

Spec == Init /\ [][Next]_<<queue, sent, used, last>>
=============================================================================
