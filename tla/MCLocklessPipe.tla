--------------------------- MODULE MCLocklessPipe ---------------------------
(* LocklessPipe on small pipes, and its refinement of PipeQueue. *)
EXTENDS PipeInvariant, Sequences

\* The queue the bytes of buf_ amount to: the header of every unread element.
HeaderFields(cell) == [item |-> cell.item, len |-> cell.len]

Contents ==
  [i \in 1 .. (published - consumed) |->
     HeaderFields(buf[getPointer(log[consumed + i].hdr)])]

\* Bytes from v1 on to v2, less than a lap further.
Distance(v1, v2) == v2.ptr - v1.ptr + (IF v1.lap = v2.lap THEN 0 ELSE PIPE_SIZE)

\* Bytes an element skips because header or data do not fit before the end.
Waste(l) == Distance(l.start, l.end) - (SIZEOF_LENGTH + l.len)

\* The unread element that goes around the end of buf_; there is at most one.
Wrapping == {k \in Pending : log[k].start.lap # log[k].end.lap}

Used ==
  Distance(readVPtr, writeVPtr)
    - (IF Wrapping = {} THEN 0 ELSE Waste(log[CHOOSE k \in Wrapping : TRUE]))

Queue == INSTANCE PipeQueue WITH
  queue <- Contents,
  sent  <- published,
  used  <- Used,
  last  <- HeaderFields(IF rpc = "count" THEN got[0] ELSE popped)

\* Seen from the two threads the pipe is a bounded FIFO queue: push takes
\* effect when finishWrite stores writeVPtr_, pop when read stores readVPtr_.
RefinesQueue == Queue!Spec
=============================================================================
