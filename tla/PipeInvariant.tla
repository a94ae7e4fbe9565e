--------------------------- MODULE PipeInvariant ---------------------------
(***************************************************************************)
(* Why LocklessPipe is correct: the inductive invariant behind TypeOK,     *)
(* UnreadIntact, PopIntact and WritesOnlyIfRoom.  TLC checks it on small   *)
(* pipes (MCLocklessPipe), PipeProofs proves it for all of them.           *)
(***************************************************************************)
EXTENDS LocklessPipe

\* Position v1 is not after v2, counting laps.
Before(v1, v2) ==
  \/ v1.lap < v2.lap
  \/ v1.lap = v2.lap /\ v1.ptr <= v2.ptr

\* A write pointer w is ahead of the read pointer r by less than one lap.
InWindow(r, w) ==
  \/ w.lap = r.lap /\ r.ptr <= w.ptr
  \/ w.lap = r.lap + 1 /\ w.ptr < r.ptr

\* The ghost log has one laid out element per published, unread element.
LogShape ==
  /\ consumed \in Nat /\ published \in Nat /\ consumed <= published
  /\ DOMAIN log = Pending
  /\ \A k \in Pending :
       /\ log[k].start \in Position
       /\ log[k].len \in 0 .. MAX_PIPE_ELEMENT_SIZE
       /\ log[k] = Layout(log[k].start, log[k].len)

\* The elements lie end to end from readVPtr_ to writeVPtr_.
Chain ==
  /\ consumed = published => readVPtr = writeVPtr
  /\ consumed < published => /\ log[consumed + 1].start = readVPtr
                             /\ log[published].end = writeVPtr
  /\ \A k \in Pending : k + 1 \in Pending => log[k + 1].start = log[k].end

\* They lie in the order they were pushed, inside the window.
Order ==
  /\ \A k \in Pending : Before(readVPtr, log[k].start) /\ Before(log[k].end, writeVPtr)
  /\ \A j, k \in Pending : j < k => Before(log[j].end, log[k].start)

\* What is between the two pointers.
ContentsOK ==
  /\ InWindow(readVPtr, writeVPtr)
  /\ LogShape
  /\ Chain
  /\ Order
  /\ UnreadIntact

\* A push that has seen room still has it, has announced where it ends, and
\* has written what its step says.
WriterOK ==
  /\ wpc # "idle" => wlen \in 0 .. MAX_PIPE_ELEMENT_SIZE
  /\ wpc = "isRunning" => wfull
  /\ (wpc = "check" /\ ~wfull) => ~isFull(readVPtr, writeVPtr, wlen)
  /\ (wpc = "check" /\ wfull /\ wblock) => ~isWriterRunning
  /\ WritesOnlyIfRoom
  /\ wpc \in {"header", "data", "count", "publish"} =>
       nextWriteVPtr = EndAt(writeVPtr, wlen)
  /\ wpc \in {"data", "count", "publish"} =>
       Holds(published + 1, Layout(writeVPtr, wlen), HeaderBytes)
  /\ wpc \in {"count", "publish"} =>
       Holds(published + 1, Layout(writeVPtr, wlen), DataBytes(wlen))

\* A pop that has copied something works on the oldest unread element.
ReaderOK ==
  /\ rpc \in {"data", "release"} => consumed < published /\ rlen = log[consumed + 1].len
  /\ rpc = "data" => got = [i \in HeaderBytes |-> Cell(numRead + 1, i, rlen)]
  /\ PopIntact

\* The inductive invariant: the elements between readVPtr_ and writeVPtr_
\* form a chain in push order whose bytes are intact, and the element a push
\* is writing lies outside it.
PipeInv ==
  /\ TypeOK
  /\ ContentsOK
  /\ WriterOK
  /\ ReaderOK
=============================================================================
