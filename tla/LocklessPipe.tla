---------------------------- MODULE LocklessPipe ----------------------------
(***************************************************************************)
(* The single-reader, single-writer pipe of lockless_pipe/LocklessPipe.hpp *)
(* as three threads: a writer that calls push (or the non-blocking         *)
(* startWrite it is built from), a reader that calls pop, and a control    *)
(* thread that starts and stops both sides.  Every access to a member that *)
(* another thread changes is a step of its own.                            *)
(*                                                                         *)
(* LocklessPipe::read is declared in the header but its body is not in the *)
(* repository.  Its actions (Read...) are modelled from its callers and    *)
(* from startWrite, whose layout it has to undo.  stopReader assigns to    *)
(* the member function isReaderRunning and so does not compile: no code    *)
(* that does ever clears isReaderRunning_, and there is no such action.    *)
(*                                                                         *)
(* A byte of buf_ is a record saying which element it belongs to, its      *)
(* offset in the element (header first) and the length the header holds.   *)
(***************************************************************************)
EXTENDS PipeGeometry

CONSTANTS
  Lengths,     \* lengths of the data the application pushes
  BlockModes,  \* values of startWrite's block argument in use
  MaxWrites    \* bound: number of elements pushed

ASSUME PipeAssumption ==
  /\ Lengths \subseteq Nat
  /\ BlockModes \subseteq BOOLEAN
  /\ MaxWrites \in Nat

VARIABLES
  readVPtr, writeVPtr, nextWriteVPtr,  \* readVPtr_, writeVPtr_, nextWriteVPtr_
  numRead, numWritten,                 \* numRead_, numWritten_
  numFailedWrites,                     \* numFailedWrites_
  isReaderRunning, isWriterRunning,    \* isReaderRunning_, isWriterRunning_
  buf,                                 \* buf_
  wpc,            \* startWrite, finishWrite: the next step
  wlen, wblock,   \* startWrite: its arguments length and block
  wfull, wret,    \* startWrite: its local full, and how the last call ended
  rpc,            \* pop, wait, read: the next step
  rlen, got,      \* read: the length and the bytes copied out so far
  popped,         \* header of the element the last pop handed out
  log             \* ghost: layout of the published, unread elements

pointers == <<readVPtr, writeVPtr, nextWriteVPtr>>
counters == <<numRead, numWritten, numFailedWrites>>
flags    == <<isReaderRunning, isWriterRunning>>
call     == <<wlen, wblock, wret>>
writer   == <<wpc, call, wfull>>
copy     == <<rlen, got, popped>>
reader   == <<rpc, copy>>
vars     == <<pointers, counters, flags, buf, writer, reader, log>>

-----------------------------------------------------------------------------
Cell(item, off, length) == [item |-> item, off |-> off, len |-> length]

NoBytes == [i \in {} |-> Cell(0, 0, 0)]

\* The elements whose write pointer is stored and whose read pointer is not.
published == IF wpc = "publish" THEN numWritten - 1 ELSE numWritten
consumed  == IF rpc = "count"   THEN numRead + 1    ELSE numRead
Pending   == (consumed + 1) .. published

\* The layout of an element of this length when the pointer is v.
Layout(v, length) ==
  [len   |-> length,
   start |-> v,
   hdr   |-> HeaderAt(v),
   dat   |-> DataAt(v, length),
   end   |-> EndAt(v, length)]

\* Index in buf_ of byte i of an element laid out at l.
ByteAt(l, i) ==
  IF i < SIZEOF_LENGTH
  THEN getPointer(l.hdr) + i
  ELSE getPointer(l.dat) + (i - SIZEOF_LENGTH)

\* The bytes of element k, laid out at l, that i ranges over are in buf_.
Holds(k, l, offsets) ==
  \A i \in offsets : buf[ByteAt(l, i)] = Cell(k, i, l.len)

HeaderBytes      == 0 .. (SIZEOF_LENGTH - 1)
DataBytes(length) == SIZEOF_LENGTH .. (SIZEOF_LENGTH + length - 1)
AllBytes(length) == 0 .. (SIZEOF_LENGTH + length - 1)

-----------------------------------------------------------------------------
clear ==
  /\ readVPtr = getVersionedPointer(0, 0)
  /\ writeVPtr = getVersionedPointer(0, 0)
  /\ nextWriteVPtr = getVersionedPointer(0, 0)
  /\ numRead = 0 /\ numWritten = 0

\* The constructor: clear(), then both sides running.
Init ==
  /\ clear
  /\ numFailedWrites = 0
  /\ isReaderRunning = TRUE /\ isWriterRunning = TRUE
  /\ buf = [p \in 0 .. (PIPE_SIZE - 1) |-> Cell(0, 0, 0)]
  /\ wpc = "idle" /\ wlen = 0 /\ wblock = TRUE /\ wfull = FALSE /\ wret = "none"
  /\ rpc = "idle" /\ rlen = 0 /\ got = NoBytes /\ popped = Cell(0, 0, 0)
  /\ log = [k \in {} |-> Layout(writeVPtr, 0)]

-----------------------------------------------------------------------------
(* The writer: push, startWrite, finishWrite.                              *)

\* push(value) calls startWrite; the size check passes.
Push(length, block) ==
  /\ wpc = "idle"
  /\ numWritten < MaxWrites
  /\ length <= MAX_PIPE_ELEMENT_SIZE
  /\ wpc' = "isFull" /\ wlen' = length /\ wblock' = block
  /\ wfull' = FALSE /\ wret' = "none"
  /\ UNCHANGED <<pointers, counters, flags, buf, reader, log>>

\* The size check fails: startWrite returns NULL and push returns at once.
PushTooLarge(length, block) ==
  /\ wpc = "idle"
  /\ length > MAX_PIPE_ELEMENT_SIZE
  /\ wlen' = length /\ wblock' = block /\ wret' = "too large"
  /\ UNCHANGED <<pointers, counters, flags, buf, wpc, wfull, reader, log>>

\* while ((full = isFull(length)) && ...
WriteIsFull ==
  /\ wpc = "isFull"
  /\ wfull' = isFull(readVPtr, writeVPtr, wlen)
  /\ wpc' = IF wfull' THEN "isRunning" ELSE "check"
  /\ UNCHANGED <<pointers, counters, flags, buf, call, reader, log>>

\* Mutant: only the pipe's state ends the loop, not stopWriter.
WriteIsRunningIgnored ==
  /\ wpc = "isRunning"
  /\ wpc' = IF wblock THEN "isFull" ELSE "check"
  /\ UNCHANGED <<pointers, counters, flags, buf, call, wfull, reader, log>>

\* ... isWriterRunning_ && block) { wakeup(wakeupPolicy_); usleep(...); }
\* wakeup is a NO-OP for NoWakeupPolicy.
WriteIsRunning ==
  /\ wpc = "isRunning"
  /\ wpc' = IF isWriterRunning /\ wblock THEN "isFull" ELSE "check"
  /\ UNCHANGED <<pointers, counters, flags, buf, call, wfull, reader, log>>

\* if (!isWriterRunning_) throw Interrupted();
WriteInterrupted ==
  /\ wpc = "check"
  /\ ~isWriterRunning
  /\ wpc' = "idle" /\ wret' = "Interrupted"
  /\ UNCHANGED <<pointers, counters, flags, buf, wlen, wblock, wfull, reader, log>>

\* if (!block && full) return NULL;
WriteWouldBlock ==
  /\ wpc = "check"
  /\ isWriterRunning
  /\ ~wblock /\ wfull
  /\ wpc' = "idle" /\ wret' = "would block"
  /\ UNCHANGED <<pointers, counters, flags, buf, wlen, wblock, wfull, reader, log>>

\* Mutant: nextWriteVPtr_ is left as it was until the data are written.
WriteReserveNothing ==
  /\ wpc = "check"
  /\ isWriterRunning
  /\ wblock \/ ~wfull
  /\ wpc' = "header"
  /\ UNCHANGED <<pointers, counters, flags, buf, call, wfull, reader, log>>

\* Mutant: what isFull found is not looked at again for a non-blocking write.
WriteReserveUnchecked ==
  /\ wpc = "check"
  /\ isWriterRunning
  /\ nextWriteVPtr' = EndAt(writeVPtr, wlen)
  /\ wpc' = "header"
  /\ UNCHANGED <<readVPtr, writeVPtr, counters, flags, buf, call, wfull, reader, log>>

\* Compute the layout, store nextWriteVPtr_, MF_write_sync().
WriteReserve ==
  /\ wpc = "check"
  /\ isWriterRunning
  /\ wblock \/ ~wfull
  /\ nextWriteVPtr' = EndAt(writeVPtr, wlen)
  /\ wpc' = "header"
  /\ UNCHANGED <<readVPtr, writeVPtr, counters, flags, buf, call, wfull, reader, log>>

\* memcpy(&buf_[lengthPtr], &length, sizeof(length))
WriteHeader ==
  /\ wpc = "header"
  /\ LET h == getPointer(HeaderAt(writeVPtr))
     IN  buf' = [p \in DOMAIN buf |->
                   IF p \in h .. (h + SIZEOF_LENGTH - 1)
                   THEN Cell(numWritten + 1, p - h, wlen) ELSE buf[p]]
  /\ wpc' = "data"
  /\ UNCHANGED <<pointers, counters, flags, call, wfull, reader, log>>

\* push: memcpy(ptr, value.data(), value.length())
WriteData ==
  /\ wpc = "data"
  /\ LET d == getPointer(DataAt(writeVPtr, wlen))
     IN  buf' = [p \in DOMAIN buf |->
                   IF p \in d .. (d + wlen - 1)
                   THEN Cell(numWritten + 1, SIZEOF_LENGTH + (p - d), wlen) ELSE buf[p]]
  /\ wpc' = "count"
  /\ UNCHANGED <<pointers, counters, flags, call, wfull, reader, log>>

\* Mutant: writeVPtr_ moves first and numWritten_ is incremented after it.
WriteCountLate ==
  \/ /\ wpc = "count"
     /\ writeVPtr' = nextWriteVPtr
     /\ wpc' = "late"
     /\ UNCHANGED <<readVPtr, nextWriteVPtr, counters, flags, buf, call, wfull, reader, log>>
  \/ /\ wpc = "late"
     /\ numWritten' = numWritten + 1
     /\ wpc' = "idle"
     /\ UNCHANGED <<pointers, numRead, numFailedWrites, flags, buf, call, wfull, reader, log>>

\* finishWrite: numWritten_++, MF_write_sync()
WriteCount ==
  /\ wpc = "count"
  /\ numWritten' = numWritten + 1
  /\ wpc' = "publish"
  /\ UNCHANGED <<pointers, numRead, numFailedWrites, flags, buf, call, wfull, reader, log>>

\* finishWrite: writeVPtr_ = nextWriteVPtr_
WritePublish ==
  /\ wpc = "publish"
  /\ writeVPtr' = nextWriteVPtr
  /\ log' = [k \in DOMAIN log \cup {numWritten} |->
               IF k = numWritten THEN Layout(writeVPtr, wlen) ELSE log[k]]
  /\ wpc' = "idle" /\ wret' = "ok"
  /\ UNCHANGED <<readVPtr, nextWriteVPtr, counters, flags, buf, wlen, wblock, wfull, reader>>

-----------------------------------------------------------------------------
(* The reader: pop, the polling wait of NoWakeupPolicy, read.              *)

Pop ==
  /\ rpc = "idle"
  /\ rpc' = "isEmpty"
  /\ UNCHANGED <<pointers, counters, flags, buf, writer, copy, log>>

\* wait(NEVER_TIME_OUT): while (isEmpty() && ...
WaitIsEmpty ==
  /\ rpc = "isEmpty"
  /\ rpc' = IF isEmpty(readVPtr, writeVPtr) THEN "isRunning" ELSE "check"
  /\ UNCHANGED <<pointers, counters, flags, buf, writer, copy, log>>

\* ... isReaderRunning_) usleep(SLEEP_ON_BLOCK_USECS);
WaitIsRunning ==
  /\ rpc = "isRunning"
  /\ rpc' = IF isReaderRunning THEN "isEmpty" ELSE "check"
  /\ UNCHANGED <<pointers, counters, flags, buf, writer, copy, log>>

\* MF_read_sync(), then the length from the header.
ReadHeader ==
  /\ rpc = "check"
  /\ isReaderRunning
  /\ ~isEmpty(readVPtr, writeVPtr)
  /\ LET h == getPointer(HeaderAt(readVPtr))
     IN  /\ rlen' = buf[h].len
         /\ got' = [i \in HeaderBytes |-> buf[h + i]]
  /\ rpc' = "data"
  /\ UNCHANGED <<pointers, counters, flags, buf, writer, popped, log>>

\* memcpy of the data into the caller's buffer.
ReadData ==
  /\ rpc = "data"
  /\ LET l == Layout(readVPtr, rlen)
     IN  got' = [i \in AllBytes(rlen) |->
                   IF i \in HeaderBytes THEN got[i] ELSE buf[ByteAt(l, i)]]
  /\ rpc' = "release"
  /\ UNCHANGED <<pointers, counters, flags, buf, writer, rlen, popped, log>>

\* readVPtr_ moves behind the element: the writer may reuse its bytes.
ReadRelease ==
  /\ rpc = "release"
  /\ readVPtr' = EndAt(readVPtr, rlen)
  /\ log' = [k \in DOMAIN log \ {numRead + 1} |-> log[k]]
  /\ rpc' = "count"
  /\ UNCHANGED <<writeVPtr, nextWriteVPtr, counters, flags, buf, writer, copy>>

\* numRead_++, and pop returns: InternalReadError for length 0, else a value.
ReadCount ==
  /\ rpc = "count"
  /\ numRead' = numRead + 1
  /\ popped' = got[0]
  /\ got' = NoBytes
  /\ rpc' = "idle"
  /\ UNCHANGED <<pointers, numWritten, numFailedWrites, flags, buf, writer, rlen, log>>

-----------------------------------------------------------------------------
(* The control thread.                                                     *)

StopWriter ==
  /\ isWriterRunning' = FALSE
  /\ UNCHANGED <<pointers, counters, isReaderRunning, buf, writer, reader, log>>

StartWriter ==
  /\ isWriterRunning' = TRUE
  /\ UNCHANGED <<pointers, counters, isReaderRunning, buf, writer, reader, log>>

\* Without effect, as nothing stops the reader.
StartReader ==
  /\ isReaderRunning' = TRUE
  /\ UNCHANGED <<pointers, counters, isWriterRunning, buf, writer, reader, log>>

-----------------------------------------------------------------------------
WriterStep ==
  \/ WriteIsFull \/ WriteIsRunning
  \/ WriteInterrupted \/ WriteWouldBlock \/ WriteReserve
  \/ WriteHeader \/ WriteData \/ WriteCount \/ WritePublish

ReaderStep ==
  \/ Pop \/ WaitIsEmpty \/ WaitIsRunning
  \/ ReadHeader \/ ReadData \/ ReadRelease \/ ReadCount

WriterCall ==
  \E length \in Lengths, block \in BlockModes :
    Push(length, block) \/ PushTooLarge(length, block)

ControlStep ==
  \/ StopWriter \/ StartReader
  \/ (wpc = "idle" /\ StartWriter)

\* The writer is only started again when no push is in progress.
Next == WriterCall \/ WriterStep \/ ReaderStep \/ ControlStep

\* The writer may be started again at any time.
RestartNext == Next \/ StartWriter

Spec        == Init /\ [][Next]_vars
RestartSpec == Init /\ [][RestartNext]_vars

-----------------------------------------------------------------------------
(* Correctness.                                                            *)

Position == [lap : Nat, ptr : 0 .. PIPE_SIZE]
CellType == [item : Nat, off : Nat, len : Nat]

\* Type invariant.  It says that every pointer stays inside buf_ or one past
\* its end, which startWrite's two isWrap tests are there for.
TypeOK ==
  /\ readVPtr \in Position
  /\ writeVPtr \in Position
  /\ nextWriteVPtr \in Position
  /\ numRead \in Nat /\ numWritten \in Nat /\ numFailedWrites \in Nat
  /\ isReaderRunning \in BOOLEAN /\ isWriterRunning \in BOOLEAN
  /\ buf \in [0 .. (PIPE_SIZE - 1) -> CellType]
  /\ wpc \in {"idle", "isFull", "isRunning", "check", "header", "data", "count", "publish"}
  /\ wlen \in Nat /\ wblock \in BOOLEAN /\ wfull \in BOOLEAN
  /\ wret \in {"none", "ok", "too large", "would block", "Interrupted"}
  /\ rpc \in {"idle", "isEmpty", "isRunning", "check", "data", "release", "count"}
  /\ rlen \in Nat
  /\ popped \in CellType

\* Every byte of every element that finishWrite has published and read has
\* not released is in buf_ unchanged, whatever push has done since: isFull
\* and the layout of startWrite never let a write touch unread data.
UnreadIntact == \A k \in Pending : Holds(k, log[k], AllBytes(log[k].len))

\* What read has copied when it moves readVPtr_ is one whole element, header
\* and data, and it is the oldest one not yet read: nothing is lost,
\* duplicated, reordered, torn or mixed with a push that runs meanwhile.
PopIntact ==
  rpc \in {"release", "count"} =>
    got = [i \in AllBytes(rlen) |-> Cell(numRead + 1, i, rlen)]

\* isFull answers no exactly when the element can be laid out without
\* leaving the buffer, without touching an unread byte and without making a
\* pipe that holds data look empty; for every length startWrite lets through.
IsFullExact ==
  \A length \in 0 .. MAX_PIPE_ELEMENT_SIZE :
    isFull(readVPtr, writeVPtr, length) <=> ~Fits(readVPtr, writeVPtr, length)

\* The comment in startWrite: nextWriteVPtr_ is stored before the data, for a
\* thread that peeks.  No byte outside writeVPtr_ .. nextWriteVPtr_ changes.
WritesAnnounced ==
  [][\A p \in DOMAIN buf :
       buf'[p] # buf[p] => p \in Between(writeVPtr, nextWriteVPtr)]_vars

\* push: "blocking if there is not enough room".  From the moment startWrite
\* reserves the element to the moment finishWrite publishes it there is room.
WritesOnlyIfRoom ==
  wpc \in {"header", "data", "count", "publish"} => ~isFull(readVPtr, writeVPtr, wlen)
=============================================================================
