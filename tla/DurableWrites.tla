--------------------------- MODULE DurableWrites ---------------------------
(***************************************************************************)
(* The stand-alone writers of async_to_sync_writes: test1.c,               *)
(* test1_close_then_fsync_dir.c, test1_close_then_rename.c,                *)
(* aio_suspend_test.cc and aio_listio_test.cc, with the page cache they    *)
(* write into and a crash of the machine at any moment.                    *)
(*                                                                         *)
(* The kernel writes blocks and the directory entry back whenever it likes *)
(* (WriteBack), a crash loses what is not on disk.  The path is fixed,     *)
(* nothing removes the file and no open has O_TRUNC: it may be there, with *)
(* some length, from an earlier run.  Which random buffer a block is       *)
(* filled from is left out.                                                *)
(***************************************************************************)
EXTENDS Integers, FiniteSets

CONSTANTS
  Programs,    \* the programs that are run
  Iterations,  \* iterations: blocks in the file
  ListSize,    \* blocks of one lio_listio call, 18 in the code
  OldLengths   \* blocks an earlier run may have left in the file

ASSUME DurableAssumption ==
  /\ Programs \subseteq {"fsync", "fsync_dir", "rename", "suspend", "listio"}
  /\ Iterations \in Nat
  /\ ListSize \in Nat \ {0}
  /\ OldLengths \subseteq Nat

VARIABLES
  program,
  pc,
  fd,            \* "none", "bad" (-1) or "file"
  i,             \* blocks the loop has gone through
  suspended,     \* aio_suspend_test: control blocks waited for
  old,           \* ghost: blocks in the file when the program starts
  offset,        \* file offset of fd, in blocks; not used with O_APPEND
  length,        \* blocks in the file, until a crash
  accepted,      \* ghost: blocks the kernel has taken
  inflight,      \* blocks of asynchronous writes that are not complete
  cached, disk,  \* blocks in the page cache; blocks on disk
  entry, diskEntry,  \* the name of the file, in memory and on disk
  interrupted,   \* ghost: blocks whose aio_suspend was interrupted
  failed,        \* ghost: a call failed and the program did not stop
  crashed

blocks == <<accepted, inflight, cached, disk>>
names  == <<entry, diskEntry>>
ghosts == <<interrupted, failed>>
loop   == <<i, suspended>>
size   == <<old, offset, length>>
vars   == <<program, pc, fd, loop, blocks, size, names, ghosts, crashed>>

Init ==
  /\ program \in Programs
  /\ pc = "urandom" /\ fd = "none"
  /\ i = 0 /\ suspended = 0
  /\ entry \in {"none", "filename"} /\ diskEntry \in {"none", entry}
  /\ old \in IF entry = "none" THEN {0} ELSE OldLengths
  /\ offset = 0 /\ length = old
  /\ accepted = {} /\ inflight = {} /\ cached = {} /\ disk = {}
  /\ interrupted = {} /\ failed = FALSE
  /\ crashed = FALSE

Running(p) == ~crashed /\ pc = p

-----------------------------------------------------------------------------
\* open("/dev/urandom"): exit(2) for descriptor 0, while -1 is let through.
Urandom ==
  /\ Running("urandom")
  /\ pc' \in {"open", "abort"}
  /\ UNCHANGED <<program, fd, loop, blocks, size, names, ghosts, crashed>>

\* open(filename, O_RDWR | O_CREAT), without O_TRUNC, in the .cc programs with
\* O_APPEND.  The test fd == NULL takes descriptor 0 for the failure and lets
\* -1 through.
Open ==
  /\ Running("open")
  /\ \/ fd' = "file" /\ entry' = "filename" /\ pc' = "write"
     \/ fd' = "file" /\ entry' = "filename" /\ pc' = "abort"
     \/ fd' = "bad"  /\ UNCHANGED entry     /\ pc' = "write"
  /\ UNCHANGED <<program, loop, blocks, size, diskEntry, ghosts, crashed>>

\* while (iterations--) write(fd, ...): a failed write goes unnoticed.
Write ==
  /\ Running("write")
  /\ program \in {"fsync", "fsync_dir", "rename"}
  /\ i < Iterations
  /\ i' = i + 1
  /\ \/ /\ fd = "file"
        /\ cached' = cached \cup {i} /\ accepted' = accepted \cup {i}
        /\ offset' = offset + 1
        /\ length' = IF offset < length THEN length ELSE offset + 1
        /\ UNCHANGED failed
     \/ failed' = TRUE /\ UNCHANGED <<cached, accepted, offset, length>>
  /\ UNCHANGED <<program, pc, fd, suspended, old, inflight, disk, names,
                 interrupted, crashed>>

\* aio_write: a refused write is reported, and its control block stays in
\* control_blocks.
AioWriteBlock ==
  /\ Running("write")
  /\ program = "suspend"
  /\ i < Iterations
  /\ i' = i + 1
  /\ \/ /\ fd = "file"
        /\ inflight' = inflight \cup {i} /\ accepted' = accepted \cup {i}
        /\ UNCHANGED failed
     \/ failed' = TRUE /\ UNCHANGED <<inflight, accepted>>
  /\ UNCHANGED <<program, pc, fd, suspended, cached, disk, size, names,
                 interrupted, crashed>>

List == i .. (i + ListSize - 1)

\* Mutant: LIO_NOWAIT.
LioListioNoWait ==
  /\ Running("write")
  /\ program = "listio"
  /\ i < Iterations
  /\ fd = "file"
  /\ inflight' = inflight \cup List /\ accepted' = accepted \cup List
  /\ i' = i + ListSize
  /\ UNCHANGED <<program, pc, fd, suspended, cached, disk, size, names, ghosts, crashed>>

\* lio_listio(LIO_WAIT, ...) of the whole list: accepted here, waited for in
\* LioReturns.  On an error any part of the list may have been taken, and
\* the program returns 1 without a close.
LioListio ==
  /\ Running("write")
  /\ program = "listio"
  /\ i < Iterations
  /\ \/ /\ fd = "file"
        /\ inflight' = inflight \cup List /\ accepted' = accepted \cup List
        /\ i' = i + ListSize /\ pc' = "lio_wait"
     \/ \E part \in SUBSET List :
          /\ part # {} => fd = "file"
          /\ inflight' = inflight \cup part /\ accepted' = accepted \cup part
          /\ pc' = "abort"
          /\ UNCHANGED i
  /\ UNCHANGED <<program, fd, suspended, cached, disk, size, names, ghosts, crashed>>

\* lio_listio returns when no write of the list is in progress: 0 if none of
\* them failed.
LioReturns ==
  /\ Running("lio_wait")
  /\ inflight = {}
  /\ pc' = IF failed THEN "abort" ELSE "write"
  /\ UNCHANGED <<program, fd, loop, blocks, size, names, ghosts, crashed>>

\* It returns EINTR with writes in progress, and the program gives up.
LioInterrupted ==
  /\ Running("lio_wait")
  /\ pc' = "abort"
  /\ UNCHANGED <<program, fd, loop, blocks, size, names, ghosts, crashed>>

\* Mutant: test1.c closes the file without a sync.
LoopDoneNoSync ==
  /\ Running("write")
  /\ i >= Iterations
  /\ pc' = IF program = "suspend" THEN "aio_suspend" ELSE "close"
  /\ UNCHANGED <<program, fd, loop, blocks, size, names, ghosts, crashed>>

\* Mutant: the loops stop one block early.
LoopDoneEarly ==
  /\ Running("write")
  /\ i >= Iterations - 1
  /\ pc' = CASE program = "fsync" -> "fdatasync"
             [] program = "suspend" -> "aio_suspend"
             [] OTHER -> "close"
  /\ UNCHANGED <<program, fd, loop, blocks, size, names, ghosts, crashed>>

\* The loop is over.
LoopDone ==
  /\ Running("write")
  /\ i >= Iterations
  /\ pc' = CASE program = "fsync" -> "fdatasync"
             [] program = "suspend" -> "aio_suspend"
             [] OTHER -> "close"
  /\ UNCHANGED <<program, fd, loop, blocks, size, names, ghosts, crashed>>

\* Mutant: waits for the block to be written, which a refused one never is.
AioSuspendWritten ==
  /\ Running("aio_suspend")
  /\ suspended < Iterations
  /\ suspended \in cached
  /\ suspended' = suspended + 1
  /\ UNCHANGED <<program, pc, fd, i, blocks, size, names, ghosts, crashed>>

\* aio_suspend of one control block returns when it is not in progress.
AioSuspend ==
  /\ Running("aio_suspend")
  /\ suspended < Iterations
  /\ suspended \notin inflight
  /\ suspended' = suspended + 1
  /\ UNCHANGED <<program, pc, fd, i, blocks, size, names, ghosts, crashed>>

\* It returns with an error (EINTR), which is only reported.
AioSuspendInterrupted ==
  /\ Running("aio_suspend")
  /\ suspended < Iterations
  /\ interrupted' = interrupted \cup {suspended}
  /\ suspended' = suspended + 1
  /\ UNCHANGED <<program, pc, fd, i, blocks, size, names, failed, crashed>>

AioSuspendDone ==
  /\ Running("aio_suspend")
  /\ suspended = Iterations
  /\ pc' = "close"
  /\ UNCHANGED <<program, fd, loop, blocks, size, names, ghosts, crashed>>

\* fdatasync(fd) of test1.c, fdatasync(fddir) of test1_close_then_fsync_dir.c,
\* where fddir is a descriptor of the file too.  Its result is not looked at.
Fdatasync ==
  /\ Running("fdatasync")
  /\ pc' = IF program = "fsync" THEN "close" ELSE "exit"
  /\ \/ fd = "file" /\ disk' = cached /\ UNCHANGED failed
     \/ failed' = TRUE /\ UNCHANGED disk
  /\ UNCHANGED <<program, fd, loop, accepted, inflight, cached, size, names,
                 interrupted, crashed>>

Close ==
  /\ Running("close")
  /\ pc' = CASE program = "fsync_dir" -> "open_dir"
             [] program = "rename" -> "rename"
             [] OTHER -> "exit"
  /\ fd' = "none"
  /\ UNCHANGED <<program, loop, blocks, size, names, ghosts, crashed>>

\* int fddir = open(filename, O_CLOEXEC, 0755): filename, not dirname.
OpenDir ==
  /\ Running("open_dir")
  /\ \/ entry = "filename" /\ fd' = "file" /\ pc' \in {"fdatasync", "abort"}
     \/ fd' = "bad" /\ pc' = "fdatasync"
  /\ UNCHANGED <<program, loop, blocks, size, names, ghosts, crashed>>

\* rename(filename, filename_new), without a sync before it and without a look
\* at its result.
Rename ==
  /\ Running("rename")
  /\ entry' \in IF entry = "filename" THEN {"filename_new", "filename"} ELSE {entry}
  /\ pc' = "exit"
  /\ UNCHANGED <<program, fd, loop, blocks, size, diskEntry, ghosts, crashed>>

-----------------------------------------------------------------------------
(* The kernel.                                                             *)

\* An asynchronous write is complete when its block is in the page cache:
\* the file is not opened with O_DSYNC; O_APPEND puts it at the end.  Or it
\* fails.
CompleteWrite(b) ==
  /\ ~crashed
  /\ b \in inflight
  /\ inflight' = inflight \ {b}
  /\ \/ /\ cached' = cached \cup {b} /\ length' = length + 1
        /\ UNCHANGED <<accepted, failed>>
     \/ /\ accepted' = accepted \ {b} /\ failed' = TRUE
        /\ UNCHANGED <<cached, length>>
  /\ UNCHANGED <<program, pc, fd, loop, disk, old, offset, names, interrupted, crashed>>

WriteBack ==
  /\ ~crashed
  /\ \/ \E b \in cached \ disk : disk' = disk \cup {b} /\ UNCHANGED diskEntry
     \/ entry # diskEntry /\ diskEntry' = entry /\ UNCHANGED disk
  /\ UNCHANGED <<program, pc, fd, loop, accepted, inflight, cached, size, entry, ghosts, crashed>>

Crash ==
  /\ ~crashed
  /\ crashed' = TRUE
  /\ cached' = disk /\ entry' = diskEntry /\ inflight' = {}
  /\ UNCHANGED <<program, pc, fd, loop, accepted, disk, size, diskEntry, ghosts>>

-----------------------------------------------------------------------------
Step ==
  \/ Urandom \/ Open \/ Write \/ AioWriteBlock \/ LioListio \/ LioReturns
  \/ LoopDone \/ AioSuspend \/ AioSuspendDone \/ Fdatasync \/ Close \/ OpenDir \/ Rename

Interrupt == LioInterrupted \/ AioSuspendInterrupted

Kernel == WriteBack \/ Crash \/ \E b \in inflight : CompleteWrite(b)

Next == Step \/ Interrupt \/ Kernel

Spec == Init /\ [][Next]_vars

\* The process is scheduled; the kernel completes the writes it has taken.
FairSpec ==
  Spec /\ WF_vars(Step) /\ WF_vars(\E b \in inflight : CompleteWrite(b))

-----------------------------------------------------------------------------
\* test1.c, "suddenly fsync()'ed, then close()'d", and
\* test1_close_then_fsync_dir.c, whose fdatasync reaches the file too: after
\* a run in which no call failed every block survives a crash, whenever it
\* comes.
SyncedSurvives ==
  program \in {"fsync", "fsync_dir"} /\ pc = "exit" /\ ~failed =>
    0 .. (Iterations - 1) \subseteq cached \cap disk

\* "checking that each is complete before closing": when aio_suspend_test
\* or aio_listio_test closes the file, the only writes in flight are those
\* whose own aio_suspend was interrupted.
CompleteAtClose == pc \in {"close", "exit"} => inflight \subseteq interrupted

\* The length of the file after a run without a failed call, with the writes
\* that are still in flight.  A program that writes from offset 0 leaves a
\* longer old file as long as it was; one that opens it with O_APPEND adds to
\* it, aio_listio_test in whole lists.  It is the "size of the file we want"
\* only if there was no longer file, or no file for O_APPEND, and for lists
\* only if Iterations is a multiple of ListSize.
FileLength ==
  pc = "exit" /\ ~failed /\ ~crashed =>
    LET final == length + Cardinality(inflight)
    IN  CASE program = "suspend" -> final = old + Iterations
          [] program = "listio"  ->
               \E n \in 0 .. Iterations :
                 /\ final = old + n * ListSize
                 /\ (n - 1) * ListSize < Iterations /\ Iterations <= n * ListSize
          [] OTHER -> final = IF old > Iterations THEN old ELSE Iterations

\* Every program gets to its end although aio_write may refuse a block and
\* its control block is waited for all the same.
ProgramEnds == <>(pc \in {"exit", "abort"} \/ crashed)

\* "close() it, then fsync() the directory it resides in": after a run of
\* test1_close_then_fsync_dir.c in which no call failed the name of the file
\* survives a crash.
DirectorySynced ==
  program = "fsync_dir" /\ pc = "exit" /\ ~failed => diskEntry = "filename"
=============================================================================
