--------------------------- MODULE DurableProofs ---------------------------
(***************************************************************************)
(* The stand-alone writers: what is on disk after a run without a failed   *)
(* call, how long the file is, and that no write is in flight at the close *)
(* of the file, for every number of blocks and every length of the lists.  *)
(***************************************************************************)
EXTENDS DurableWrites, FiniteSetTheorems, TLAPS

Syncs == {"fsync", "fsync_dir", "rename"}  \* the programs that use write
Ends  == {"fdatasync", "close", "open_dir", "rename", "exit"}
After == Ends \cup {"aio_suspend"}         \* behind the loop

DurableTypes ==
  /\ program \in Syncs \cup {"suspend", "listio"}
  /\ pc \in {"urandom", "open", "write", "lio_wait", "abort"} \cup After
  /\ i \in Nat /\ suspended \in Nat

\* How far the loop is, and which program is at which step.
LoopOK ==
  /\ program # "listio" => i <= Iterations
  /\ program = "listio" => i < Iterations + ListSize
  /\ pc \in After => i >= Iterations
  /\ pc \in {"urandom", "open", "write", "lio_wait"} => suspended = 0
  /\ pc = "lio_wait" => program = "listio"
  /\ pc = "aio_suspend" => program = "suspend"
  /\ pc = "rename" => program = "rename"

\* Where the blocks are that the kernel has taken.
BlocksOK ==
  /\ pc # "abort" => accepted \subseteq 0 .. (i - 1)
  /\ pc # "abort" /\ ~failed => 0 .. (i - 1) \subseteq accepted
  /\ inflight \subseteq accepted
  /\ ~crashed => accepted \subseteq inflight \cup cached
  /\ disk \subseteq cached

\* A program that syncs has written what it wrote when it has synced.
SyncOK ==
  /\ program \in Syncs => inflight = {}
  /\ program = "fsync" /\ pc \in {"close", "exit"} /\ ~failed => accepted \subseteq disk
  /\ program = "fsync_dir" /\ pc = "exit" /\ ~failed => accepted \subseteq disk

\* What has been waited for is complete, or its wait was interrupted.
CompleteOK ==
  /\ program = "listio" /\ pc \in {"urandom", "open", "write"} => inflight = {}
  /\ pc = "aio_suspend" => suspended <= Iterations
  /\ pc = "aio_suspend" =>
       inflight \subseteq (suspended .. (Iterations - 1)) \cup interrupted
  /\ pc \in Ends => inflight \subseteq interrupted

\* How long the file is: what was there, and what the loop has written over
\* it or behind it.
SizeOK ==
  /\ old \in Nat /\ offset \in Nat /\ length \in Nat /\ IsFiniteSet(inflight)
  /\ program \in Syncs => length = IF old > offset THEN old ELSE offset
  /\ program \in Syncs /\ ~failed => offset = i
  /\ program \notin Syncs /\ pc # "abort" /\ ~failed /\ ~crashed =>
       length + Cardinality(inflight) = old + i
  /\ program = "listio" => \E n \in Nat : i = n * ListSize /\ n <= i /\ n <= Iterations

DurableInv == DurableTypes /\ LoopOK /\ BlocksOK /\ SyncOK /\ CompleteOK /\ SizeOK

\* Before the program starts.
LEMMA DurableInit == Init => DurableInv
<1> SUFFICES ASSUME Init PROVE DurableInv
  OBVIOUS
<1>1. DurableTypes /\ LoopOK
  BY DurableAssumption DEF Init, DurableTypes, LoopOK, Syncs, After, Ends
<1>2. 0 .. (i - 1) = {}
  BY DEF Init
<1>3. BlocksOK /\ SyncOK /\ CompleteOK
  BY <1>2 DEF Init, BlocksOK, SyncOK, CompleteOK, Ends
<1>4. SizeOK
  <2>1. /\ old \in Nat /\ offset = 0 /\ length = old /\ i = 0 /\ inflight = {}
    BY DurableAssumption DEF Init
  <2>2. i = 0 * ListSize /\ 0 <= i /\ 0 <= Iterations
    BY <2>1, DurableAssumption
  <2>3. \E n \in Nat : i = n * ListSize /\ n <= i /\ n <= Iterations
    BY <2>2
  <2>4. QED
    BY <2>1, <2>3, FS_EmptySet DEF SizeOK
<1>5. QED
  BY <1>1, <1>3, <1>4 DEF DurableInv

-----------------------------------------------------------------------------
(* The steps that only move the program on.                                *)

\* open, the end of a wait, and everything behind the loop but fdatasync.
Moves ==
  \/ Urandom \/ Open \/ LioReturns \/ LioInterrupted \/ LoopDone
  \/ AioSuspendDone \/ Close \/ OpenDir \/ Rename

\* What such a step leaves alone.
LEMMA MovesFrame ==
  ASSUME Moves
  PROVE  /\ UNCHANGED <<program, i, suspended, accepted, inflight, cached, disk>>
         /\ UNCHANGED <<old, offset, length, interrupted>>
         /\ ~crashed /\ failed' = failed /\ crashed' = crashed
BY DEF Moves, Urandom, Open, LioReturns, LioInterrupted, LoopDone, AioSuspendDone, Close,
  OpenDir, Rename, Running, loop, blocks, size, names, ghosts

\* Where such a step leads.
LEMMA MovesTo ==
  ASSUME DurableTypes, Moves
  PROVE  \/ pc' = "abort"
         \/ pc = "urandom" /\ pc' = "open"
         \/ pc = "open" /\ pc' = "write"
         \/ pc = "lio_wait" /\ pc' = "write" /\ inflight = {}
         \/ pc = "write" /\ i >= Iterations /\ program = "fsync" /\ pc' = "fdatasync"
         \/ pc = "write" /\ i >= Iterations /\ program = "suspend" /\ pc' = "aio_suspend"
         \/ /\ pc = "write" /\ i >= Iterations /\ pc' = "close"
            /\ program \in {"fsync_dir", "rename", "listio"}
         \/ pc = "aio_suspend" /\ suspended = Iterations /\ pc' = "close"
         \/ pc = "close" /\ program = "fsync_dir" /\ pc' = "open_dir"
         \/ pc = "close" /\ program = "rename" /\ pc' = "rename"
         \/ pc = "close" /\ program \in {"fsync", "suspend", "listio"} /\ pc' = "exit"
         \/ pc = "open_dir" /\ pc' = "fdatasync"
         \/ pc = "rename" /\ pc' = "exit"
<1>1. CASE Urandom \/ Open \/ LioReturns \/ LioInterrupted \/ AioSuspendDone \/ OpenDir
           \/ Rename
  BY <1>1 DEF Urandom, Open, LioReturns, LioInterrupted, AioSuspendDone, OpenDir, Rename, Running
<1>2. CASE LoopDone
  BY <1>2 DEF LoopDone, Running, DurableTypes, Syncs
<1>3. CASE Close
  BY <1>3 DEF Close, Running, DurableTypes, Syncs
<1>4. QED
  BY <1>1, <1>2, <1>3 DEF Moves

\* Such a step preserves the invariant.
LEMMA MovesInv ==
  ASSUME DurableInv, Moves PROVE DurableInv'
<1>1. DurableTypes'
  BY MovesFrame, MovesTo DEF DurableInv, DurableTypes, After, Ends
<1>2. LoopOK'
  <2>1. UNCHANGED <<program, i, suspended>>
    BY MovesFrame
  <2>2. /\ pc' \in After => pc \in After \/ i >= Iterations
        /\ pc' \in {"urandom", "open", "write"} => pc \in {"urandom", "open", "lio_wait"}
        /\ pc' # "lio_wait"
        /\ pc' = "aio_suspend" => program = "suspend"
        /\ pc' = "rename" => program = "rename"
    BY MovesTo DEF DurableInv, After, Ends
  <2>3. pc \in {"urandom", "open", "lio_wait"} => suspended = 0
    BY DEF DurableInv, LoopOK
  <2>4. QED
    BY <2>1, <2>2, <2>3 DEF DurableInv, LoopOK
<1>3. BlocksOK'
  BY MovesFrame, MovesTo DEF DurableInv, BlocksOK
<1>4. SyncOK'
  BY MovesFrame, MovesTo DEF DurableInv, SyncOK, LoopOK
<1>5. CompleteOK'
  <2>1. ASSUME pc = "write", i >= Iterations, program = "suspend"
        PROVE  suspended <= Iterations /\ inflight \subseteq suspended .. (Iterations - 1)
    <3>1. i = Iterations /\ suspended = 0 /\ 0 <= Iterations
      BY <2>1, DurableAssumption DEF DurableInv, DurableTypes, LoopOK
    <3>2. inflight \subseteq 0 .. (i - 1)
      BY <2>1 DEF DurableInv, BlocksOK
    <3>3. QED
      BY <3>1, <3>2
  <2>2. ASSUME pc = "aio_suspend", suspended = Iterations
        PROVE  inflight \subseteq interrupted
    <3>1. inflight \subseteq (Iterations .. (Iterations - 1)) \cup interrupted
      BY <2>2 DEF DurableInv, CompleteOK
    <3>2. Iterations .. (Iterations - 1) = {}
      BY DurableAssumption
    <3>3. QED
      BY <3>1, <3>2
  <2>3. program \in {"fsync", "fsync_dir", "rename"} => inflight = {}
    BY DEF DurableInv, SyncOK, Syncs
  <2>4. UNCHANGED <<program, i, suspended, inflight, interrupted>>
    BY MovesFrame
  <2>5. program = "listio" /\ pc' \in {"urandom", "open", "write"} => inflight = {}
    BY MovesTo DEF DurableInv, CompleteOK
  <2>6. pc' = "aio_suspend" =>
          suspended <= Iterations /\ inflight \subseteq suspended .. (Iterations - 1)
    BY MovesTo, <2>1 DEF DurableInv
  <2>7. pc' \in Ends => inflight \subseteq interrupted
    BY MovesTo, <2>2, <2>3 DEF DurableInv, CompleteOK, Ends
  <2>8. QED
    BY <2>4, <2>5, <2>6, <2>7 DEF CompleteOK
<1>6. SizeOK'
  BY MovesFrame, MovesTo DEF DurableInv, SizeOK
<1>7. QED
  BY <1>1, <1>2, <1>3, <1>4, <1>5, <1>6 DEF DurableInv

-----------------------------------------------------------------------------
(* The loops.                                                              *)

\* The next block.
LEMMA NextBlock ==
  ASSUME NEW n \in Nat
  PROVE  0 .. ((n + 1) - 1) = (0 .. (n - 1)) \cup {n}
  OBVIOUS

\* write and aio_write: the block goes into the page cache or in flight.
LEMMA WriteInv ==
  ASSUME DurableInv, Write \/ AioWriteBlock PROVE DurableInv'
<1>1. /\ pc = "write" /\ program # "listio" /\ i < Iterations /\ i' = i + 1
      /\ UNCHANGED <<program, pc, suspended, disk>>
      /\ interrupted' = interrupted /\ crashed' = crashed
  BY DEF Write, AioWriteBlock, Running, names
<1>2. \/ accepted' = accepted \cup {i} /\ failed' = failed
      \/ accepted' = accepted /\ failed'
  BY DEF Write, AioWriteBlock
<1>3. \/ /\ program \in Syncs /\ inflight' = inflight
         /\ \/ cached' = cached \cup {i} /\ accepted' = accepted \cup {i}
            \/ cached' = cached /\ accepted' = accepted
      \/ /\ program = "suspend" /\ cached' = cached
         /\ \/ inflight' = inflight \cup {i} /\ accepted' = accepted \cup {i}
            \/ inflight' = inflight /\ accepted' = accepted
  BY DEF Write, AioWriteBlock, Syncs
<1>4. i \in Nat
  BY DEF DurableInv, DurableTypes
<1>5. DurableTypes'
  BY <1>1, <1>4 DEF DurableInv, DurableTypes
<1>6. LoopOK'
  BY <1>1, <1>4, DurableAssumption DEF DurableInv, LoopOK, After, Ends
<1>7. BlocksOK'
  <2>1. accepted' \subseteq 0 .. (i' - 1)
    BY <1>1, <1>2, <1>4, NextBlock DEF DurableInv, BlocksOK
  <2>2. ~failed' => 0 .. (i' - 1) \subseteq accepted'
    BY <1>1, <1>2, <1>4, NextBlock DEF DurableInv, BlocksOK
  <2>3. inflight' \subseteq accepted' /\ disk' \subseteq cached'
    BY <1>1, <1>3 DEF DurableInv, BlocksOK
  <2>4. ~crashed' => accepted' \subseteq inflight' \cup cached'
    BY <1>1, <1>3 DEF DurableInv, BlocksOK
  <2>5. QED
    BY <2>1, <2>2, <2>3, <2>4 DEF BlocksOK
<1>8. SyncOK'
  BY <1>1, <1>3 DEF DurableInv, SyncOK, Syncs
<1>9. CompleteOK'
  BY <1>1 DEF CompleteOK, Ends
<1>10. SizeOK'
  <2>1. old' = old /\ old \in Nat /\ offset \in Nat /\ length \in Nat /\ IsFiniteSet(inflight)
    BY DEF Write, AioWriteBlock, size, DurableInv, SizeOK
  <2>2. CASE Write
    <3>1. program \in Syncs /\ inflight' = inflight
      BY <2>2 DEF Write, Syncs
    <3>2. \/ /\ offset' = offset + 1 /\ failed' = failed
             /\ length' = IF offset < length THEN length ELSE offset + 1
          \/ failed' /\ offset' = offset /\ length' = length
      BY <2>2 DEF Write
    <3>3. length = IF old > offset THEN old ELSE offset
      BY <3>1 DEF DurableInv, SizeOK
    <3>4. /\ offset' \in Nat /\ length' \in Nat
          /\ length' = IF old' > offset' THEN old' ELSE offset'
      BY <2>1, <3>2, <3>3
    <3>5. ~failed' => offset' = i'
      BY <1>1, <3>1, <3>2 DEF DurableInv, SizeOK
    <3>6. QED
      BY <1>1, <2>1, <3>1, <3>4, <3>5 DEF SizeOK, Syncs
  <2>3. CASE AioWriteBlock
    <3>1. program = "suspend" /\ UNCHANGED <<offset, length>>
      BY <2>3 DEF AioWriteBlock, size
    <3>2. \/ inflight' = inflight \cup {i} /\ failed' = failed
          \/ inflight' = inflight /\ failed'
      BY <2>3 DEF AioWriteBlock
    <3>3. i \notin inflight
      <4>1. inflight \subseteq 0 .. (i - 1)
        BY <1>1 DEF DurableInv, BlocksOK
      <4>2. QED
        BY <1>4, <4>1
    <3>4. /\ IsFiniteSet(inflight \cup {i}) /\ Cardinality(inflight) \in Nat
          /\ Cardinality(inflight \cup {i}) = Cardinality(inflight) + 1
      BY <2>1, <3>3, FS_AddElement, FS_CardinalityType
    <3>5. ~failed /\ ~crashed => length + Cardinality(inflight) = old + i
      BY <1>1, <3>1 DEF DurableInv, SizeOK, Syncs
    <3>6. ~failed' /\ ~crashed' => length' + Cardinality(inflight') = old' + i'
      <4>1. SUFFICES ASSUME ~failed', ~crashed'
                     PROVE  length' + Cardinality(inflight') = old' + i'
        OBVIOUS
      <4>2. /\ Cardinality(inflight') = Cardinality(inflight) + 1
            /\ length + Cardinality(inflight) = old + i
        BY <1>1, <3>2, <3>4, <3>5, <4>1
      <4>3. QED
        BY <1>1, <1>4, <2>1, <3>1, <3>4, <4>2
    <3>7. IsFiniteSet(inflight')
      BY <2>1, <3>2, <3>4
    <3>8. QED
      BY <1>1, <2>1, <3>1, <3>6, <3>7 DEF SizeOK, Syncs
  <2>4. QED
    BY <2>2, <2>3
<1>11. QED
  BY <1>5, <1>6, <1>7, <1>8, <1>9, <1>10 DEF DurableInv

\* A list is taken, or part of it and the program gives up.
LEMMA ListInv ==
  ASSUME DurableInv, LioListio PROVE DurableInv'
<1>1. /\ pc = "write" /\ program = "listio" /\ i < Iterations
      /\ UNCHANGED <<program, suspended, disk, cached>>
      /\ interrupted' = interrupted /\ crashed' = crashed /\ failed' = failed
  BY DEF LioListio, Running, ghosts
<1>2. PICK part \in SUBSET List :
        /\ inflight' = inflight \cup part /\ accepted' = accepted \cup part
        /\ \/ pc' = "abort" /\ i' = i
           \/ pc' = "lio_wait" /\ i' = i + ListSize /\ part = List
  BY DEF LioListio
<1>3. i \in Nat /\ ListSize \in Nat /\ Iterations \in Nat
  BY DurableAssumption DEF DurableInv, DurableTypes
<1>4. 0 .. ((i + ListSize) - 1) = (0 .. (i - 1)) \cup List
  BY <1>3 DEF List
<1>5. DurableTypes'
  BY <1>1, <1>2, <1>3 DEF DurableInv, DurableTypes
<1>6. LoopOK'
  BY <1>1, <1>2, <1>3 DEF DurableInv, LoopOK, After, Ends
<1>7. BlocksOK'
  <2>1. pc' # "abort" => accepted' \subseteq 0 .. (i' - 1)
    BY <1>1, <1>2, <1>4 DEF DurableInv, BlocksOK
  <2>2. pc' # "abort" /\ ~failed' => 0 .. (i' - 1) \subseteq accepted'
    BY <1>1, <1>2, <1>4 DEF DurableInv, BlocksOK
  <2>3. /\ inflight' \subseteq accepted' /\ disk' \subseteq cached'
        /\ ~crashed' => accepted' \subseteq inflight' \cup cached'
    BY <1>1, <1>2 DEF DurableInv, BlocksOK
  <2>4. QED
    BY <2>1, <2>2, <2>3 DEF BlocksOK
<1>8. SyncOK' /\ CompleteOK'
  BY <1>1, <1>2 DEF SyncOK, CompleteOK, Syncs, Ends
<1>9. SizeOK'
  <2>1. /\ old \in Nat /\ offset \in Nat /\ length \in Nat /\ IsFiniteSet(inflight)
        /\ UNCHANGED <<old, offset, length>>
    BY DEF LioListio, size, DurableInv, SizeOK
  <2>2. inflight = {}
    BY <1>1 DEF DurableInv, CompleteOK
  <2>3. IsFiniteSet(List) /\ Cardinality(List) = ListSize
    <3>1. i \in Int /\ i + ListSize - 1 \in Int /\ i <= i + ListSize - 1
      BY <1>3, DurableAssumption
    <3>2. /\ IsFiniteSet(List)
          /\ Cardinality(List) = IF i > i + ListSize - 1 THEN 0 ELSE (i + ListSize - 1) - i + 1
      BY <3>1, FS_Interval DEF List
    <3>3. QED
      BY <1>3, <3>1, <3>2
  <2>4. IsFiniteSet(inflight')
    BY <1>2, <2>2, <2>3, FS_Subset
  <2>5. pc' # "abort" /\ ~failed' /\ ~crashed' => length' + Cardinality(inflight') = old' + i'
    <3>1. ~failed /\ ~crashed => length + Cardinality(inflight) = old + i
      BY <1>1 DEF DurableInv, SizeOK, Syncs
    <3>2. pc' # "abort" => inflight' = List /\ i' = i + ListSize
      BY <1>2, <2>2
    <3>3. Cardinality(inflight) = 0
      BY <2>2, FS_EmptySet
    <3>4. SUFFICES ASSUME pc' # "abort", ~failed', ~crashed'
                   PROVE  length' + Cardinality(inflight') = old' + i'
      OBVIOUS
    <3>5. length = old + i
      BY <1>1, <2>1, <3>1, <3>3, <3>4
    <3>6. QED
      BY <1>3, <2>1, <2>3, <3>2, <3>4, <3>5
  <2>6. \E n \in Nat : i' = n * ListSize /\ n <= i' /\ n <= Iterations
    <3>1. PICK n \in Nat : i = n * ListSize /\ n <= i /\ n <= Iterations
      BY <1>1 DEF DurableInv, SizeOK
    <3>2. (n + 1) * ListSize = n * ListSize + ListSize
      BY <1>3
    <3>3. n + 1 <= i + ListSize /\ n + 1 <= Iterations /\ n + 1 \in Nat
      BY <1>1, <1>3, <3>1, DurableAssumption
    <3>4. CASE i' = i
      BY <3>1, <3>4
    <3>5. CASE i' = i + ListSize
      BY <3>1, <3>2, <3>3, <3>5
    <3>6. QED
      BY <1>2, <3>4, <3>5
  <2>7. QED
    BY <1>1, <2>1, <2>4, <2>5, <2>6 DEF SizeOK, Syncs
<1>10. QED
  BY <1>5, <1>6, <1>7, <1>8, <1>9 DEF DurableInv

\* aio_suspend returns: its block is not in flight, or the wait was interrupted.
LEMMA SuspendInv ==
  ASSUME DurableInv, AioSuspend \/ AioSuspendInterrupted PROVE DurableInv'
<1>1. /\ pc = "aio_suspend" /\ suspended < Iterations /\ suspended' = suspended + 1
      /\ UNCHANGED <<program, pc, i, accepted, inflight, cached, disk>>
      /\ crashed' = crashed /\ failed' = failed
  BY DEF AioSuspend, AioSuspendInterrupted, Running, blocks, ghosts
<1>2. \/ interrupted' = interrupted \cup {suspended}
      \/ suspended \notin inflight /\ interrupted' = interrupted
  BY DEF AioSuspend, AioSuspendInterrupted, ghosts
<1>3. suspended \in Nat /\ Iterations \in Nat
  BY DurableAssumption DEF DurableInv, DurableTypes
<1>4. DurableTypes'
  BY <1>1, <1>3 DEF DurableInv, DurableTypes
<1>5. LoopOK'
  BY <1>1 DEF DurableInv, LoopOK
<1>6. BlocksOK' /\ SyncOK'
  BY <1>1 DEF DurableInv, BlocksOK, SyncOK
<1>7. CompleteOK'
  <2>1. suspended' <= Iterations
    BY <1>1, <1>3
  <2>2. inflight' \subseteq (suspended' .. (Iterations - 1)) \cup interrupted'
    <3>1. inflight \subseteq (suspended .. (Iterations - 1)) \cup interrupted
      BY <1>1 DEF DurableInv, CompleteOK
    <3>2. suspended .. (Iterations - 1) \subseteq {suspended} \cup (suspended' .. (Iterations - 1))
      BY <1>1, <1>3
    <3>3. QED
      BY <1>1, <1>2, <3>1, <3>2
  <2>3. QED
    BY <1>1, <2>1, <2>2 DEF CompleteOK, Ends
<1>8. SizeOK'
  BY <1>1 DEF AioSuspend, AioSuspendInterrupted, size, DurableInv, SizeOK
<1>9. QED
  BY <1>4, <1>5, <1>6, <1>7, <1>8 DEF DurableInv

\* fdatasync: all that is in the page cache is on disk, or the call failed.
LEMMA FdatasyncInv ==
  ASSUME DurableInv, Fdatasync PROVE DurableInv'
<1>1. /\ pc = "fdatasync" /\ pc' \in {"close", "exit"} /\ ~crashed
      /\ UNCHANGED <<program, i, suspended, accepted, inflight, cached>>
      /\ crashed' = crashed /\ interrupted' = interrupted
  BY DEF Fdatasync, Running, loop
<1>2. \/ disk' = cached /\ failed' = failed
      \/ disk' = disk /\ failed'
  BY DEF Fdatasync
<1>3. DurableTypes' /\ LoopOK'
  BY <1>1 DEF DurableInv, DurableTypes, LoopOK, After, Ends
<1>4. BlocksOK'
  BY <1>1, <1>2 DEF DurableInv, BlocksOK
<1>5. SyncOK'
  <2>1. program \in Syncs => accepted \subseteq cached
    BY <1>1 DEF DurableInv, BlocksOK, SyncOK
  <2>2. QED
    BY <1>1, <1>2, <2>1 DEF DurableInv, SyncOK, Syncs
<1>6. CompleteOK'
  BY <1>1 DEF DurableInv, CompleteOK, Ends
<1>7. SizeOK'
  <2>1. UNCHANGED <<old, offset, length>> /\ pc # "abort" /\ (~failed' => ~failed)
    BY <1>1, <1>2 DEF Fdatasync, size
  <2>2. QED
    BY <1>1, <2>1 DEF DurableInv, SizeOK
<1>8. QED
  BY <1>3, <1>4, <1>5, <1>6, <1>7 DEF DurableInv

-----------------------------------------------------------------------------
(* The kernel.                                                             *)

\* The kernel completes a write, writes something back, or stops.
LEMMA KernelInv ==
  ASSUME DurableInv, Kernel PROVE DurableInv'
<1>1. UNCHANGED <<program, pc, i, suspended>> /\ interrupted' = interrupted
  BY DEF Kernel, WriteBack, Crash, CompleteWrite, loop, ghosts
<1>2. inflight' \subseteq inflight /\ (~failed' => ~failed)
  BY DEF Kernel, WriteBack, Crash, CompleteWrite, ghosts
<1>3. DurableTypes' /\ LoopOK'
  BY <1>1 DEF DurableInv, DurableTypes, LoopOK
<1>4. BlocksOK'
  <2>1. CASE WriteBack
    <3>1. /\ UNCHANGED <<accepted, inflight, cached>> /\ crashed' = crashed
          /\ failed' = failed
          /\ \/ \E b \in cached : disk' = disk \cup {b}
             \/ disk' = disk
      BY <2>1 DEF WriteBack, ghosts
    <3>2. QED
      BY <1>1, <3>1 DEF DurableInv, BlocksOK
  <2>2. CASE Crash
    BY <1>1, <2>2 DEF Crash, ghosts, DurableInv, BlocksOK
  <2>3. ASSUME NEW b \in inflight, CompleteWrite(b) PROVE BlocksOK'
    <3>1. /\ inflight' = inflight \ {b} /\ UNCHANGED disk /\ crashed' = crashed
          /\ \/ cached' = cached \cup {b} /\ accepted' = accepted /\ failed' = failed
             \/ accepted' = accepted \ {b} /\ failed' /\ cached' = cached
      BY <2>3 DEF CompleteWrite
    <3>2. QED
      BY <1>1, <3>1 DEF DurableInv, BlocksOK
  <2>4. QED
    BY <2>1, <2>2, <2>3 DEF Kernel
<1>5. SyncOK'
  <2>1. accepted' \subseteq accepted /\ disk \subseteq disk'
    BY DEF Kernel, WriteBack, Crash, CompleteWrite
  <2>2. QED
    BY <1>1, <1>2, <2>1 DEF DurableInv, SyncOK
<1>6. CompleteOK'
  BY <1>1, <1>2 DEF DurableInv, CompleteOK
<1>7. SizeOK'
  <2>1. CASE WriteBack \/ Crash
    <3>1. UNCHANGED <<old, offset, length>> /\ failed' = failed
      BY <2>1 DEF WriteBack, Crash, size, ghosts
    <3>2. (inflight' = inflight /\ crashed' = crashed) \/ (inflight' = {} /\ crashed')
      BY <2>1 DEF WriteBack, Crash
    <3>3. IsFiniteSet(inflight')
      BY <3>2, FS_EmptySet DEF DurableInv, SizeOK
    <3>4. QED
      BY <1>1, <3>1, <3>2, <3>3 DEF DurableInv, SizeOK
  <2>2. ASSUME NEW b \in inflight, CompleteWrite(b) PROVE SizeOK'
    <3>1. /\ inflight' = inflight \ {b} /\ UNCHANGED <<old, offset>> /\ crashed' = crashed
          /\ \/ length' = length + 1 /\ failed' = failed
             \/ failed' /\ length' = length
      BY <2>2 DEF CompleteWrite
    <3>2. /\ old \in Nat /\ offset \in Nat /\ length \in Nat /\ IsFiniteSet(inflight)
          /\ i \in Nat /\ program \notin Syncs
      BY DEF DurableInv, DurableTypes, SizeOK, SyncOK
    <3>3. /\ IsFiniteSet(inflight') /\ Cardinality(inflight) \in Nat
          /\ Cardinality(inflight') = Cardinality(inflight) - 1
      BY <3>1, <3>2, FS_RemoveElement, FS_CardinalityType
    <3>4. pc' # "abort" /\ ~failed' /\ ~crashed' =>
            length' + Cardinality(inflight') = old' + i'
      <4>1. SUFFICES ASSUME pc' # "abort", ~failed', ~crashed'
                     PROVE  length' + Cardinality(inflight') = old' + i'
        OBVIOUS
      <4>2. length + Cardinality(inflight) = old + i /\ length' = length + 1
        BY <1>1, <3>1, <3>2, <4>1 DEF DurableInv, SizeOK
      <4>3. QED
        BY <1>1, <3>1, <3>2, <3>3, <4>2
    <3>5. length' \in Nat
      BY <3>1, <3>2
    <3>6. QED
      BY <1>1, <3>1, <3>2, <3>3, <3>4, <3>5 DEF DurableInv, SizeOK
  <2>3. QED
    BY <2>1, <2>2 DEF Kernel
<1>8. QED
  BY <1>3, <1>4, <1>5, <1>6, <1>7 DEF DurableInv

-----------------------------------------------------------------------------
(* The theorems.                                                           *)

\* Every step preserves the invariant.
LEMMA DurableStep == DurableInv /\ [Next]_vars => DurableInv'
<1> SUFFICES ASSUME DurableInv, [Next]_vars PROVE DurableInv'
  OBVIOUS
<1>1. CASE Next
  <2>1. \/ Moves \/ Write \/ AioWriteBlock \/ LioListio \/ AioSuspend
        \/ AioSuspendInterrupted \/ Fdatasync \/ Kernel
    BY <1>1 DEF Next, Step, Interrupt, Moves
  <2>2. QED
    BY <2>1, MovesInv, WriteInv, ListInv, SuspendInv, FdatasyncInv, KernelInv
<1>2. CASE UNCHANGED vars
  <2>1. /\ UNCHANGED <<program, pc, i, suspended, accepted, inflight, cached, disk>>
        /\ UNCHANGED <<old, offset, length>>
        /\ interrupted' = interrupted /\ failed' = failed /\ crashed' = crashed
    BY <1>2 DEF vars, loop, blocks, size, ghosts
  <2>2. DurableTypes' /\ LoopOK' /\ BlocksOK' /\ SyncOK' /\ CompleteOK' /\ SizeOK'
    BY <2>1 DEF DurableInv, DurableTypes, LoopOK, BlocksOK, SyncOK, CompleteOK, SizeOK
  <2>3. QED
    BY <2>2 DEF DurableInv
<1>3. QED
  BY <1>1, <1>2

\* The inductive invariant holds in every reachable state.
LEMMA DurableInvariance == Spec => []DurableInv
  BY DurableInit, DurableStep, PTL DEF Spec

\* After a run of test1.c or test1_close_then_fsync_dir.c without a failed call
\* every block is on disk, and a crash does not lose it.
THEOREM SyncedBlocksSurvive == Spec => []SyncedSurvives
<1>1. ASSUME DurableInv PROVE SyncedSurvives
  <2>1. SUFFICES ASSUME program \in {"fsync", "fsync_dir"}, pc = "exit", ~failed
                 PROVE  0 .. (Iterations - 1) \subseteq cached \cap disk
    BY DEF SyncedSurvives
  <2>2. i \in Nat /\ i >= Iterations /\ Iterations \in Nat
    BY <1>1, <2>1, DurableAssumption DEF DurableInv, DurableTypes, LoopOK, After, Ends
  <2>3. 0 .. (Iterations - 1) \subseteq 0 .. (i - 1)
    BY <2>2
  <2>4. 0 .. (i - 1) \subseteq accepted /\ accepted \subseteq disk /\ disk \subseteq cached
    BY <1>1, <2>1 DEF DurableInv, BlocksOK, SyncOK
  <2>5. QED
    BY <2>3, <2>4
<1>2. QED
  BY <1>1, DurableInvariance, PTL

\* The only writes in flight at the close of the file are those whose wait was
\* interrupted.
THEOREM WritesCompleteAtClose == Spec => []CompleteAtClose
<1>1. DurableInv => CompleteAtClose
  BY DEF DurableInv, CompleteOK, CompleteAtClose, Ends
<1>2. QED
  BY <1>1, DurableInvariance, PTL

\* After a run without a failed call the file is as long as it was if it was
\* longer, or longer by what was appended to it, in whole lists; whatever was
\* in the file before, and however many writes are still in flight.
THEOREM FileHasItsLength == Spec => []FileLength
<1>1. ASSUME DurableInv PROVE FileLength
  <2> DEFINE final == length + Cardinality(inflight)
  <2>1. SUFFICES ASSUME pc = "exit", ~failed, ~crashed
                 PROVE  CASE program = "suspend" -> final = old + Iterations
                          [] program = "listio"  ->
                               \E n \in 0 .. Iterations :
                                 /\ final = old + n * ListSize
                                 /\ (n - 1) * ListSize < Iterations
                                 /\ Iterations <= n * ListSize
                          [] OTHER -> final = IF old > Iterations THEN old ELSE Iterations
    BY DEF FileLength
  <2>2. /\ i \in Nat /\ i >= Iterations /\ Iterations \in Nat /\ ListSize \in Nat
        /\ length \in Nat /\ old \in Nat /\ offset \in Nat
    BY <1>1, <2>1, DurableAssumption DEF DurableInv, DurableTypes, LoopOK, SizeOK, After, Ends
  <2>3. CASE program = "suspend"
    <3>1. final = old + i
      BY <1>1, <2>1, <2>3 DEF DurableInv, SizeOK, Syncs
    <3>2. i = Iterations
      BY <1>1, <2>2, <2>3 DEF DurableInv, LoopOK
    <3>3. QED
      BY <2>3, <3>1, <3>2
  <2>4. CASE program = "listio"
    <3>1. final = old + i
      BY <1>1, <2>1, <2>4 DEF DurableInv, SizeOK, Syncs
    <3>2. PICK n \in Nat : i = n * ListSize /\ n <= Iterations
      BY <1>1, <2>4 DEF DurableInv, SizeOK
    <3>3. i < Iterations + ListSize
      BY <1>1, <2>4 DEF DurableInv, LoopOK
    <3>4. (n - 1) * ListSize = n * ListSize - ListSize
      BY <2>2
    <3>5. (n - 1) * ListSize < Iterations
      BY <2>2, <3>2, <3>3, <3>4
    <3>6. n \in 0 .. Iterations
      BY <2>2, <3>2
    <3>7. final = old + n * ListSize /\ Iterations <= n * ListSize
      BY <2>2, <3>1, <3>2
    <3>8. QED
      BY <2>4, <3>5, <3>6, <3>7
  <2>5. CASE program \in Syncs
    <3>1. inflight = {} /\ offset = i /\ length = IF old > offset THEN old ELSE offset
      BY <1>1, <2>1, <2>5 DEF DurableInv, SyncOK, SizeOK
    <3>2. i = Iterations
      BY <1>1, <2>2, <2>5 DEF DurableInv, LoopOK, Syncs
    <3>3. final = length
      BY <2>2, <3>1, FS_EmptySet
    <3>4. QED
      BY <2>5, <3>1, <3>2, <3>3 DEF Syncs
  <2>6. QED
    BY <1>1, <2>3, <2>4, <2>5 DEF DurableInv, DurableTypes
<1>2. QED
  BY <1>1, DurableInvariance, PTL
=============================================================================
