# TLA+ specifications of gmarler/perf

The repository collects performance experiments for Solaris. Most are short
programs that call the operating system in a line; two parts have logic of their
own that is hard to get right and hard to test:

* `lockless_pipe/LocklessPipe.hpp`, a single-reader, single-writer pipe without
  locks, and
* `async_to_sync_writes/`, file-writing tests in which a main thread, a signal
  thread and the kernel's asynchronous I/O work together.

This directory models them in TLA+, checks small instances with TLC and proves
the central invariants with TLAPS.

## 1. Inventory

| Part | State | Operations | Talks to | Hard | Correct means |
|---|---|---|---|---|---|
| LocklessPipe, data path | `readVPtr_`, `writeVPtr_`, `nextWriteVPtr_` (version, pointer), counters, `buf_` | push = startWrite, memcpy, finishWrite; pop = wait, read; isFull, isEmpty | a writer and a reader thread share its members without a lock | wrap of header and data, interleaving, stale `isFull`, overflow, version wrap | unread bytes stay, elements come out whole and in order, pushes that can succeed do |
| LocklessPipe, control | `isReaderRunning_`, `isWriterRunning_` | startWriter, stopWriter, startReader (stopReader does not compile) | any thread; read inside push and pop | flag read twice in a push | a stopped writer gets out, a push still only writes where there is room |
| LocklessPipe, observers | none | validate, count, percentFull, print | reads what two threads write | several loads are not one | no alarm for a healthy pipe; the counters a third thread loads are in order |
| Fences (`membar.h`, `MemoryFence.h`) | what compiler and processor may reorder | MF_write_sync, MF_read_sync, one branch per processor | used by the pipe | weak memory | stores arrive in the order the comments ask for |
| aio_write test | loop counters, mutex, condition variable, two completion counters; the kernel's queue and signals | submit a batch, wait, join; sig_thread: take signal, count, signal | pthreads, real-time signals, AIO | lost wakeup, batches, partial failure | every write counted once, return means written |
| lio_listio test | a list of control blocks, a counter | submit list, sleep, free, join | as above | sleep for synchronisation, free while in flight | blocks live as long as the kernel uses them |
| Driver (`main.c`, options, pwrite test, buffers) | file, file name | open, run one test, rename, unlink | calls the tests | failed open | rename after the writes |
| Stand-alone writers (`test1*.c`, `aio_suspend_test.cc`, `aio_listio_test.cc`) | a file, its page cache and its name | open, write or submit, wait, sync, close, rename | kernel | refused and interrupted calls, a file of an earlier run, crash | what was synced survives, only interrupted waits leave a write in flight at close, the length is what it must be, every program ends |
| MWAIT experiment | a word, a time stamp, the monitored cache line | waker, wakee | two threads, the processor | store before, in or after the load; time stamp of a later update | no store is slept through, the latency is at most that of the update waited for |
| Utility, StreamingException, Errno | a bitmap / a bounded buffer | bit functions; append | thrown by the pipe | byte and bit order, a full buffer | agree with a set of bits, with the text appended |
| shmadv (`shm_copy.c`, `test1.c`, `test2.c`) | shared memory segments, found by key | get, advise, attach, fill, copy, detach, remove | kernel, and each other: a shared key | error paths, two processes, last block | a segment is left only by a process that failed |
| libproc tools | a handle, a search result, counters | grab, iterate over objects and symbols, free | libproc calls back | calls that fail in the middle, NULL names and handles | what is found was recorded, what is counted belongs to the object walked |
| posix_mq, dns_hang, nscd, resource_controls, memory, libelf | - | single library calls, scripts | operating system | - | pure I/O, not modelled |

`PROJECT.json` lists the parts with their sources under `components`, and under
`hazards` each place that a test would hardly reach, with the properties that
cover it.

## 2. Plan

Done, in this order:

1. `PipeGeometry`, `LocklessPipe`: the pipe; `PipeQueue`: what it promises;
   `PipeInvariant`, `MCLocklessPipe`: its inductive invariant and refinement.
2. `PipeMonitor`: `validate` and `count` on top of the pipe.
3. `AioWrite`: the aio_write test.
4. `LioListio`: the lio_listio test, and `WriteTest`: `main.c` around the three
   write tests, composing `AioWrite` and `LioListio`.
5. `PipeProofs`, `AioProofs`.
6. `PipeFences`: push and read where compiler and processor reorder accesses.
7. `PipeWait`: peek and the timed branches of `wait`, on top of `LocklessPipe`.
8. `DurableWrites`: the stand-alone writers, with crashes.
9. `MWait`; `ShmPrograms`; `ProcTools`; `Support` (bit functions, exception
   messages); `MCPrograms`, which runs the small ones in one model.
10. The proofs, each next to what it is about: `QueueProofs`, `CallerProofs`,
    `MWaitProofs`, `DurableProofs`, `WriteProofs`, `ProgramProofs`.

Every safety property that a passing run checks is now a theorem (section 8).
Next:

11. Facts that the liveness properties rest on and that are safety: that a thread
    at each of its waiting steps has something to wait for.
12. Why the four findings are the only ways to the bad states they reach: the same
    properties under the discipline the comments ask for.

## 3. The pipe

`PipeGeometry` has the arithmetic. A position is a record `[lap, ptr]`; the code's
64-bit pointer holds `ptr` and `lap` modulo `VERSIONS` (2^32 in the code), and all
comparisons of the model use only that (`getVersion`, `SameVPtr`). `HeaderAt`,
`DataAt` and `EndAt` are the three computations of `startWrite`; `isFull` keeps
the nesting of the code; sums are `uint32_t` (`Plus`, modulo `WORD`). `Fits` is an
independent definition of "there is room", from sets of bytes.

`LocklessPipe` has the state and three threads.

| Model | Code |
|---|---|
| `readVPtr`, `writeVPtr`, `nextWriteVPtr`, `numRead`, `numWritten`, `numFailedWrites`, `isReaderRunning`, `isWriterRunning`, `buf` | the members with `_` |
| `wpc`, `wlen`, `wblock`, `wfull`, `wret` | the writer's place in startWrite/finishWrite, its arguments, its local `full`, how the call ended |
| `rpc`, `rlen`, `got`, `popped` | the reader's place in pop/wait/read, what it copied, what pop handed out |
| `log` | ghost: the layout of every unread element |
| `Push`, `PushTooLarge`, `WriteIsFull`, `WriteIsRunning`, `WriteInterrupted`, `WriteWouldBlock`, `WriteReserve`, `WriteHeader`, `WriteData`, `WriteCount`, `WritePublish` | push, startWrite, finishWrite: one action per access to shared state |
| `Pop`, `WaitIsEmpty`, `WaitIsRunning`, `Read...` | pop, `wait(NEVER_TIME_OUT)`, read |
| `StopWriter`, `StartWriter`, `StartReader` | the control methods |

A byte of `buf` is a record that says to which element it belongs, at which
offset, and the length in that element's header, so that a torn, lost or mixed
element is visible.

Decisions a reader should know:

* `read` is declared in the header, but its body is not in the repository. It is
  modelled as `pop` needs it: wait, test the flag, read the header where
  `startWrite` put it, copy the data, move `readVPtr_`, count.
* `stopReader` is not modelled. Line 139 assigns to `isReaderRunning`, the name of a
  member function, so that a program that calls it does not compile. Nothing else
  clears `isReaderRunning_`: it is true from the constructor on, and the branches
  of `pop` and `wait` for a stopped reader are never taken. The comment of lines
  135-136, "All subsequent calls to pop will throw Interrupted exceptions", is
  true of nothing that can be run.
* The policy is `NoWakeupPolicy`, the only one the header defines: `wakeup` does
  nothing and `wait` polls.
* The isFull of a push is one step: it loads `readVPtr_` once, and `writeVPtr_`
  is only written by the thread that loads it. The same holds for the reader's
  isEmpty.
* Memory is sequentially consistent: the fences are taken to work. `PipeFences`
  is about what happens if they do not.
* `Spec` starts the writer only between two pushes (`ControlStep`). Run
  `pipe_restart` shows why this is needed: see Findings.

`PipeQueue` is the promise: a FIFO queue of numbered elements, whose bytes with
headers (`used`) are at most `PIPE_SIZE`. `MCLocklessPipe` maps the pipe to it: the
queue is read from the headers in `buf`, a push takes effect at `WritePublish`, a
pop at `ReadRelease`. `used` is the distance from the read to the write pointer
(`Distance`) less what an element skips at the end of `buf_` (`Waste`); at most one
unread element goes around the end (`Wrapping`).

`PipeMonitor` adds one observer that calls `validate` or `count` from the
reader's thread between two pops, from the writer's between two pushes, or from a
third thread at any time. Each load is a step. C++ leaves open which operand of
`numWritten_ - numRead_` is loaded first; the model tries both.

`PipeWait` adds the reader's other calls. A timeout below a millisecond (`Peek`,
`ShortRead`) sleeps once, whatever the pipe holds; a longer one (`TimedRead`,
`TimedDeadline`, `TimedIsEmpty`, `TimedIsRunning`, `TimedNow`, `TimedReturns`) polls
the pipe, the flag and `gettimeofday`, which may fail. Time is counted in polls and
only its distance to the deadline is kept (`remaining`); `SetClock` is somebody who
sets the wall clock, forward past the deadline or back by a unit. `waited` is the
real time, for `NoEarlyTimeout`. The `uint64_t` sum of line 517 is taken not to wrap:
it would for a timeout of more than 500 years. `ReaderEnds` is a reader thread that
ends between two calls: `StopReleasesWriter` must hold without it, `PushReturns` and
`ElementsDelivered` need it.

`PipeFences` is the pipe's protocol on real machines. `PushProgram` and
`ReadProgram` are the accesses and fences of one push and one read; an access may be
performed when every access `Ordered` before it has been: same location, a store
behind the branch of isFull or isEmpty, or a pair that both compiler and processor
keep. The compiler keeps volatile accesses in order among themselves (of the members
in question only the two counters are: the pointers are `Atom<>`, which is defined
nowhere in the repository), and moves nothing over a fence; the processor keeps what its memory model says (`Kept`) and
what the macro in that branch of `membar.h` says (`SparcMacros` ... `GnuMacros`,
with the lower-case fallbacks at the end of the file). `buf_` is a ring of slots of
one element here: the layout is `LocklessPipe`'s subject. A third thread calls
`validate` once (`ValidateLoads`): its loads of `numRead_` and `numWritten_` have no
fence between them and stay in order only where the processor keeps loads in order
(`LoadsInOrder`). A store is seen by all threads at the same moment, which POWER does
not promise to a third one.

## 4. The aio_write test

`AioWrite` models `aio_write_test` (`Main...`), `sig_thread` (`Sig...`) and the
kernel (`Complete`, `SendStop`). `inflight`, `queuedOk`, `queuedErr` count writes
and queued `MYSIG_AIO_COMPLETE` signals; `aio_write` fails (and is only reported)
at `AioLimit` writes in flight; a failed write leads to `exit(9)`, after which
`running` is false and nothing moves. The condition variable follows POSIX: wait
and unlock are one step, the mutex is taken again before the return, a signal
nobody waits for is lost, and a wait may end without a signal
(`MainSpuriousWakeup`). `MYSIG_STOP` has a higher signal number than
`MYSIG_AIO_COMPLETE` and is delivered after it. Control blocks and buffers carry
no control and are left out; offsets too, since the file is opened with `O_APPEND`.

## 5. The lio_listio test and the driver

`LioListio` models `lio_listio_test` and its sig_thread. `lists` holds, for every
list submitted, how many writes are left, whether a signal is due for it, and
whether its control blocks are still allocated. The kernel takes the whole list
or, at `AioLimit` writes in flight, fails the call and takes a part of it; POSIX
leaves open whether it signals for that part, so does the model. The two-second
sleep is a step in which any number of writes, or none, may complete.

`WriteTest` is `main.c`: options, open, one test, rename, unlink. It extends
`LioListio`, instantiates `AioWrite` (with the limit 0 when the descriptor is bad,
so that every `aio_write` fails) and has the loop of `pwrite_test`. A process runs
one test, so the tests share the loop counter and the program counters. `fd ==
NULL` is modelled as it is: -1 goes on, descriptor 0 exits. The file may be there from
an earlier run, and a failed open leaves it there. The result of `rename`
is not looked at, and its target is appended to uninitialized memory, so it may
fail. Left out: what is in the buffers, and options that are missing.

## 6. The stand-alone programs

`DurableWrites` models five mains as one loop with a different body and a different
end (`program`). `accepted` are the blocks the kernel has taken, `inflight` the
asynchronous ones not complete, `cached` and `disk` where a block is, `entry` and
`diskEntry` the name of the file in memory and on disk. The path is fixed, nothing
removes the file and no open has `O_TRUNC`: it may be there already, with `old` blocks,
and `offset` and `length` follow what writes from the beginning and appends make of it.
The kernel writes blocks and
the name back in any order, and `Crash` loses the rest. `fd == NULL` lets -1 through,
as in `main.c`; writes, syncs and renames that fail go unnoticed (`failed` records
that one did). `OpenDir` opens `filename`, as the code does.

`MWait` models `mwait.cpp`. `LoadMonitor` is the monitored load with the comparison,
`WakeByStore`, `WakeByTimeout` and `SpuriousWake` are the three ends of the wait;
`HasMWAIT`, `Trial`, `StartWaker`, `Loop`, `MWait`, `TakeDone`, `TestChanged`,
`PrintLatency` are main, `UpdateStamp` and `UpdateStore` the waker. The clock stops at
`MaxClock`, where every timeout is due.

`ShmPrograms` gives each process one of the three mains as a sequence of calls
(`ShmCopy`, `Test1`, `Test2`); there is one action per kind of call and one for its
error path. A segment is a key, a size and whether its id is still valid. `shm_copy`
and `test2` share key 0x6fff. An access that goes past the end of a segment may kill
the process.

`ProcTools` has the four libproc tools: one action for each main, each callback of
`Pobject_iter` and of `Psymbol_iter`. libproc is external: any grab may fail, a walk
over objects may end early with -1, a walk over symbols with an error nobody looks at
(`cut`), and a walk over objects ends at the first callback that does not return 0. An
object without a name is passed on as NULL, which is `PR_OBJ_EXEC` (`libproc.h:446`):
the executable's symbols are walked (`Walked`). `Pgrab_file` of NULL fails. What is
undefined, printing a NULL name and walking a NULL handle, kills the tool or does no
harm (`Killed`, `SymbolsDone`). `demangle_result` is never assigned, so the switch on it
takes any branch.

`Support` has `set_bit`, `clr_bit`, `set_bit_to`, `test_bit` as arithmetic on bytes,
compared with a set of bits, and `operator<<` of the exceptions as the code writes it
(strlen, strncpy, last byte), compared with the sequence of all that was appended.

`MCPrograms` runs one of `ShmPrograms`, `ProcTools`, the two halves of `Support` and
`PipeFences` in each behaviour (`subject`).

## 7. Runs

Passing:

| Run | Checks | Bounds |
|---|---|---|
| `pipe_safety` | `TypeOK`, `UnreadIntact`, `PopIntact`, `WritesOnlyIfRoom`, `IsFullExact`, `PipeInv`, `WritesAnnounced`, `RefinesQueue` | 12-byte pipe, 2-byte header, lengths 0, 1, 3 (the maximum) and 6 (too large), blocking or not, 5 pushes |
| `pipe_liveness` (`PipeWait`) | `PushReturns`, `StopReleasesWriter`, `ElementsDelivered`, `TimedWaitEnds`, `NoEarlyTimeout` | 10-byte pipe, lengths 1, 2 (the maximum), 5 (too large), 3 blocking pushes, a timeout of 2 polls, the clock set once |
| `pipe_monitor` | `NoFalseAlarm`, `CountersInOrder`, `CountNotNegative` | 8-byte pipe, 1-byte elements, 7 pushes, 3 versions |
| `aio_write` | `TypeOK`, `ReturnMeansWritten`, `EveryWriteCounted`, `BatchCounterAgrees`, `SigThreadExits` | 5 blocks in batches of 2 (the last batch is one too many), 3 writes in flight at most, failures, `MYSIG_STOP` |
| `write_test` | `RenamedMeansWritten`, `ListsCounted`, `ListsReported` | every test, 5 blocks in batches or lists of 2, 3 in flight, failures, `MYSIG_STOP`, bad descriptors, a file of an earlier run or none |
| `durable_writes` | `SyncedSurvives`, `CompleteAtClose`, `FileLength`, `ProgramEnds` | all five programs, 4 blocks, lists of 3 (the second is two blocks too long), no file or one of 2 or 5 blocks (shorter and longer than the new one) |
| `mwait` | `NoMissedStore`, `LatencyOfUpdate`, `Terminates` | 2 trials, 2 updates, waits of 2 ticks in a run of 4 |
| `programs` | `LeftoverExplained`, `FoundMeansRecorded`, `FunctionsCounted`, `BitmapIsSet`, `MessageIsPrefix`, `FreshRead`, `AnnouncedFirst`, `CountersInStep` | two processes with any of the three shared memory programs; three objects with up to three symbols; two bytes of bits; a 7-byte message and 5 appends; 2 slots, 3 elements, one `validate`, all five branches of `membar.h` |

Why this is enough to meet the interesting cases: with 12 bytes and elements of
2, 3 or 5 bytes the header can just fit, just not fit, or fit with the data
wrapping; five pushes go around twice, so that the writer is a lap ahead and
positions are reused; `VERSIONS = 2` makes the version wrap in every run, 3 in
the monitor's, where a difference of versions must be told from a wrap. `WORD =
32` keeps the sums of a 12-byte pipe below the wrap, as 2^32 does for a real
one. In `pipe_liveness` the third push goes around the end and can find the pipe
full. For the aio test, a last batch that is not needed in full, a full AIO queue
and a completion that overtakes the main thread all occur. With two slots the third
element reuses the first one's, so that a load can be too early and a push let in
too early. A 7-byte message is filled exactly, overfilled, and appended to when
full. Two updates let one fall into every gap of the wakee and the next one into
the print.

Fairness: `pipe_liveness` assumes that a thread inside the pipe is scheduled
again (both sides poll with `usleep`, so weak fairness is what the scheduler
gives), that time goes on, that the clock is set finitely often, and that a reader
that comes back to its loop again and again calls `pop` at times (strong fairness:
it may choose a peek instead), unless its thread ends; nothing is assumed of the application's pushes or of
the control thread. `aio_write` and `aio_hang` assume that both threads are
scheduled, that neither starves on the mutex (strong fairness of the lock steps),
and that the kernel completes an accepted write; `write_test` that sig_thread is
scheduled and accepted writes complete; `durable_writes` that the process is
scheduled and accepted writes complete; `mwait` that main is scheduled and time
passes. Spurious wakeups, interruptions, `MYSIG_STOP`, the waker and the kernel's
write-back are never assumed to come.

Deadlock is checked in the pipe's runs. The other runs switch it off: their
programs end, and run `aio_hang` is about the end it should not have.

### Findings

Each of these runs checks one sentence of the repository and TLC finds a
behaviour of the code that contradicts it.

| Run | Says | Does |
|---|---|---|
| `pipe_restart` | push blocks if there is not enough room | `stopWriter` then `startWriter`, around the end of startWrite's loop, lets a blocked push write over unread elements |
| `aio_hang` | join when we're done | the wait condition is the negation of what is waited for: a batch that completes early blocks the main thread for ever |
| `lio_free` | wait for the completion handling thread | control blocks are freed after two seconds, in flight or not |
| `fsync_dir` | close, then fsync the directory | the file is opened and synced a second time, its directory never: after a crash the name may be missing |

Noted while modelling, without a run of their own:

* Pipe: `numFailedWrites_` is never incremented; `push` accepts an empty element,
  for which `pop` throws `InternalReadError`; `isFull` of a length close to 2^32
  wraps and finds room (startWrite checks the size first); `count` in a third thread
  can be negative, that is, huge, and `validate` in a third thread can report
  corruption of a healthy pipe; `stopReader` does not name the member it means, so that
  the reader cannot be stopped, against the comment of lines 135-136; a peek or short
  read sleeps once and does not wait for data.
* Fences: `validate` in a third thread loads the counters without a fence. On POWER,
  and on a machine `membar.h` does not know, the loads may be exchanged and `validate`
  sees `numRead_` > `numWritten_` in a healthy pipe. TLC finds this if the condition
  `LoadsInOrder` is taken out of `CountersInStep`.
* aio_write test: the main thread's wait ends after one completion of the batch, not
  after all; the last batch is submitted in full, so that the file may become longer
  than `filesize`, and the surplus may still be in flight when the file is renamed;
  a file of 2^31 blocks overflows `int i`.
* Driver and lio_listio test: the lio_listio test never returns, because nobody sends
  the `MYSIG_STOP` its sig_thread waits for; after a failed `open` the tests run on
  descriptor -1; the new name is appended to uninitialized memory.
* Stand-alone writers: an interrupted `aio_suspend` is not repeated, and the file is
  closed with writes in flight; `test1_close_then_rename.c` renames without a sync;
  even where the data is synced the name is not. The "size of the file we want in
  bytes" (`aio_listio_test.cc:58`) is not what `aio_listio_test` leaves: 524288 blocks
  are not a multiple of 18 and it writes 524304, and with `O_APPEND` and no `O_TRUNC` a
  second run of either `.cc` program adds to the file. `FileLength` states the lengths
  they really leave.
* mwait: after a spurious return the store may come between `Done` and the test of
  `WaitLocation`, and the latency printed is negative; a later update may stamp
  `UpdateTime` before it is read, and the latency printed is too small.
* shmadv: an error path removes the segment of its own call and leaves the other; a
  memset that starts in the last blocks goes past the end of the segment; `test2`
  may get, or remove, the segment of `shm_copy`.
* libproc: `gordon` prints an address that was never assigned if `Pobject_iter`
  returns -1; `proctest` counts the executable's functions for an object without a
  name; two tools pass a NULL handle on after a failed `Pgrab_file` and never
  free a good one; `demangle_result` is never assigned.
* Utility: `round_robin` with a `maxValue` of 2^w always returns 0.

## 8. Proofs

Every safety property of section 7 is proved with TLAPS for every value of the
constants, from the named assumptions of the modules. TLC also finds each inductive
invariant true on the instance of its run.

| Module | Theorem | States |
|---|---|---|
| `PipeProofs` | `PipeInvariance` | `PipeInv` |
| | `TypeCorrect`, `UnreadDataSafe`, `PopSafe`, `RoomForWrites` | `TypeOK`, `UnreadIntact`, `PopIntact`, `WritesOnlyIfRoom` |
| | `FullIsExact`, `WritesAreAnnounced` | `IsFullExact`, the action property `WritesAnnounced` |
| | `EmptyIsNeverFull` | an element up to `MAX_PIPE_ELEMENT_SIZE` fits into an empty pipe wherever its pointers stand: the comment on that constant |
| `QueueProofs` | `PipeRefinesQueue` | `RefinesQueue`: `LocklessPipe` implements `PipeQueue` |
| `CallerProofs` | `ValidateIsSound`, `CountersNeverCross`, `CountIsSane` | `NoFalseAlarm`, `CountersInOrder`, `CountNotNegative` of `PipeMonitor` |
| | `TimeoutNotEarly` | `NoEarlyTimeout` of `PipeWait` |
| `AioProofs` | `AioTypeCorrect`, `ReturnSafe`, `WritesCounted`, `BatchCountersAgree` | `TypeOK`, `ReturnMeansWritten`, `EveryWriteCounted`, `BatchCounterAgrees` |
| `WriteProofs` | `CompletedListsCounted`, `RenamedIsWritten` | `ListsCounted`, `RenamedMeansWritten`, both of `WriteSpec` |
| `DurableProofs` | `SyncedBlocksSurvive`, `WritesCompleteAtClose`, `FileHasItsLength` | `SyncedSurvives`, `CompleteAtClose`, `FileLength` |
| `MWaitProofs` | `StoreNotMissed`, `LatencyIsOfUpdate` | `NoMissedStore`, the action property `LatencyOfUpdate` |
| `ProgramProofs` | `ReadIsFresh`, `ElementsAnnounced`, `CountersStayInStep` | `FreshRead`, `AnnouncedFirst`, `CountersInStep` of `PipeFences` |
| | `AddressIsRecorded`, `CountIsOfObject` | `FoundMeansRecorded`, `FunctionsCounted` of `ProcTools` |
| | `WhatIsPrefix`, `BitsAreTheSet` | `MessageIsPrefix`, `BitmapIsSet` of `Support` |
| | `LeftoversExplained` | `LeftoverExplained` of `ShmPrograms` |

The theorems of `ProgramProofs` are about each component's own specification
(`Spec` of `PipeFences`, `ToolSpec`, `SupportSpec`, `ShmSpec`); run `programs` checks
the same next-state relations, one of them in each behaviour.

Assumptions. `GeometryAssumption`: half of the pipe holds a header and one byte
more, and one and a half pipes are still a `uint32_t`; the code checks neither, and a
smaller pipe would make `MAX_PIPE_ELEMENT_SIZE` wrap. The others
(`PipeAssumption`, `AioAssumption`, `FencesAssumption`, `SupportAssumption` and so on)
give types and name the programs and platforms there are.

### The pipe

`UnreadIntact` alone is not inductive: that a write misses an unread byte depends
on where the other elements lie. `PipeInv` says that they form a chain (`Chain`):
the first starts at `readVPtr_`, each starts where the one before ends, the last
ends at `writeVPtr_`, all in push order (`Order`), and `writeVPtr_` is less than a
lap ahead of `readVPtr_` (`InWindow`). The geometry lemmas turn that into bytes:
elements of the chain lie in the arc from the read to the write pointer
(`UnreadInArc`), and if isFull says no, the new element lies off that arc and keeps
the window (`RoomIsOffArc`). isFull's answer may be old when it is used;
`RoomStable` says that room stays when the reader moves on, so `WriterOK` can carry
it through the push. `ReaderOK` says that a pop in progress works on the first
element of the chain. There is one lemma per action, and `StepInv` collects them.

`FullIsExact` needs the other direction too: when isFull says yes, no layout is
possible (`FullMeansNoFit`), case by case of its nested tests. `WritesAreAnnounced`
follows from `FootprintAnnounced`: header and data of the push in progress lie
between `writeVPtr_` and `nextWriteVPtr_`.

Refinement. `InOrder` reads the queue off the headers in `buf`: they are those of
the elements consumed + 1, consumed + 2 and so on, because unread bytes are intact.
`used` is the distance of the two pointers less `Skipped`; `SkippedIs` shows that at
most one element goes around the end, so that what it wastes is well defined.
`WritePublish` is then a `Push` of the queue, whose bound is `InWindow`,
`ReadRelease` a `Pop`, and every other step a stutter (`QuietStep`).

Observers. `MonitorInv` adds to `PipeInv` what the observer has loaded and how it
stands to what it will load: in the reader's or the writer's thread that side stands
still and the other one only moves on (`OwnSideStill`), in a third thread only the
counters stay in order. `TimerInv` says that the distance to the deadline and the
time really spent add up to at least the timeout until somebody sets the clock
forward.

Fences. `FencesSuffice` is the part about `membar.h`: on each of its five branches
`MF_write_sync`, or the processor by itself, keeps store-store and load-store pairs,
`MF_read_sync` load-load pairs. `PushOrder` and `ReadOrder` derive from it which
accesses of one element are ordered. `FencesInv` says that what has been performed
is closed under the order (`Closed`), that a pointer or counter is the last element
stored to it and all before it have been (`MembersOK`), that a slot holds the last
element stored into it (`StoresOK`), and that passed tests stay passed (`TestsOK`).
A load finds its element because the element has been stored, and the next one of
that slot, a whole ring later (`RingApart`), is let in only by a `readVPtr_` that is
stored behind the load (`LoadBufferFinds`). For `CountersStayInStep` the memory is not
enough, because `validate` loads at two moments: `SeenInv` says that what it loaded of
`numRead_` is not more than `numRead_` is now, which only grows (`StoreGrows`), and not
more than the `numWritten_` it loads after it.

### The write tests

`AioInv` has types, the balance of writes, the owner of the mutex, and why
sig_thread may have left its loop (`ExitMeansDone`). `BatchInv` follows the counter
that is kept outside the mutex through the steps in which the two differ by one or by
a whole batch. `LioInv` counts the complete lists, for any limit of the kernel, so
that it holds under a bad descriptor too; `WriteInv` adds what is known of each test
while it runs and once it is over (`DriverOK`). `DurableInv` says where the blocks are
that the kernel has taken (`BlocksOK`), and what each program has synced (`SyncOK`) or
waited for (`CompleteOK`) at each step; `SizeOK` follows offset and length, for any old
file, and the whole lists in flight.

### The others

`MWaitInv`: a stamp for each update begun and one store behind it (`WakerOK`), and
what the wakee compares with is not newer than the word, and older once a store has
ended the wait (`WakeeOK`). `StampsOK` adds that no stamp is later than `UpdateTime`, so
that the stamp of a later update can only make the latency smaller. `ShmInv`: an id comes from the process's own shmget and is
invalid once the process is past its IPC_RMID (`IdsOK`); a valid segment belongs to a
process that runs or has failed (`OwnedOK`), which is what makes `LeftoverExplained`
inductive. `GordonInv` says that every match before the current object had no copy and
that the address is assigned together with the result 1; `CountInv` that the count is
that of the symbols walked so far, of the object `Walked` names.
`MessageInv` says what every byte of `message_` is; `StreamAppends` shows that
strlen, strncpy and the last byte together append what still fits. `BitmapInv` rests on
`OrSets` and `AndNotClears`: setting or clearing a mask changes no other bit of the
byte.

### Only model-checked

The liveness properties: `PushReturns`, `StopReleasesWriter`, `ElementsDelivered`,
`TimedWaitEnds`, `SigThreadExits`, `ListsReported`, `ProgramEnds`,
`Terminates`. They need fairness and ENABLED, which the prover does not have. The
four properties that are violated are, of course, not theorems.

## 9. Not modelled

* `percentFull` and `print` of the pipe: arithmetic and formatting on the loads
  `PipeMonitor` already has.
* A pipe too small for `MAX_PIPE_ELEMENT_SIZE`, or too large for `uint32_t` sums:
  excluded by `GeometryAssumption`; the code checks neither.
* `stopReader`, which does not compile (section 3), and with it the branches for a
  stopped reader.
* A timeout so large that the `uint64_t` sum of line 517 wraps.
* Stores that reach different threads at different moments (POWER): the pipe has one
  thread on each side, and of a third thread no claim is made on POWER.
* `round_robin`, `align_up`, `random_at_most`, the lock macros of `membar.h`: no caller
  in the repository, no state. `Atom.hh`, which the pipe includes: it defines no `Atom<>`.
* What is in the write buffers (`buffer_initialize`), and options that are missing.
* `aio_signal_test`, which does not compile, and `aio_portevent_test`, which is a
  comment without code.
* The shared memory heap, libelf, message queue, name service and resource control
  experiments: single calls and scripts, without state of their own.
* `libproc.h`: a header of the operating system.
