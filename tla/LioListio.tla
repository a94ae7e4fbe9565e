----------------------------- MODULE LioListio -----------------------------
(***************************************************************************)
(* The lio_listio test of async_to_sync_writes/lio_listio_test.c: the main *)
(* thread submits lists of aio_listio_max writes with LIO_NOWAIT, sleeps   *)
(* for two seconds, frees the control blocks and goes on; sig_thread takes *)
(* one signal per completed list.                                          *)
(*                                                                         *)
(* The sleep is a step: any number of writes may complete in it, or none.  *)
(***************************************************************************)
EXTENDS Integers, Sequences, FiniteSetsExt

CONSTANTS
  filesize, blocksize,  \* arguments of lio_listio_test
  aio_listio_max,       \* sysconf(_SC_AIO_LISTIO_MAX)
  AioLimit,             \* writes in flight at which the kernel takes no more
  IOErrors,             \* whether a write may complete with an error
  StopSignals           \* whether MYSIG_STOP may be sent to the process

ASSUME LioAssumption ==
  /\ filesize \in Nat
  /\ blocksize \in Nat \ {0}
  /\ aio_listio_max \in Nat \ {0}
  /\ AioLimit \in Nat
  /\ IOErrors \in BOOLEAN
  /\ StopSignals \in BOOLEAN

iterations == filesize \div blocksize

VARIABLES
  i,        \* loop counter
  mpc,      \* the main thread's next step
  spc,      \* sig_thread's next step
  lists,    \* the lists submitted: writes left, whether a signal is due when
            \* none is left, and whether the control blocks are allocated
  pending,  \* kernel: MYSIG_AIO_COMPLETE signals queued
  count,    \* sig_thread's count
  written,  \* blocks in the file
  stop      \* MYSIG_STOP: "none", "pending" or "taken"

vars == <<i, mpc, spc, lists, pending, count, written, stop>>

Init ==
  /\ i = 0 /\ mpc = "for" /\ spc = "sigwaitinfo"
  /\ lists = <<>> /\ pending = 0 /\ count = 0 /\ written = 0
  /\ stop = "none"

-----------------------------------------------------------------------------
InFlight == MapThenSumSet(LAMBDA b : lists[b].left, DOMAIN lists)

\* for (int i = 0; i < iterations; i += aio_listio_max)
LioFor ==
  /\ mpc = "for"
  /\ mpc' = IF i < iterations THEN "submit" ELSE "join"
  /\ UNCHANGED <<i, spc, lists, pending, count, written, stop>>

\* Allocate the control blocks and submit them.  A kernel with room for limit
\* writes takes all of them; one with less fails the call and takes some, and
\* POSIX does not say whether it signals for those.
LioSubmit(limit) ==
  /\ mpc = "submit"
  /\ mpc' = "sleep"
  /\ \E n \in 0 .. aio_listio_max, notify \in BOOLEAN :
       /\ InFlight + n <= limit
       /\ n = aio_listio_max => notify
       /\ n < aio_listio_max => InFlight + aio_listio_max > limit
       /\ lists' = Append(lists, [left |-> n, notify |-> notify /\ n > 0, allocated |-> TRUE])
  /\ UNCHANGED <<i, spc, pending, count, written, stop>>

\* sleep(2); a failed lio_listio is only reported.
LioSleep ==
  /\ mpc = "sleep"
  /\ mpc' = "free"
  /\ UNCHANGED <<i, spc, lists, pending, count, written, stop>>

\* free(control_blocks[i]) for the whole list.
LioFree ==
  /\ mpc = "free"
  /\ lists' = [lists EXCEPT ![Len(lists)].allocated = FALSE]
  /\ i' = i + aio_listio_max /\ mpc' = "for"
  /\ UNCHANGED <<spc, pending, count, written, stop>>

LioJoin ==
  /\ mpc = "join"
  /\ spc = "exited"
  /\ mpc' = "returned"
  /\ UNCHANGED <<i, spc, lists, pending, count, written, stop>>

-----------------------------------------------------------------------------
\* Mutant: a signal for every write, not for the list.
LioCompleteEach(b) ==
  /\ lists[b].left > 0
  /\ lists' = [lists EXCEPT ![b].left = @ - 1]
  /\ pending' = IF lists[b].notify THEN pending + 1 ELSE pending
  /\ \/ written' = written + 1
     \/ IOErrors /\ UNCHANGED written
  /\ UNCHANGED <<i, mpc, spc, count, stop>>

\* The kernel completes a write of list b; with the last one the signal is due.
LioComplete(b) ==
  /\ lists[b].left > 0
  /\ lists' = [lists EXCEPT ![b].left = @ - 1]
  /\ pending' = IF lists[b].left = 1 /\ lists[b].notify THEN pending + 1 ELSE pending
  /\ \/ written' = written + 1
     \/ IOErrors /\ UNCHANGED written
  /\ UNCHANGED <<i, mpc, spc, count, stop>>

LioSendStop ==
  /\ StopSignals /\ stop = "none"
  /\ stop' = "pending"
  /\ UNCHANGED <<i, mpc, spc, lists, pending, count, written>>

\* Mutant: sig_thread ends with the first list.
LioSigCompleteOnce ==
  /\ spc = "sigwaitinfo"
  /\ pending > 0
  /\ pending' = pending - 1 /\ count' = count + 1
  /\ spc' = "exited"
  /\ UNCHANGED <<i, mpc, lists, written, stop>>

\* sigwaitinfo takes a MYSIG_AIO_COMPLETE.
LioSigComplete ==
  /\ spc = "sigwaitinfo"
  /\ pending > 0
  /\ pending' = pending - 1 /\ count' = count + 1
  /\ UNCHANGED <<i, mpc, spc, lists, written, stop>>

\* MYSIG_STOP, the higher signal number, is taken last.
LioSigStop ==
  /\ spc = "sigwaitinfo"
  /\ stop = "pending" /\ pending = 0
  /\ stop' = "taken" /\ spc' = "exited"
  /\ UNCHANGED <<i, mpc, lists, pending, count, written>>

-----------------------------------------------------------------------------
LioKernel == \E b \in DOMAIN lists : LioComplete(b)
LioSig    == LioSigComplete \/ LioSigStop

LioStep(limit) ==
  \/ LioFor \/ LioSubmit(limit) \/ LioSleep \/ LioFree \/ LioJoin
  \/ LioKernel \/ LioSendStop \/ LioSig

Next == LioStep(AioLimit)
Spec == Init /\ [][Next]_vars

-----------------------------------------------------------------------------
(* Correctness.                                                            *)

Reported == {b \in DOMAIN lists : lists[b].notify}

\* "just get one signal when they're all done": the completed lists are those
\* sig_thread has counted and those whose signal it has still to take, however
\* many lists are in flight together.
ListsCounted ==
  Cardinality({b \in Reported : lists[b].left = 0}) = count + pending

\* Every list the kernel has accepted is counted in the end, unless somebody
\* stops sig_thread.
ListsReported ==
  \A b \in 1 .. iterations :
    (b \in Reported) ~> (count >= Cardinality(Reported) \/ stop # "none")

\* The comment before the sleep: wait for the I/O completion handling thread
\* to continue on.  The control blocks are freed when the kernel is done.
BlocksOutliveWrites ==
  \A b \in DOMAIN lists : lists[b].left > 0 => lists[b].allocated
=============================================================================
