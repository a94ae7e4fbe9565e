------------------------------ MODULE AioWrite ------------------------------
(***************************************************************************)
(* The aio_write test of async_to_sync_writes/aio_write_test.c: the main   *)
(* thread submits batches of max_aios writes and waits on a condition      *)
(* variable, sig_thread takes one queued signal per completed write, and   *)
(* the kernel completes writes in any order.                               *)
(*                                                                         *)
(* The mutex and the condition variable are modelled by what POSIX says of *)
(* them: cond_wait releases the mutex and waits in one step, takes the     *)
(* mutex again before it returns, and may return without a signal.  The    *)
(* pthread calls themselves do not fail; sigwaitinfo fails with EINTR at   *)
(* most, upon which sig_thread calls it again.                             *)
(***************************************************************************)
EXTENDS Integers

CONSTANTS
  filesize, blocksize,  \* arguments of aio_write_test
  max_aios,             \* sysconf(_SC_AIO_MAX), or 512 if there is no limit
  AioLimit,             \* writes in flight at which aio_write fails with EAGAIN
  IOErrors,             \* whether a write may complete with an error
  StopSignals           \* whether MYSIG_STOP may be sent to the process

ASSUME AioAssumption ==
  /\ filesize \in Nat
  /\ blocksize \in Nat \ {0}
  /\ max_aios \in Nat \ {0}
  /\ AioLimit \in Nat
  /\ IOErrors \in BOOLEAN
  /\ StopSignals \in BOOLEAN

iterations == filesize \div blocksize

VARIABLES
  i, j,              \* loop counters of aio_write_test
  mpc,               \* the main thread's next step
  spc,               \* sig_thread's next step
  mutex,             \* owner of central_global_data.mutex
  ios_completed_per_batch, total_ios_completed,
  inflight,          \* kernel: writes accepted and not completed
  queuedOk,          \* kernel: MYSIG_AIO_COMPLETE signals queued, write done
  queuedErr,         \* kernel: the same, write failed
  accepted,          \* ghost: writes aio_write accepted
  stop,              \* MYSIG_STOP: "none", "pending" or "taken"
  running            \* FALSE once exit(9) has ended the process

loops  == <<i, j>>
totals == <<ios_completed_per_batch, total_ios_completed>>
kernel == <<inflight, queuedOk, queuedErr>>
rest   == <<accepted, stop, running>>
vars   == <<loops, mpc, spc, mutex, totals, kernel, rest>>

Init ==
  /\ i = 0 /\ j = 0 /\ mpc = "for" /\ spc = "sigwaitinfo" /\ mutex = "free"
  /\ ios_completed_per_batch = 0 /\ total_ios_completed = 0
  /\ inflight = 0 /\ queuedOk = 0 /\ queuedErr = 0
  /\ accepted = 0 /\ stop = "none" /\ running = TRUE

-----------------------------------------------------------------------------
(* The main thread.                                                        *)

\* for (int i = 0; i < iterations; i += max_aios)
MainFor ==
  /\ mpc = "for"
  /\ mpc' = IF i < iterations THEN "submit" ELSE "join"
  /\ j' = 0
  /\ UNCHANGED <<i, spc, mutex, totals, kernel, rest>>

\* One aio_write of the batch, accepted or (perror only) not.
MainSubmit ==
  /\ mpc = "submit"
  /\ j' = j + 1
  /\ mpc' = IF j' < max_aios THEN "submit" ELSE "lock"
  /\ \/ /\ inflight < AioLimit
        /\ inflight' = inflight + 1 /\ accepted' = accepted + 1
     \/ /\ inflight >= AioLimit
        /\ UNCHANGED <<inflight, accepted>>
  /\ UNCHANGED <<i, spc, mutex, totals, queuedOk, queuedErr, stop, running>>

MainLock ==
  /\ mpc = "lock"
  /\ mutex = "free"
  /\ mutex' = "main" /\ mpc' = "test"
  /\ UNCHANGED <<loops, spc, totals, kernel, rest>>

\* while (total_ios_completed % max_aios == 0) pthread_cond_wait(...)
MainTest ==
  /\ mpc = "test"
  /\ IF total_ios_completed % max_aios = 0
     THEN mpc' = "wait" /\ mutex' = "free"
     ELSE mpc' = "unlock" /\ UNCHANGED mutex
  /\ UNCHANGED <<loops, spc, totals, kernel, rest>>

\* pthread_cond_wait may return without a signal.
MainSpuriousWakeup ==
  /\ mpc = "wait"
  /\ mpc' = "woken"
  /\ UNCHANGED <<loops, spc, mutex, totals, kernel, rest>>

\* pthread_cond_wait takes the mutex before it returns.
MainReacquire ==
  /\ mpc = "woken"
  /\ mutex = "free"
  /\ mutex' = "main" /\ mpc' = "test"
  /\ UNCHANGED <<loops, spc, totals, kernel, rest>>

MainUnlock ==
  /\ mpc = "unlock"
  /\ mutex' = "free"
  /\ i' = i + max_aios /\ mpc' = "for"
  /\ UNCHANGED <<j, spc, totals, kernel, rest>>

\* pthread_join(tid,NULL), and aio_write_test returns to main's rename.
MainJoin ==
  /\ mpc = "join"
  /\ spc = "exited"
  /\ mpc' = "returned"
  /\ UNCHANGED <<loops, spc, mutex, totals, kernel, rest>>

-----------------------------------------------------------------------------
(* The kernel.                                                             *)

\* A write completes and its signal is queued.
Complete ==
  /\ inflight > 0
  /\ inflight' = inflight - 1
  /\ \/ queuedOk' = queuedOk + 1 /\ UNCHANGED queuedErr
     \/ IOErrors /\ queuedErr' = queuedErr + 1 /\ UNCHANGED queuedOk
  /\ UNCHANGED <<loops, mpc, spc, mutex, totals, rest>>

SendStop ==
  /\ StopSignals /\ stop = "none"
  /\ stop' = "pending"
  /\ UNCHANGED <<loops, mpc, spc, mutex, totals, kernel, accepted, running>>

-----------------------------------------------------------------------------
(* sig_thread.                                                             *)

\* Mutant: sigwaitinfo is not waited for.
SigCompleteUnasked ==
  /\ spc = "sigwaitinfo"
  /\ queuedOk' = queuedOk - 1
  /\ ios_completed_per_batch' = ios_completed_per_batch + 1
  /\ spc' = "lock"
  /\ UNCHANGED <<loops, mpc, mutex, total_ios_completed, inflight, queuedErr, rest>>

\* sigwaitinfo takes a MYSIG_AIO_COMPLETE; aio_error and aio_return are fine.
SigComplete ==
  /\ spc = "sigwaitinfo"
  /\ queuedOk > 0
  /\ queuedOk' = queuedOk - 1
  /\ ios_completed_per_batch' = ios_completed_per_batch + 1
  /\ spc' = "lock"
  /\ UNCHANGED <<loops, mpc, mutex, total_ios_completed, inflight, queuedErr, rest>>

\* aio_return is negative: exit(9).
SigFailed ==
  /\ spc = "sigwaitinfo"
  /\ queuedErr > 0
  /\ queuedErr' = queuedErr - 1
  /\ running' = FALSE
  /\ UNCHANGED <<loops, mpc, spc, mutex, totals, inflight, queuedOk, accepted, stop>>

\* MYSIG_STOP, which is queued behind every MYSIG_AIO_COMPLETE: the lowest
\* signal number is taken first.
SigStop ==
  /\ spc = "sigwaitinfo"
  /\ stop = "pending" /\ queuedOk = 0 /\ queuedErr = 0
  /\ stop' = "taken" /\ spc' = "exited"
  /\ UNCHANGED <<loops, mpc, mutex, totals, kernel, accepted, running>>

SigLock ==
  /\ spc = "lock"
  /\ mutex = "free"
  /\ mutex' = "sig" /\ spc' = "increment"
  /\ UNCHANGED <<loops, mpc, totals, kernel, rest>>

\* Mutant: a whole batch is counted for each completion.
SigIncrementByBatch ==
  /\ spc = "increment"
  /\ total_ios_completed' = total_ios_completed + max_aios
  /\ spc' = "unlock"
  /\ UNCHANGED <<loops, mpc, mutex, ios_completed_per_batch, kernel, rest>>

SigIncrement ==
  /\ spc = "increment"
  /\ total_ios_completed' = total_ios_completed + 1
  /\ spc' = "unlock"
  /\ UNCHANGED <<loops, mpc, mutex, ios_completed_per_batch, kernel, rest>>

SigUnlock ==
  /\ spc = "unlock"
  /\ mutex' = "free" /\ spc' = "batch"
  /\ UNCHANGED <<loops, mpc, totals, kernel, rest>>

\* pthread_cond_signal: wakes the main thread if it waits, else is lost.
Signal == mpc' = IF mpc = "wait" THEN "woken" ELSE mpc

\* Mutant: the batch counter keeps on counting.
SigBatchNoReset ==
  /\ spc = "batch"
  /\ IF ios_completed_per_batch >= max_aios THEN Signal ELSE UNCHANGED mpc
  /\ spc' = "needed"
  /\ UNCHANGED <<loops, mutex, totals, kernel, rest>>

\* A batch is complete: reset its counter and signal, without the mutex.
SigBatch ==
  /\ spc = "batch"
  /\ IF ios_completed_per_batch >= max_aios
     THEN ios_completed_per_batch' = 0 /\ Signal
     ELSE UNCHANGED <<ios_completed_per_batch, mpc>>
  /\ spc' = "needed"
  /\ UNCHANGED <<loops, mutex, total_ios_completed, kernel, rest>>

\* Mutant: one completion too early.
SigNeededEarly ==
  /\ spc = "needed"
  /\ spc' = IF total_ios_completed + 1 >= iterations THEN "final_lock" ELSE "sigwaitinfo"
  /\ UNCHANGED <<loops, mpc, mutex, totals, kernel, rest>>

\* Mutant: > for >=.
SigNeededLate ==
  /\ spc = "needed"
  /\ spc' = IF total_ios_completed > iterations THEN "final_lock" ELSE "sigwaitinfo"
  /\ UNCHANGED <<loops, mpc, mutex, totals, kernel, rest>>

\* if (total_ios_completed >= total_ios_needed) break;
SigNeeded ==
  /\ spc = "needed"
  /\ spc' = IF total_ios_completed >= iterations THEN "final_lock" ELSE "sigwaitinfo"
  /\ UNCHANGED <<loops, mpc, mutex, totals, kernel, rest>>

SigFinalLock ==
  /\ spc = "final_lock"
  /\ mutex = "free"
  /\ mutex' = "sig" /\ spc' = "final_signal"
  /\ UNCHANGED <<loops, mpc, totals, kernel, rest>>

SigFinalSignal ==
  /\ spc = "final_signal"
  /\ Signal
  /\ spc' = "final_unlock"
  /\ UNCHANGED <<loops, mutex, totals, kernel, rest>>

SigFinalUnlock ==
  /\ spc = "final_unlock"
  /\ mutex' = "free" /\ spc' = "exited"
  /\ UNCHANGED <<loops, mpc, totals, kernel, rest>>

-----------------------------------------------------------------------------
MainStep ==
  /\ running
  /\ \/ MainFor \/ MainSubmit \/ MainLock \/ MainTest \/ MainReacquire
     \/ MainUnlock \/ MainJoin

SigStep ==
  /\ running
  /\ \/ SigComplete \/ SigFailed \/ SigStop \/ SigLock \/ SigIncrement \/ SigUnlock
     \/ SigBatch \/ SigNeeded \/ SigFinalLock \/ SigFinalSignal \/ SigFinalUnlock

Environment == running /\ (Complete \/ SendStop \/ MainSpuriousWakeup)

Next == MainStep \/ SigStep \/ Environment

\* Both threads are scheduled, neither starves on the mutex, and an accepted
\* write completes.
Fairness ==
  /\ WF_vars(running /\ (MainFor \/ MainSubmit \/ MainTest \/ MainUnlock \/ MainJoin))
  /\ SF_vars(running /\ (MainLock \/ MainReacquire))
  /\ WF_vars(running /\ (SigComplete \/ SigFailed \/ SigStop \/ SigIncrement \/ SigUnlock
                          \/ SigBatch \/ SigNeeded \/ SigFinalSignal \/ SigFinalUnlock))
  /\ SF_vars(running /\ (SigLock \/ SigFinalLock))
  /\ WF_vars(running /\ Complete)

Spec     == Init /\ [][Next]_vars
FairSpec == Spec /\ Fairness

-----------------------------------------------------------------------------
(* Correctness.                                                            *)

\* Type invariant.
TypeOK ==
  /\ i \in Nat /\ j \in Nat
  /\ mpc \in {"for", "submit", "lock", "test", "wait", "woken", "unlock", "join", "returned"}
  /\ spc \in {"sigwaitinfo", "lock", "increment", "unlock", "batch", "needed",
              "final_lock", "final_signal", "final_unlock", "exited"}
  /\ mutex \in {"free", "main", "sig"}
  /\ ios_completed_per_batch \in Nat /\ total_ios_completed \in Nat
  /\ inflight \in Nat /\ queuedOk \in Nat /\ queuedErr \in Nat /\ accepted \in Nat
  /\ stop \in {"none", "pending", "taken"} /\ running \in BOOLEAN

\* aio_write_test returns, and main goes on to rename the file, only when
\* the completions of the file's blocks have been counted; unless the process
\* was sent MYSIG_STOP.
ReturnMeansWritten ==
  (mpc = "returned" /\ stop # "taken") => total_ios_completed >= iterations

\* Every accepted write is in the kernel, in a queued signal, in sig_thread's
\* hands or counted in total_ios_completed exactly once, whatever the threads
\* are doing.
EveryWriteCounted ==
  running =>
    accepted = inflight + queuedOk + queuedErr + total_ios_completed
                 + (IF spc \in {"lock", "increment"} THEN 1 ELSE 0)

\* The two counters of sig_thread, one under the mutex and one not, agree on
\* how far the current batch is whenever it waits for a signal.
BatchCounterAgrees ==
  spc = "sigwaitinfo" => ios_completed_per_batch = total_ios_completed % max_aios

\* The mutex protects what it should: at most one thread is between lock and
\* unlock, and its owner is that thread.
MutexHeld ==
  /\ mutex = "main" <=> mpc \in {"test", "unlock"}
  /\ mutex = "sig" <=> spc \in {"increment", "unlock", "final_signal", "final_unlock"}

\* "Note when the signal handling thread can exit": once enough writes have
\* been accepted it does, even if the main thread never wakes up again.
SigThreadExits ==
  (accepted >= iterations /\ iterations > 0) ~> (spc = "exited" \/ ~running)

\* "Join with the I/O handling thread when we're done": the test ends.
TestReturns == <>(mpc = "returned" \/ ~running)
=============================================================================
