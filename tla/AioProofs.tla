----------------------------- MODULE AioProofs -----------------------------
(***************************************************************************)
(* The safety of the aio_write test for every file size, block size, batch *)
(* size and limit of the kernel.                                           *)
(***************************************************************************)
EXTENDS AioWrite, TLAPS

\* sig_thread leaves its loop, and the main thread its join, for a reason.
ExitMeansDone ==
  /\ (spc \in {"final_lock", "final_signal", "final_unlock", "exited"} /\ stop # "taken")
       => total_ios_completed >= iterations
  /\ mpc = "returned" => spc = "exited"

\* The inductive invariant.
AioInv == TypeOK /\ EveryWriteCounted /\ MutexHeld /\ ExitMeansDone

\* total_ios_needed is a natural number.
LEMMA IterationsNat == iterations \in Nat
  BY AioAssumption DEF iterations

\* Nothing is submitted, counted or locked when sig_thread starts.
LEMMA AioInit == Init => AioInv
  BY IterationsNat DEF Init, AioInv, TypeOK, EveryWriteCounted, MutexHeld, ExitMeansDone

\* Every step of the main thread preserves the invariant.
LEMMA AioMain == ASSUME AioInv, MainStep PROVE AioInv'
<1> USE DEF loops, totals, kernel, rest
<1>0. /\ i \in Nat /\ j \in Nat /\ inflight \in Nat /\ accepted \in Nat
      /\ queuedOk \in Nat /\ queuedErr \in Nat
      /\ ios_completed_per_batch \in Nat /\ total_ios_completed \in Nat
  BY DEF AioInv, TypeOK
<1>a. /\ j' = j \/ j' = 0 \/ j' = j + 1
      /\ i' = i \/ i' = i + max_aios
      /\ \/ inflight' = inflight /\ accepted' = accepted
         \/ inflight' = inflight + 1 /\ accepted' = accepted + 1
      /\ UNCHANGED <<spc, totals, queuedOk, queuedErr, running>>
  BY Zenon DEF MainStep, MainFor, MainSubmit, MainLock, MainTest, MainReacquire, MainUnlock, MainJoin
<1>1. TypeOK'
  <2>1. j' \in Nat /\ i' \in Nat /\ inflight' \in Nat /\ accepted' \in Nat
    BY <1>0, <1>a, AioAssumption
  <2>2. /\ mpc' \in {"for", "submit", "lock", "test", "wait", "woken", "unlock", "join", "returned"}
        /\ mutex' \in {"free", "main", "sig"}
        /\ UNCHANGED <<spc, totals, queuedOk, queuedErr, stop, running>>
    BY DEF AioInv, TypeOK, MainStep, MainFor, MainSubmit, MainLock, MainTest, MainReacquire,
           MainUnlock, MainJoin
  <2>3. QED
    BY <2>1, <2>2 DEF AioInv, TypeOK
<1>2. EveryWriteCounted'
  BY <1>0, <1>a DEF AioInv, EveryWriteCounted
<1>3. MutexHeld'
  BY DEF AioInv, TypeOK, MutexHeld, MainStep, MainFor, MainSubmit, MainLock, MainTest,
         MainReacquire, MainUnlock, MainJoin
<1>4. ExitMeansDone'
  BY DEF AioInv, ExitMeansDone, MainStep, MainFor, MainSubmit, MainLock, MainTest,
         MainReacquire, MainUnlock, MainJoin
<1>5. QED
  BY <1>1, <1>2, <1>3, <1>4 DEF AioInv

\* Every step of sig_thread preserves the invariant.
LEMMA AioSig == ASSUME AioInv, SigStep PROVE AioInv'
<1> USE DEF loops, totals, kernel, rest
<1>0. /\ i \in Nat /\ j \in Nat /\ inflight \in Nat /\ accepted \in Nat
      /\ queuedOk \in Nat /\ queuedErr \in Nat
      /\ ios_completed_per_batch \in Nat /\ total_ios_completed \in Nat
  BY DEF AioInv, TypeOK
<1>a. /\ \/ /\ spc = "sigwaitinfo" /\ spc' = "lock"
            /\ queuedOk > 0 /\ queuedOk' = queuedOk - 1
            /\ ios_completed_per_batch' = ios_completed_per_batch + 1
            /\ UNCHANGED <<queuedErr, total_ios_completed, running>>
         \/ /\ queuedErr > 0 /\ queuedErr' = queuedErr - 1 /\ running' = FALSE
            /\ UNCHANGED <<queuedOk, totals>>
         \/ /\ spc = "increment" /\ spc' = "unlock"
            /\ total_ios_completed' = total_ios_completed + 1
            /\ UNCHANGED <<queuedOk, queuedErr, ios_completed_per_batch, running>>
         \/ /\ ios_completed_per_batch' = ios_completed_per_batch \/ ios_completed_per_batch' = 0
            /\ spc' \in {"lock", "increment"} <=> spc \in {"lock", "increment"}
            /\ UNCHANGED <<queuedOk, queuedErr, total_ios_completed, running>>
      /\ UNCHANGED <<inflight, accepted>>
  BY DEF SigStep, SigComplete, SigFailed, SigStop, SigLock, SigIncrement, SigUnlock, SigBatch,
         SigNeeded, SigFinalLock, SigFinalSignal, SigFinalUnlock
<1>1. TypeOK'
  <2>1. /\ ios_completed_per_batch' \in Nat /\ total_ios_completed' \in Nat
        /\ queuedOk' \in Nat /\ queuedErr' \in Nat
    BY <1>0, <1>a
  <2>2. /\ mpc' \in {"for", "submit", "lock", "test", "wait", "woken", "unlock", "join", "returned"}
        /\ spc' \in {"sigwaitinfo", "lock", "increment", "unlock", "batch", "needed",
                     "final_lock", "final_signal", "final_unlock", "exited"}
        /\ mutex' \in {"free", "main", "sig"}
        /\ stop' \in {"none", "pending", "taken"} /\ running' \in BOOLEAN
        /\ UNCHANGED <<i, j, inflight, accepted>>
    BY DEF AioInv, TypeOK, SigStep, SigComplete, SigFailed, SigStop, SigLock, SigIncrement,
           SigUnlock, SigBatch, SigNeeded, SigFinalLock, SigFinalSignal, SigFinalUnlock, Signal
  <2>3. QED
    BY <2>1, <2>2 DEF AioInv, TypeOK
<1>2. EveryWriteCounted'
  <2>1. SUFFICES ASSUME running'
        PROVE  accepted' = inflight' + queuedOk' + queuedErr' + total_ios_completed'
                             + (IF spc' \in {"lock", "increment"} THEN 1 ELSE 0)
    BY DEF EveryWriteCounted
  <2>2. accepted = inflight + queuedOk + queuedErr + total_ios_completed
                     + (IF spc \in {"lock", "increment"} THEN 1 ELSE 0)
    BY DEF AioInv, EveryWriteCounted, SigStep
  <2>3. CASE spc = "sigwaitinfo" /\ spc' = "lock" /\ queuedOk > 0 /\ queuedOk' = queuedOk - 1
             /\ UNCHANGED <<queuedErr, total_ios_completed, inflight, accepted>>
    <3>1. spc \notin {"lock", "increment"} /\ spc' \in {"lock", "increment"}
      BY <2>3
    <3>2. QED
      BY <1>0, <2>2, <2>3, <3>1
  <2>4. CASE spc = "increment" /\ spc' = "unlock" /\ total_ios_completed' = total_ios_completed + 1
             /\ UNCHANGED <<queuedOk, queuedErr, inflight, accepted>>
    <3>1. spc \in {"lock", "increment"} /\ spc' \notin {"lock", "increment"}
      BY <2>4
    <3>2. QED
      BY <1>0, <2>2, <2>4, <3>1
  <2>5. CASE (spc' \in {"lock", "increment"} <=> spc \in {"lock", "increment"})
             /\ UNCHANGED <<queuedOk, queuedErr, total_ios_completed, inflight, accepted>>
    BY <1>0, <2>2, <2>5
  <2>6. QED
    BY <1>a, <2>1, <2>3, <2>4, <2>5
<1>3. MutexHeld'
  BY DEF AioInv, TypeOK, MutexHeld, SigStep, SigComplete, SigFailed, SigStop, SigLock,
         SigIncrement, SigUnlock, SigBatch, SigNeeded, SigFinalLock, SigFinalSignal,
         SigFinalUnlock, Signal
<1>4. ExitMeansDone'
  BY IterationsNat
  DEF AioInv, TypeOK, ExitMeansDone, SigStep, SigComplete, SigFailed, SigStop, SigLock,
      SigIncrement, SigUnlock, SigBatch, SigNeeded, SigFinalLock, SigFinalSignal,
      SigFinalUnlock, Signal
<1>5. QED
  BY <1>1, <1>2, <1>3, <1>4 DEF AioInv

\* So does every step of the kernel, and a wakeup without a signal.
LEMMA AioEnvironment == ASSUME AioInv, Environment PROVE AioInv'
<1> USE DEF loops, totals, kernel, rest
<1>0. /\ i \in Nat /\ j \in Nat /\ inflight \in Nat /\ accepted \in Nat
      /\ queuedOk \in Nat /\ queuedErr \in Nat
      /\ ios_completed_per_batch \in Nat /\ total_ios_completed \in Nat
  BY DEF AioInv, TypeOK
<1>a. /\ \/ /\ inflight > 0 /\ inflight' = inflight - 1
            /\ \/ queuedOk' = queuedOk + 1 /\ queuedErr' = queuedErr
               \/ queuedErr' = queuedErr + 1 /\ queuedOk' = queuedOk
         \/ UNCHANGED kernel
      /\ UNCHANGED <<spc, totals, accepted, running>>
  BY DEF Environment, Complete, SendStop, MainSpuriousWakeup
<1>1. TypeOK'
  <2>1. inflight' \in Nat /\ queuedOk' \in Nat /\ queuedErr' \in Nat
    BY <1>0, <1>a
  <2>2. /\ mpc' \in {"for", "submit", "lock", "test", "wait", "woken", "unlock", "join", "returned"}
        /\ stop' \in {"none", "pending", "taken"}
        /\ UNCHANGED <<i, j, spc, mutex, totals, accepted, running>>
    BY DEF AioInv, TypeOK, Environment, Complete, SendStop, MainSpuriousWakeup
  <2>3. QED
    BY <2>1, <2>2 DEF AioInv, TypeOK
<1>2. EveryWriteCounted'
  BY <1>0, <1>a DEF AioInv, EveryWriteCounted
<1>3. MutexHeld'
  BY DEF AioInv, TypeOK, MutexHeld, Environment, Complete, SendStop, MainSpuriousWakeup
<1>4. ExitMeansDone'
  BY DEF AioInv, TypeOK, ExitMeansDone, Environment, Complete, SendStop, MainSpuriousWakeup
<1>5. QED
  BY <1>1, <1>2, <1>3, <1>4 DEF AioInv

\* The inductive invariant holds in every reachable state.
THEOREM AioInvariance == Spec => []AioInv
<1>1. AioInv /\ [Next]_vars => AioInv'
  <2> SUFFICES ASSUME AioInv, [Next]_vars PROVE AioInv'
    OBVIOUS
  <2>1. CASE UNCHANGED vars
    BY <2>1
    DEF vars, loops, totals, kernel, rest, AioInv, TypeOK, EveryWriteCounted, MutexHeld,
        ExitMeansDone
  <2>2. QED
    BY <2>1, AioMain, AioSig, AioEnvironment DEF Next
<1>2. QED
  BY <1>1, AioInit, PTL DEF Spec

\* aio_write_test returns only when the file's blocks have been counted.
THEOREM ReturnSafe == Spec => []ReturnMeansWritten
<1>1. AioInv => ReturnMeansWritten
  BY DEF AioInv, ExitMeansDone, ReturnMeansWritten
<1>2. QED
  BY <1>1, AioInvariance, PTL

\* No accepted write is lost or counted twice.
THEOREM WritesCounted == Spec => []EveryWriteCounted
<1>1. AioInv => EveryWriteCounted
  BY DEF AioInv
<1>2. QED
  BY <1>1, AioInvariance, PTL

\* Types.
THEOREM AioTypeCorrect == Spec => []TypeOK
<1>1. AioInv => TypeOK
  BY DEF AioInv
<1>2. QED
  BY <1>1, AioInvariance, PTL

-----------------------------------------------------------------------------
(* The two counters of sig_thread: total_ios_completed goes up under the   *)
(* mutex, ios_completed_per_batch without it, and the two are off by one   *)
(* or by a whole batch in between.                                         *)

\* What they are at each step of the loop.
BatchInv ==
  /\ spc \in {"sigwaitinfo", "needed"} =>
       ios_completed_per_batch = total_ios_completed % max_aios
  /\ spc \in {"lock", "increment"} =>
       ios_completed_per_batch = (total_ios_completed % max_aios) + 1
  /\ spc \in {"unlock", "batch"} =>
       ios_completed_per_batch =
         IF total_ios_completed % max_aios = 0
         THEN max_aios ELSE total_ios_completed % max_aios

\* The successor of t, modulo the size of a batch.
LEMMA BatchNext ==
  ASSUME NEW t \in Nat
  PROVE  ((t + 1) % max_aios)
           = IF (t % max_aios) = max_aios - 1 THEN 0 ELSE (t % max_aios) + 1
<1> DEFINE V == max_aios
           q == t \div V
           r == t % V
<1>1. V \in Nat \ {0}
  BY AioAssumption
<1> HIDE DEF V
<1>2. q \in Nat /\ r \in 0 .. (V - 1) /\ t = V * q + r
  BY <1>1
<1> HIDE DEF q, r
<1>3. CASE r = V - 1
  <2>1. t + 1 = V * (q + 1)
    BY <1>1, <1>2, <1>3
  <2>2. (V * (q + 1)) % V = 0
    BY <1>1, <1>2
  <2>3. QED
    BY <1>3, <2>1, <2>2 DEF r, V
<1>4. CASE r # V - 1
  <2>1. t + 1 = V * q + (r + 1) /\ r + 1 \in 0 .. (V - 1)
    BY <1>1, <1>2, <1>4
  <2>2. (V * q + (r + 1)) % V = r + 1
    BY <1>1, <1>2, <2>1
  <2>3. QED
    BY <1>4, <2>1, <2>2 DEF r, V
<1>5. QED
  BY <1>3, <1>4

\* sig_thread's loop keeps the two counters in step.
LEMMA BatchStep == AioInv /\ BatchInv /\ [Next]_vars => BatchInv'
<1> SUFFICES ASSUME AioInv, BatchInv, [Next]_vars PROVE BatchInv'
  OBVIOUS
<1> USE DEF loops, totals, kernel, rest
<1> DEFINE t == total_ios_completed
           b == ios_completed_per_batch
           m == t % max_aios
<1>1. t \in Nat /\ b \in Nat /\ max_aios \in Nat \ {0}
  BY AioAssumption DEF AioInv, TypeOK
<1>2. m \in 0 .. (max_aios - 1)
  BY <1>1
<1>3. CASE SigComplete
  <2>1. spc = "sigwaitinfo" /\ spc' = "lock" /\ b' = b + 1 /\ t' = t
    BY <1>3 DEF SigComplete
  <2>2. b' = m + 1
    BY <2>1 DEF BatchInv
  <2>3. QED
    BY <2>1, <2>2 DEF BatchInv
<1>4. CASE SigIncrement
  <2>1. spc = "increment" /\ spc' = "unlock" /\ t' = t + 1 /\ b' = b /\ b = m + 1
    BY <1>4 DEF SigIncrement, BatchInv
  <2>2. (t' % max_aios) = IF m = max_aios - 1 THEN 0 ELSE m + 1
    BY <1>1, <2>1, BatchNext
  <2>3. b' = IF (t' % max_aios) = 0 THEN max_aios ELSE (t' % max_aios)
    <3> HIDE DEF m
    <3>1. QED
      BY <1>1, <1>2, <2>1, <2>2
  <2>4. QED
    BY <2>1, <2>3 DEF BatchInv
<1>5. CASE SigBatch
  <2>1. /\ spc = "batch" /\ spc' = "needed" /\ t' = t
        /\ b' = IF b >= max_aios THEN 0 ELSE b
        /\ b = IF m = 0 THEN max_aios ELSE m
    BY <1>5 DEF SigBatch, BatchInv
  <2>2. b' = m
    <3> HIDE DEF m
    <3>1. QED
      BY <1>1, <1>2, <2>1
  <2>3. QED
    BY <2>1, <2>2 DEF BatchInv
<1>6. CASE ~(SigComplete \/ SigIncrement \/ SigBatch)
  <2>1. /\ UNCHANGED <<total_ios_completed, ios_completed_per_batch>>
        /\ \/ spc' = spc
           \/ spc = "lock" /\ spc' = "increment"
           \/ spc = "unlock" /\ spc' = "batch"
           \/ spc = "needed" /\ spc' = "sigwaitinfo"
           \/ spc' \in {"final_lock", "final_signal", "final_unlock", "exited"}
    BY <1>6 DEF Next, vars, MainStep, MainFor, MainSubmit, MainLock, MainTest, MainReacquire,
      MainUnlock, MainJoin, SigStep, SigFailed, SigStop, SigLock, SigUnlock, SigNeeded,
      SigFinalLock, SigFinalSignal, SigFinalUnlock, Environment, Complete, SendStop,
      MainSpuriousWakeup
  <2>2. QED
    BY <2>1 DEF BatchInv
<1>7. QED
  BY <1>3, <1>4, <1>5, <1>6

\* When sig_thread waits for a signal the two counters agree, for every
\* number of writes the program may have in flight.
THEOREM BatchCountersAgree == Spec => []BatchCounterAgrees
<1>1. Init => BatchInv
  <2>1. 0 % max_aios = 0
    BY AioAssumption
  <2>2. QED
    BY <2>1 DEF Init, BatchInv
<1>2. BatchInv => BatchCounterAgrees
  BY DEF BatchInv, BatchCounterAgrees
<1>3. QED
  BY <1>1, <1>2, BatchStep, AioInvariance, PTL DEF Spec
=============================================================================
