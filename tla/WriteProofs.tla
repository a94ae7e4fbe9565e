---------------------------- MODULE WriteProofs ----------------------------
(***************************************************************************)
(* The write-test driver and the lio_listio test: a file is renamed only   *)
(* when it has all its blocks, and every completed list is signalled and   *)
(* counted once, for every size of the file, the blocks and the lists and  *)
(* every limit of the kernel.                                              *)
(***************************************************************************)
EXTENDS WriteTest, FiniteSetTheorems, SequenceTheorems, TLAPS

-----------------------------------------------------------------------------
(* lio_listio: the lists that are complete.                                *)

Completed == {b \in Reported : lists[b].left = 0}

ListRecord == [left : Nat, notify : BOOLEAN, allocated : BOOLEAN]

LioTypes ==
  /\ lists \in Seq(ListRecord)
  /\ pending \in Nat /\ count \in Nat

\* The inductive invariant.
LioInv == LioTypes /\ IsFiniteSet(Completed) /\ ListsCounted

\* No list has been submitted.
LEMMA LioInit == Init => LioInv
<1> SUFFICES ASSUME Init PROVE LioInv
  OBVIOUS
<1>1. lists = <<>> /\ pending = 0 /\ count = 0
  BY DEF Init
<1>2. LioTypes
  BY <1>1 DEF LioTypes
<1>3. Completed = {}
  BY <1>1 DEF Completed, Reported
<1>4. QED
  BY <1>1, <1>2, <1>3, FS_EmptySet DEF LioInv, ListsCounted, Completed

\* A step that completes no list leaves their number alone.
LEMMA SameLists ==
  ASSUME LioInv, LioTypes', Completed' = Completed, count' + pending' = count + pending
  PROVE  LioInv'
<1>1. Cardinality(Completed) = count + pending
  BY DEF LioInv, ListsCounted, Completed
<1>2. Cardinality(Completed') = count' + pending'
  BY <1>1
<1>3. ListsCounted'
  BY <1>2 DEF ListsCounted, Completed
<1>4. QED
  BY <1>3 DEF LioInv

\* The main thread submits a list: it is not complete, or not to be signalled.
LEMMA SubmitInv ==
  ASSUME NEW limit, LioInv, LioSubmit(limit) PROVE LioInv'
<1>1. PICK n \in 0 .. aio_listio_max, notify \in BOOLEAN :
        lists' = Append(lists, [left |-> n, notify |-> notify /\ n > 0, allocated |-> TRUE])
  BY DEF LioSubmit
<1> DEFINE new == [left |-> n, notify |-> notify /\ n > 0, allocated |-> TRUE]
<1>2. n \in Nat
  BY LioAssumption
<1>3. new \in ListRecord
  BY <1>2 DEF ListRecord
<1>4. new.left = n /\ (new.notify => n > 0)
  OBVIOUS
<1> HIDE DEF new
<1>5. UNCHANGED <<pending, count>>
  BY DEF LioSubmit
<1>6. lists \in Seq(ListRecord)
  BY DEF LioInv, LioTypes
<1>7. /\ lists' \in Seq(ListRecord)
      /\ DOMAIN lists = 1 .. Len(lists) /\ DOMAIN lists' = 1 .. (Len(lists) + 1)
      /\ Len(lists) \in Nat
      /\ \A b \in 1 .. Len(lists) : lists'[b] = lists[b]
      /\ lists'[Len(lists) + 1] = new
  BY <1>1, <1>3, <1>6 DEF new
<1>8. LioTypes'
  BY <1>5, <1>7 DEF LioInv, LioTypes
<1>9. Completed' = Completed
  <2>1. ~(new.notify /\ new.left = 0)
    BY <1>2, <1>4
  <2>2. 1 .. (Len(lists) + 1) = (1 .. Len(lists)) \cup {Len(lists) + 1}
    BY <1>7
  <2>3. QED
    BY <1>7, <2>1, <2>2 DEF Completed, Reported
<1>10. QED
  BY <1>5, <1>8, <1>9, SameLists

\* The main thread frees the control blocks of the last list.
LEMMA FreeInv ==
  ASSUME LioInv, LioFree PROVE LioInv'
<1>1. lists' = [lists EXCEPT ![Len(lists)].allocated = FALSE] /\ UNCHANGED <<pending, count>>
  BY DEF LioFree
<1>2. lists \in Seq(ListRecord)
  BY DEF LioInv, LioTypes
<1>3. DOMAIN lists = 1 .. Len(lists) /\ Len(lists) \in Nat
  BY <1>2
<1>4. CASE lists = <<>>
  <2>1. lists' = lists
    BY <1>1, <1>3, <1>4
  <2>2. LioTypes' /\ Completed' = Completed
    BY <1>1, <2>1 DEF LioInv, LioTypes, Completed, Reported
  <2>3. QED
    BY <1>1, <2>2, SameLists
<1>5. CASE lists # <<>>
  <2> DEFINE last == Len(lists)
             new  == [lists[last] EXCEPT !.allocated = FALSE]
  <2>1. last \in 1 .. Len(lists)
    BY <1>2, <1>3, <1>5, EmptySeq
  <2>2. lists' = [lists EXCEPT ![last] = new]
    BY <1>1
  <2>3. lists[last] \in ListRecord
    BY <1>2, <2>1
  <2>4. new \in ListRecord /\ new.left = lists[last].left /\ new.notify = lists[last].notify
    BY <2>3 DEF ListRecord
  <2> HIDE DEF new, last
  <2>5. lists' \in Seq(ListRecord)
    BY <1>2, <2>1, <2>2, <2>4, ExceptSeq
  <2>6. LioTypes'
    BY <1>1, <2>5 DEF LioInv, LioTypes
  <2>7. /\ DOMAIN lists' = DOMAIN lists
        /\ \A b \in DOMAIN lists :
             lists'[b].left = lists[b].left /\ lists'[b].notify = lists[b].notify
    BY <1>3, <2>1, <2>2, <2>4
  <2>8. Completed' = Completed
    BY <2>7 DEF Completed, Reported
  <2>9. QED
    BY <1>1, <2>6, <2>8, SameLists
<1>6. QED
  BY <1>4, <1>5

\* The kernel completes a write: with the last one of a list to be signalled
\* that list is complete and its signal is queued.
LEMMA CompleteInv ==
  ASSUME LioInv, NEW b \in DOMAIN lists, LioComplete(b) PROVE LioInv'
<1>1. /\ lists[b].left > 0 /\ lists' = [lists EXCEPT ![b].left = lists[b].left - 1]
      /\ pending' = IF lists[b].left = 1 /\ lists[b].notify THEN pending + 1 ELSE pending
      /\ count' = count
  BY DEF LioComplete
<1>2. lists \in Seq(ListRecord)
  BY DEF LioInv, LioTypes
<1>3. lists[b] \in ListRecord
  BY <1>2
<1> DEFINE new == [lists[b] EXCEPT !.left = lists[b].left - 1]
<1>a. new \in ListRecord /\ new.left = lists[b].left - 1 /\ new.notify = lists[b].notify
  <2>1. lists[b].left - 1 \in Nat
    BY <1>1, <1>3 DEF ListRecord
  <2>2. QED
    BY <1>3, <2>1 DEF ListRecord
<1>b. lists' = [lists EXCEPT ![b] = new]
  BY <1>1
<1> HIDE DEF new
<1>4. /\ DOMAIN lists' = DOMAIN lists
      /\ \A c \in DOMAIN lists : c # b => lists'[c] = lists[c]
      /\ lists'[b].left = lists[b].left - 1 /\ lists'[b].notify = lists[b].notify
  BY <1>a, <1>b
<1>5. LioTypes'
  <2>1. b \in 1 .. Len(lists)
    BY <1>2
  <2>2. lists' \in Seq(ListRecord)
    BY <1>2, <1>a, <1>b, <2>1, ExceptSeq
  <2>3. pending \in Nat /\ count \in Nat
    BY DEF LioInv, LioTypes
  <2>4. pending' \in Nat
    BY <1>1, <2>3
  <2>5. QED
    BY <1>1, <2>2, <2>3, <2>4 DEF LioTypes
<1>6. CASE lists[b].left = 1 /\ lists[b].notify
  <2>a. lists'[b].left = 0 /\ lists'[b].notify /\ ~(lists[b].left = 0)
    BY <1>4, <1>6
  <2>1. Completed' = Completed \cup {b} /\ b \notin Completed
    BY <1>4, <2>a DEF Completed, Reported
  <2>2. IsFiniteSet(Completed') /\ Cardinality(Completed') = Cardinality(Completed) + 1
    BY <2>1, FS_AddElement DEF LioInv
  <2>3. Cardinality(Completed) = count + pending /\ count \in Nat /\ pending \in Nat
    BY DEF LioInv, LioTypes, ListsCounted, Completed
  <2>4. pending' = pending + 1 /\ count' = count
    BY <1>1, <1>6
  <2>5. Cardinality(Completed') = count' + pending'
    BY <2>2, <2>3, <2>4
  <2>6. QED
    BY <1>5, <2>2, <2>5 DEF LioInv, ListsCounted, Completed
<1>7. CASE ~(lists[b].left = 1 /\ lists[b].notify)
  <2>a. lists[b].left \in Nat /\ lists[b].left > 0
    BY <1>1, <1>3 DEF ListRecord
  <2>b. lists'[b].left = 0 => lists[b].left = 1
    BY <1>4, <2>a
  <2>1. ~(lists'[b].notify /\ lists'[b].left = 0) /\ ~(lists[b].left = 0)
    BY <1>4, <1>7, <2>a, <2>b
  <2>2. Completed' = Completed
    BY <1>4, <2>1 DEF Completed, Reported
  <2>3. pending' = pending /\ count' = count
    BY <1>1, <1>7
  <2>4. QED
    BY <1>5, <2>2, <2>3, SameLists
<1>8. QED
  BY <1>6, <1>7

\* Every step of the test preserves the invariant, whatever the limit is.
LEMMA LioStepInv ==
  ASSUME NEW limit, LioInv, LioStep(limit) PROVE LioInv'
<1>1. CASE LioFor \/ LioSleep \/ LioJoin \/ LioSendStop \/ LioSigStop
  <2>1. UNCHANGED <<lists, pending, count>>
    BY <1>1 DEF LioFor, LioSleep, LioJoin, LioSendStop, LioSigStop
  <2>2. LioTypes' /\ Completed' = Completed
    BY <2>1 DEF LioInv, LioTypes, Completed, Reported
  <2>3. QED
    BY <2>1, <2>2, SameLists
<1>2. CASE LioSigComplete
  <2>1. UNCHANGED lists /\ pending > 0 /\ pending' = pending - 1 /\ count' = count + 1
    BY <1>2 DEF LioSigComplete
  <2>2. pending \in Nat /\ count \in Nat
    BY DEF LioInv, LioTypes
  <2>3. pending' \in Nat /\ count' \in Nat /\ count' + pending' = count + pending
    BY <2>1, <2>2
  <2>4. LioTypes' /\ Completed' = Completed
    BY <2>1, <2>3 DEF LioInv, LioTypes, Completed, Reported
  <2>5. QED
    BY <2>3, <2>4, SameLists
<1>3. CASE LioKernel
  BY <1>3, CompleteInv DEF LioKernel
<1>4. QED
  BY <1>1, <1>2, <1>3, SubmitInv, FreeInv DEF LioStep, LioSig

-----------------------------------------------------------------------------
(* The driver.                                                             *)

\* The steps of sig_thread behind its loop.
Finals == {"final_lock", "final_signal", "final_unlock", "exited"}

\* sig_thread of the aio_write test leaves its loop, and the main thread its
\* join, for a reason.
TestReturnsDone ==
  /\ spc \in Finals /\ stop # "taken" => total_ios_completed >= iterations
  /\ mpc = "returned" => spc = "exited"

DriverTypes ==
  written \in Nat /\ failed \in Nat /\ queuedOk \in Nat /\ total_ios_completed \in Nat

\* What is known of each test while it runs, and once it is over.
DriverOK ==
  /\ dpc \in {"options", "open"} =>
       i = 0 /\ written = 0 /\ failed = 0 /\ mpc = "for" /\ spc = "sigwaitinfo" /\ file # "renamed"
  /\ file = "renamed" => dpc = "unlink"
  /\ test = "pwrite" => i \in Nat /\ written + failed = i
  /\ test = "pwrite" /\ dpc \in {"rename", "unlink"} => i >= iterations
  /\ test = "aio_write" => TestReturnsDone
  /\ test = "aio_write" /\ dpc \in {"rename", "unlink"} => mpc = "returned"

\* The inductive invariant.
WriteInv == LioInv /\ DriverTypes /\ DriverOK

\* Nothing has been submitted or written.
LEMMA WriteInitInv == WriteInit => WriteInv
<1> SUFFICES ASSUME WriteInit PROVE WriteInv
  OBVIOUS
<1>1. LioInv
  BY LioInit DEF WriteInit
<1>2. QED
  BY <1>1 DEF WriteInit, Init, Aio!Init, WriteInv, DriverTypes, DriverOK, Finals, TestReturnsDone

-----------------------------------------------------------------------------
(* The aio_write test, with a good file descriptor or a bad one.           *)

\* One step of the test: what happens to the counters and to the steps of the
\* two threads.
LEMMA AioEffect ==
  ASSUME Aio!Next \/ AioBad!Next
  PROVE  /\ \/ queuedOk' = queuedOk \/ queuedOk' = queuedOk + 1
            \/ queuedOk > 0 /\ queuedOk' = queuedOk - 1
         /\ \/ total_ios_completed' = total_ios_completed
            \/ total_ios_completed' = total_ios_completed + 1
         /\ stop = "taken" => stop' = "taken"
         /\ spc' \in Finals =>
              spc \in Finals \/ stop' = "taken" \/ total_ios_completed >= iterations
         /\ mpc' = "returned" => mpc = "returned" \/ spc = "exited"
         /\ mpc = "returned" => mpc' = "returned"
         /\ spc = "exited" => spc' = "exited"
BY DEF Finals, iterations,
  Aio!Next, Aio!MainStep, Aio!SigStep, Aio!Environment, Aio!MainFor, Aio!MainSubmit,
  Aio!MainLock, Aio!MainTest, Aio!MainReacquire, Aio!MainUnlock, Aio!MainJoin,
  Aio!SigComplete, Aio!SigFailed, Aio!SigStop, Aio!SigLock, Aio!SigIncrement, Aio!SigUnlock,
  Aio!SigBatch, Aio!SigNeeded, Aio!SigFinalLock, Aio!SigFinalSignal, Aio!SigFinalUnlock,
  Aio!Complete, Aio!SendStop, Aio!MainSpuriousWakeup, Aio!Signal, Aio!iterations,
  Aio!kernel, Aio!totals, Aio!rest,
  AioBad!Next, AioBad!MainStep, AioBad!SigStep, AioBad!Environment, AioBad!MainFor,
  AioBad!MainSubmit, AioBad!MainLock, AioBad!MainTest, AioBad!MainReacquire,
  AioBad!MainUnlock, AioBad!MainJoin, AioBad!SigComplete, AioBad!SigFailed, AioBad!SigStop,
  AioBad!SigLock, AioBad!SigIncrement, AioBad!SigUnlock, AioBad!SigBatch, AioBad!SigNeeded,
  AioBad!SigFinalLock, AioBad!SigFinalSignal, AioBad!SigFinalUnlock, AioBad!Complete,
  AioBad!SendStop, AioBad!MainSpuriousWakeup, AioBad!Signal, AioBad!iterations,
  AioBad!kernel, AioBad!totals, AioBad!rest

\* The aio_write test preserves the invariant.
LEMMA AioTestInv ==
  ASSUME WriteInv, AioTest PROVE WriteInv'
<1>1. /\ dpc \in {"test", "rename", "unlink"} /\ test = "aio_write"
      /\ UNCHANGED <<lists, pending, count, written, dpc, test, file, failed>>
  BY DEF AioTest, lioVars, driverVars
<1>2. Aio!Next \/ AioBad!Next
  BY DEF AioTest
<1>3. LioInv'
  <2>1. LioTypes' /\ Completed' = Completed
    BY <1>1 DEF WriteInv, LioInv, LioTypes, Completed, Reported
  <2>2. QED
    BY <1>1, <2>1, SameLists DEF WriteInv
<1>4. queuedOk \in Nat /\ total_ios_completed \in Nat /\ iterations \in Nat
  BY LioAssumption DEF WriteInv, DriverTypes, iterations
<1>5. /\ queuedOk' \in Nat /\ total_ios_completed' \in Nat
      /\ total_ios_completed >= iterations => total_ios_completed' >= iterations
  BY <1>2, <1>4, AioEffect
<1>6. DriverTypes'
  BY <1>1, <1>5 DEF WriteInv, DriverTypes
<1>7. TestReturnsDone'
  <2>1. TestReturnsDone
    BY <1>1 DEF WriteInv, DriverOK
  <2>2. spc' \in Finals /\ stop' # "taken" => total_ios_completed >= iterations
    BY <1>2, <2>1, AioEffect DEF TestReturnsDone
  <2>3. mpc' = "returned" => spc' = "exited"
    BY <1>2, <2>1, AioEffect DEF TestReturnsDone
  <2>4. QED
    BY <1>5, <2>2, <2>3 DEF TestReturnsDone
<1>8. dpc' \in {"rename", "unlink"} => mpc' = "returned"
  BY <1>1, <1>2, AioEffect DEF WriteInv, DriverOK
<1>9. DriverOK'
  BY <1>1, <1>7, <1>8 DEF WriteInv, DriverOK
<1>10. QED
  BY <1>3, <1>6, <1>9 DEF WriteInv

-----------------------------------------------------------------------------
(* The lio_listio test, the pwrite test and the steps of main.             *)

\* The lio_listio test.
LEMMA LioTestInv ==
  ASSUME WriteInv, LioTest PROVE WriteInv'
<1>1. /\ dpc \in {"test", "rename", "unlink"} /\ test = "lio_listio"
      /\ UNCHANGED <<queuedOk, total_ios_completed, dpc, test, file, failed>>
  BY DEF LioTest, aioVars, driverVars
<1>2. PICK limit : LioStep(limit)
  BY DEF LioTest
<1>3. LioInv'
  BY <1>2, LioStepInv DEF WriteInv
<1>4. written' = written \/ written' = written + 1
  BY <1>2 DEF LioStep, LioFor, LioSubmit, LioSleep, LioFree, LioJoin, LioKernel, LioComplete,
    LioSendStop, LioSig, LioSigComplete, LioSigStop
<1>5. DriverTypes'
  BY <1>1, <1>4 DEF WriteInv, DriverTypes
<1>6. DriverOK'
  BY <1>1 DEF WriteInv, DriverOK
<1>7. QED
  BY <1>3, <1>5, <1>6 DEF WriteInv

\* One pwrite.
LEMMA PwriteInv ==
  ASSUME WriteInv, Pwrite PROVE WriteInv'
<1>1. /\ dpc = "test" /\ test = "pwrite" /\ i' = i + 1
      /\ \/ written' = written + 1 /\ failed' = failed
         \/ written' = written /\ failed' = failed + 1
      /\ UNCHANGED <<lists, pending, count, queuedOk, total_ios_completed, dpc, test, file>>
  BY DEF Pwrite, aioVars
<1>2. LioInv'
  <2>1. LioTypes' /\ Completed' = Completed
    BY <1>1 DEF WriteInv, LioInv, LioTypes, Completed, Reported
  <2>2. QED
    BY <1>1, <2>1, SameLists DEF WriteInv
<1>3. written \in Nat /\ failed \in Nat /\ i \in Nat /\ written + failed = i
  BY <1>1 DEF WriteInv, DriverTypes, DriverOK
<1>4. written' \in Nat /\ failed' \in Nat /\ i' \in Nat /\ written' + failed' = i'
  BY <1>1, <1>3
<1>5. DriverTypes'
  BY <1>1, <1>4 DEF WriteInv, DriverTypes
<1>6. DriverOK'
  BY <1>1, <1>4 DEF WriteInv, DriverOK
<1>7. QED
  BY <1>2, <1>5, <1>6 DEF WriteInv

\* The steps of main outside the test.
LEMMA DriverInv ==
  ASSUME WriteInv, CollectOptions \/ OpenFile \/ TestDone \/ RenameFile \/ UnlinkFile
  PROVE  WriteInv'
<1>1. UNCHANGED <<i, mpc, spc, lists, pending, count, written, stop, queuedOk,
                  total_ios_completed>> /\ failed' = failed
  BY DEF CollectOptions, OpenFile, TestDone, RenameFile, UnlinkFile, vars, aioVars
<1>2. LioInv'
  <2>1. LioTypes' /\ Completed' = Completed
    BY <1>1 DEF WriteInv, LioInv, LioTypes, Completed, Reported
  <2>2. QED
    BY <1>1, <2>1, SameLists DEF WriteInv
<1>3. DriverTypes'
  BY <1>1 DEF WriteInv, DriverTypes
<1>4. TestReturnsDone <=> TestReturnsDone'
  BY <1>1 DEF TestReturnsDone
<1>5. DriverOK'
  <2>1. CASE CollectOptions
    <3>1. dpc = "options" /\ dpc' \in {"open", "exited"} /\ file' = file
      BY <2>1 DEF CollectOptions
    <3>2. /\ i = 0 /\ written = 0 /\ failed = 0
          /\ mpc = "for" /\ spc = "sigwaitinfo" /\ file # "renamed"
      BY <3>1 DEF WriteInv, DriverOK
    <3>3. TestReturnsDone
      BY <3>2 DEF TestReturnsDone, Finals
    <3>4. QED
      BY <1>1, <1>4, <3>1, <3>2, <3>3 DEF DriverOK
  <2>2. CASE OpenFile
    <3>1. /\ dpc = "open" /\ dpc' \in {"exited", "test"} /\ test' = test
          /\ file' \in {file, "path"}
      BY <2>2 DEF OpenFile
    <3>2. QED
      BY <1>1, <1>4, <3>1 DEF WriteInv, DriverOK
  <2>3. CASE TestDone
    <3>1. /\ dpc = "test" /\ dpc' = "rename" /\ test' = test /\ file' = file
          /\ test = "pwrite" => i >= iterations
          /\ test = "aio_write" => mpc = "returned"
      BY <2>3 DEF TestDone
    <3>2. QED
      BY <1>1, <1>4, <3>1 DEF WriteInv, DriverOK
  <2>4. CASE RenameFile
    <3>1. dpc = "rename" /\ dpc' = "unlink" /\ test' = test
      BY <2>4 DEF RenameFile
    <3>2. QED
      BY <1>1, <1>4, <3>1 DEF WriteInv, DriverOK
  <2>5. CASE UnlinkFile
    <3>1. dpc = "unlink" /\ dpc' = "exited" /\ test' = test /\ file' # "renamed"
      BY <2>5 DEF UnlinkFile
    <3>2. QED
      BY <1>1, <1>4, <3>1 DEF WriteInv, DriverOK
  <2>6. QED
    BY <2>1, <2>2, <2>3, <2>4, <2>5
<1>6. QED
  BY <1>2, <1>3, <1>5 DEF WriteInv

-----------------------------------------------------------------------------
(* The theorems.                                                           *)

\* Every step preserves the invariant.
LEMMA WriteStepInv == WriteInv /\ [WriteNext]_allVars => WriteInv'
<1> SUFFICES ASSUME WriteInv, [WriteNext]_allVars PROVE WriteInv'
  OBVIOUS
<1>1. CASE WriteNext
  BY <1>1, AioTestInv, LioTestInv, PwriteInv, DriverInv DEF WriteNext
<1>2. CASE UNCHANGED allVars
  <2>1. UNCHANGED <<i, mpc, spc, lists, pending, count, written, stop, queuedOk,
                    total_ios_completed, dpc, test, file>> /\ failed' = failed
    BY <1>2 DEF allVars, vars, aioVars, driverVars
  <2>2. LioInv'
    <3>1. LioTypes' /\ Completed' = Completed
      BY <2>1 DEF WriteInv, LioInv, LioTypes, Completed, Reported
    <3>2. QED
      BY <2>1, <3>1, SameLists DEF WriteInv
  <2>3. DriverTypes' /\ DriverOK'
    BY <2>1 DEF WriteInv, DriverTypes, DriverOK, TestReturnsDone
  <2>4. QED
    BY <2>2, <2>3 DEF WriteInv
<1>3. QED
  BY <1>1, <1>2

\* The inductive invariant holds in every reachable state.
LEMMA WriteInvariance == WriteSpec => []WriteInv
  BY WriteInitInv, WriteStepInv, PTL DEF WriteSpec

\* One signal per completed list, counted or still queued.
THEOREM CompletedListsCounted == WriteSpec => []ListsCounted
<1>1. WriteInv => ListsCounted
  BY DEF WriteInv, LioInv
<1>2. QED
  BY <1>1, WriteInvariance, PTL

\* main renames the file only when its blocks are in it, or their pwrite has
\* failed.
THEOREM RenamedIsWritten == WriteSpec => []RenamedMeansWritten
<1>1. ASSUME WriteInv PROVE RenamedMeansWritten
  <2>1. SUFFICES ASSUME file = "renamed", test \in {"pwrite", "aio_write"}, stop # "taken"
                 PROVE  Blocks + (IF test = "pwrite" THEN failed ELSE 0) >= iterations
    BY DEF RenamedMeansWritten
  <2>2. /\ written \in Nat /\ failed \in Nat /\ queuedOk \in Nat /\ total_ios_completed \in Nat
        /\ iterations \in Nat /\ dpc = "unlink"
    BY <1>1, <2>1, LioAssumption DEF WriteInv, DriverTypes, DriverOK, iterations
  <2>3. CASE test = "pwrite"
    <3>1. written + failed >= iterations
      BY <1>1, <2>1, <2>2, <2>3 DEF WriteInv, DriverOK
    <3>2. QED
      BY <2>2, <2>3, <3>1 DEF Blocks
  <2>4. CASE test = "aio_write"
    <3>1. total_ios_completed >= iterations /\ spc = "exited"
      BY <1>1, <2>1, <2>2, <2>4 DEF WriteInv, DriverOK, TestReturnsDone, Finals
    <3>2. QED
      BY <2>2, <3>1 DEF Blocks
  <2>5. QED
    BY <2>1, <2>3, <2>4
<1>2. QED
  BY <1>1, WriteInvariance, PTL
=============================================================================
