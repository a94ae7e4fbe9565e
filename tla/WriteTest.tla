----------------------------- MODULE WriteTest -----------------------------
(***************************************************************************)
(* The driver async_to_sync_writes/main.c around the three write tests:    *)
(* options, open, one test, rename, unlink.  The lio_listio test is        *)
(* LioListio, the aio_write test is AioWrite, the pwrite test is the loop  *)
(* below.  A process runs one test, so that the tests share the main       *)
(* thread's loop counter and the program counters; the other variables of  *)
(* AioWrite are declared here under the same names.                        *)
(***************************************************************************)
EXTENDS LioListio

CONSTANT max_aios  \* see AioWrite

VARIABLES
  j, mutex, ios_completed_per_batch, total_ios_completed, inflight,
  queuedOk, queuedErr, accepted, running,  \* of AioWrite
  dpc,     \* main's next step
  test,    \* the option --test
  fd,      \* what open returned: "bad" (-1), "zero" or "good" (positive)
  file,    \* the file's name: "absent", "path" or "renamed"
  failed   \* ghost: number of pwrites that failed

aioVars    == <<j, mutex, ios_completed_per_batch, total_ios_completed, inflight,
                queuedOk, queuedErr, accepted, running>>
lioVars    == <<lists, pending, count, written>>
driverVars == <<dpc, test, fd, file, failed>>
allVars    == <<vars, aioVars, driverVars>>

Aio    == INSTANCE AioWrite
AioBad == INSTANCE AioWrite WITH AioLimit <- 0  \* aio_write on fd -1

WriteInit ==
  /\ Init
  /\ Aio!Init
  /\ dpc = "options" /\ test = "unknown" /\ fd = "bad" /\ failed = 0
  /\ file \in {"absent", "path"}  \* "path": a run whose rename failed left it

-----------------------------------------------------------------------------
\* collect_options: any --test but the three leaves test unset; an unknown
\* option ends in usage(), which exits.
CollectOptions ==
  /\ dpc = "options"
  /\ \/ /\ test' \in {"pwrite", "aio_write", "lio_listio", "unknown"}
        /\ dpc' = "open"
     \/ dpc' = "exited" /\ UNCHANGED test
  /\ UNCHANGED <<vars, aioVars, fd, file, failed>>

\* open, and exit(1) if fd == NULL, which is true of file descriptor 0 only.
OpenFile ==
  /\ dpc = "open"
  /\ fd' \in {"bad", "zero", "good"}
  /\ file' = IF fd' = "bad" THEN file ELSE "path"
  /\ dpc' = IF fd' = "zero" THEN "exited" ELSE "test"
  /\ UNCHANGED <<vars, aioVars, test, failed>>

\* One iteration of pwrite_test; a failure is only reported.
Pwrite ==
  /\ dpc = "test" /\ test = "pwrite"
  /\ i < iterations
  /\ i' = i + 1
  /\ \/ fd = "good" /\ written' = written + 1 /\ UNCHANGED failed
     \/ (IOErrors \/ fd = "bad") /\ failed' = failed + 1 /\ UNCHANGED written
  /\ UNCHANGED <<mpc, spc, lists, pending, count, stop, aioVars, dpc, test, fd, file>>

\* The threads of the chosen test and the kernel, which goes on with what was
\* submitted until the process exits.
AioTest ==
  /\ dpc \in {"test", "rename", "unlink"} /\ test = "aio_write"
  /\ IF fd = "bad" THEN AioBad!Next ELSE Aio!Next
  /\ UNCHANGED <<lioVars, driverVars>>

LioTest ==
  /\ dpc \in {"test", "rename", "unlink"} /\ test = "lio_listio"
  /\ LioStep(IF fd = "bad" THEN 0 ELSE AioLimit)
  /\ UNCHANGED <<aioVars, driverVars>>

\* Mutant: one block is left out.
TestDoneEarly ==
  /\ dpc = "test" /\ running
  /\ CASE test = "pwrite" -> i + 1 >= iterations
       [] test \in {"aio_write", "lio_listio"} -> mpc = "returned"
       [] OTHER -> TRUE
  /\ dpc' = "rename"
  /\ UNCHANGED <<vars, aioVars, test, fd, file, failed>>

\* The test function returns; the rename delay is a sleep.
TestDone ==
  /\ dpc = "test" /\ running
  /\ CASE test = "pwrite" -> i >= iterations
       [] test \in {"aio_write", "lio_listio"} -> mpc = "returned"
       [] OTHER -> TRUE
  /\ dpc' = "rename"
  /\ UNCHANGED <<vars, aioVars, test, fd, file, failed>>

\* rename, whose result is not looked at.  The new name is appended to what
\* malloc left in filepath_renamed: it may name a directory that is not there.
RenameFile ==
  /\ dpc = "rename"
  /\ file' \in IF file = "path" THEN {"renamed", "path"} ELSE {file}
  /\ dpc' = "unlink"
  /\ UNCHANGED <<vars, aioVars, test, fd, failed>>

\* sleep(4), unlink(filepath_renamed), return.
UnlinkFile ==
  /\ dpc = "unlink"
  /\ file' = IF file = "renamed" THEN "absent" ELSE file
  /\ dpc' = "exited"
  /\ UNCHANGED <<vars, aioVars, test, fd, failed>>

WriteNext ==
  \/ CollectOptions \/ OpenFile \/ Pwrite \/ AioTest \/ LioTest
  \/ TestDone \/ RenameFile \/ UnlinkFile

\* sig_thread is scheduled and accepted writes complete.  Nothing is assumed
\* of the driver.
WriteFairness ==
  /\ WF_allVars(LioSig /\ LioTest)
  /\ WF_allVars(LioKernel /\ LioTest)

WriteSpec == WriteInit /\ [][WriteNext]_allVars /\ WriteFairness

-----------------------------------------------------------------------------
(* Correctness.                                                            *)

\* Blocks this run put into the file: those pwrite and lio_listio wrote, or those of the
\* aio_write test whose completion is queued, in sig_thread's hands or counted.
Blocks ==
  written + queuedOk + total_ios_completed
    + (IF test = "aio_write" /\ spc \in {"lock", "increment"} THEN 1 ELSE 0)

\* main renames the file only when this run has tried all its blocks: after
\* pwrite_test the file lacks only blocks whose pwrite failed and was
\* reported, all of them after a failed open; after aio_write_test it lacks
\* none, unless somebody sent MYSIG_STOP, and a failed open is never followed
\* by the rename of an older file.
RenamedMeansWritten ==
  (file = "renamed" /\ test \in {"pwrite", "aio_write"} /\ stop # "taken")
    => Blocks + (IF test = "pwrite" THEN failed ELSE 0) >= iterations
=============================================================================
