---------------------------- MODULE PipeMonitor ----------------------------
(***************************************************************************)
(* The observers of LocklessPipe: validate() and count(), called by the    *)
(* reader between two pops, by the writer between two pushes, or by a      *)
(* third thread at any time.  Each load of a member is a step of its own.  *)
(***************************************************************************)
EXTENDS LocklessPipe

CONSTANT Callers  \* threads that may call the observers

ASSUME CallersAssumption == Callers \subseteq {"reader", "writer", "third"}

VARIABLES
  caller,              \* the thread that observes
  mpc,                 \* its next load
  mNumRead, mNumWritten, mReadVPtr,  \* locals of validate
  alarms,              \* the tests that failed in the last validate
  items                \* what the last count returned

locals  == <<mNumRead, mNumWritten, mReadVPtr>>
results == <<alarms, items>>
mvars   == <<vars, caller, mpc, locals, results>>

MonitorInit ==
  /\ Init
  /\ caller \in Callers
  /\ mpc = "idle"
  /\ mNumRead = 0 /\ mNumWritten = 0 /\ mReadVPtr = readVPtr
  /\ alarms = {} /\ items = 0

-----------------------------------------------------------------------------
\* const uint64_t numRead = numRead_;
ValidateNumRead ==
  /\ mpc = "idle"
  /\ caller = "reader" => rpc = "idle"
  /\ caller = "writer" => wpc = "idle"
  /\ mNumRead' = numRead
  /\ mpc' = "numWritten"
  /\ UNCHANGED <<vars, caller, mNumWritten, mReadVPtr, results>>

\* const uint64_t numWritten = numWritten_;
ValidateNumWritten ==
  /\ mpc = "numWritten"
  /\ mNumWritten' = numWritten
  /\ mpc' = "readVPtr"
  /\ UNCHANGED <<vars, caller, mNumRead, mReadVPtr, results>>

\* VersionedPointerType readVPtr = readVPtr_;
ValidateReadVPtr ==
  /\ mpc = "readVPtr"
  /\ mReadVPtr' = readVPtr
  /\ mpc' = "writeVPtr"
  /\ UNCHANGED <<vars, caller, mNumRead, mNumWritten, results>>

\* The tests of validate on its four samples.  The test of the stomp words
\* is left out: they are constants, and TypeOK and UnreadIntact of
\* LocklessPipe say that no push writes outside buf_.
Alarms(nRead, nWritten, r, w) ==
  {a \in {"counters", "versions", "bounds", "corrupt"} :
     \/ a = "counters" /\ nRead > nWritten
     \/ a = "versions" /\ (getVersion(w) - getVersion(r)) % VERSIONS > 1
     \/ a = "bounds"   /\ (getPointer(w) > PIPE_SIZE \/ getPointer(r) > PIPE_SIZE)
     \/ a = "corrupt"  /\ getPointer(w) = getPointer(r) /\ getVersion(w) # getVersion(r)}

\* VersionedPointerType writeVPtr = writeVPtr_; then the tests.
ValidateWriteVPtr ==
  /\ mpc = "writeVPtr"
  /\ alarms' = Alarms(mNumRead, mNumWritten, mReadVPtr, writeVPtr)
  /\ mpc' = "idle"
  /\ UNCHANGED <<vars, caller, locals, items>>

-----------------------------------------------------------------------------
(* count(): numWritten_ - numRead_ as a uint32_t.  C++ does not say which  *)
(* operand is loaded first.                                                *)

CountFirst(load) ==
  /\ mpc = "idle"
  /\ caller = "reader" => rpc = "idle"
  /\ caller = "writer" => wpc = "idle"
  /\ \/ load = "numWritten" /\ mNumWritten' = numWritten /\ UNCHANGED mNumRead
     \/ load = "numRead" /\ mNumRead' = numRead /\ UNCHANGED mNumWritten
  /\ mpc' = IF load = "numRead" THEN "count numWritten" ELSE "count numRead"
  /\ UNCHANGED <<vars, caller, mReadVPtr, results>>

\* Mutant: the operands are exchanged.
CountSecondExchanged ==
  /\ \/ mpc = "count numWritten" /\ items' = (mNumRead - numWritten) % WORD
     \/ mpc = "count numRead" /\ items' = (numRead - mNumWritten) % WORD
  /\ mpc' = "idle"
  /\ UNCHANGED <<vars, caller, locals, alarms>>

CountSecond ==
  /\ \/ mpc = "count numWritten" /\ items' = (numWritten - mNumRead) % WORD
     \/ mpc = "count numRead" /\ items' = (mNumWritten - numRead) % WORD
  /\ mpc' = "idle"
  /\ UNCHANGED <<vars, caller, locals, alarms>>

-----------------------------------------------------------------------------
Observe ==
  \/ ValidateNumRead \/ ValidateNumWritten \/ ValidateReadVPtr \/ ValidateWriteVPtr
  \/ CountFirst("numRead") \/ CountFirst("numWritten") \/ CountSecond

\* A thread inside an observer takes no step of the pipe.  Both sides stay
\* running: the flags are not among what the observers load.
PipeStep ==
  /\ \/ ~(caller = "writer" /\ mpc # "idle")
        /\ \/ \E length \in Lengths : Push(length, TRUE)
           \/ WriteIsFull \/ WriteIsRunning \/ WriteReserve
           \/ WriteHeader \/ WriteData \/ WriteCount \/ WritePublish
     \/ ~(caller = "reader" /\ mpc # "idle")
        /\ \/ Pop \/ WaitIsEmpty \/ WaitIsRunning
           \/ ReadHeader \/ ReadData \/ ReadRelease \/ ReadCount
  /\ UNCHANGED <<caller, mpc, locals, results>>

MonitorSpec == MonitorInit /\ [][Observe \/ PipeStep]_mvars

-----------------------------------------------------------------------------
\* validate() called from the reader's or the writer's own thread never
\* reports a healthy pipe as corrupted, although the other side runs on
\* between its loads and the version half of a pointer wraps.
NoFalseAlarm == caller # "third" => alarms = {}

\* The comment in finishWrite: numWritten_ is incremented before writeVPtr_
\* moves so that validate can tell corruption when numRead_ > numWritten_.
\* No thread ever sees that in a healthy pipe.
CountersInOrder == "counters" \notin alarms

\* count() called from the reader's or the writer's own thread is never
\* negative (a huge uint32_t), in either order of its two loads.
CountNotNegative == caller # "third" => items <= MaxWrites
=============================================================================
