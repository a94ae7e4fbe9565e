---------------------------- MODULE CallerProofs ----------------------------
(***************************************************************************)
(* What the threads around the pipe see of it: the observers of            *)
(* PipeMonitor, whose loads other threads run between, and the timed wait  *)
(* of PipeWait.                                                            *)
(***************************************************************************)
EXTENDS PipeMonitor, PipeWait, PipeProofs

-----------------------------------------------------------------------------
(* The version half of a pointer wraps; a difference of one lap shows.     *)

\* The successor of a, modulo V.
LEMMA ModNext ==
  ASSUME NEW V \in Nat \ {0}, NEW a \in Nat
  PROVE  ((a + 1) % V) = IF (a % V) = V - 1 THEN 0 ELSE (a % V) + 1
<1> DEFINE q == a \div V
           r == a % V
<1>1. q \in Nat /\ r \in 0 .. (V - 1) /\ a = V * q + r
  OBVIOUS
<1> HIDE DEF q, r
<1>2. CASE r = V - 1
  <2>1. a + 1 = V * (q + 1)
    BY <1>1, <1>2
  <2>2. (V * (q + 1)) % V = 0
    BY <1>1
  <2>3. QED
    BY <1>2, <2>1, <2>2 DEF r
<1>3. CASE r # V - 1
  <2>1. a + 1 = V * q + (r + 1) /\ r + 1 \in 0 .. (V - 1)
    BY <1>1, <1>3
  <2>2. (V * q + (r + 1)) % V = r + 1
    BY <1>1, <2>1
  <2>3. QED
    BY <1>3, <2>1, <2>2 DEF r
<1>4. QED
  BY <1>2, <1>3

\* Two versions one apart differ by one, although the later may be 0.
LEMMA VersionsApart ==
  ASSUME NEW a \in Nat
  PROVE  (((a + 1) % VERSIONS) - (a % VERSIONS)) % VERSIONS = 1
<1>1. VERSIONS \in Nat \ {0, 1} /\ (a % VERSIONS) \in 0 .. (VERSIONS - 1)
  BY GeometryAssumption
<1>2. ((a + 1) % VERSIONS) = IF (a % VERSIONS) = VERSIONS - 1 THEN 0 ELSE (a % VERSIONS) + 1
  BY <1>1, ModNext
<1>3. CASE (a % VERSIONS) = VERSIONS - 1
  <2>1. (0 - (VERSIONS - 1)) % VERSIONS = 1
    BY <1>1
  <2>2. QED
    BY <1>2, <1>3, <2>1
<1>4. CASE (a % VERSIONS) # VERSIONS - 1
  <2>1. ((a + 1) % VERSIONS) - (a % VERSIONS) = 1
    BY <1>1, <1>2, <1>4
  <2>2. 1 % VERSIONS = 1
    BY <1>1
  <2>3. QED
    BY <2>1, <2>2
<1>5. QED
  BY <1>3, <1>4

\* The tests of validate pass on counters in order and on pointers less than
\* a lap apart.
LEMMA HealthyPasses ==
  ASSUME NEW nRead \in Nat, NEW nWritten \in Nat, nRead <= nWritten,
         NEW r \in Position, NEW w \in Position, InWindow(r, w)
  PROVE  Alarms(nRead, nWritten, r, w) = {}
<1>1. /\ r.lap \in Nat /\ r.ptr \in 0 .. PIPE_SIZE /\ w.lap \in Nat /\ w.ptr \in 0 .. PIPE_SIZE
      /\ VERSIONS \in Nat \ {0, 1} /\ PIPE_SIZE \in Nat
  BY GeometryAssumption DEF Position
<1>2. ~(nRead > nWritten)
  OBVIOUS
<1>3. ~((getVersion(w) - getVersion(r)) % VERSIONS > 1)
  <2>1. CASE w.lap = r.lap
    <3>1. (w.lap % VERSIONS) \in Int /\ (w.lap % VERSIONS) - (w.lap % VERSIONS) = 0
          /\ 0 % VERSIONS = 0
      BY <1>1
    <3>2. QED
      BY <2>1, <3>1 DEF getVersion
  <2>2. CASE w.lap = r.lap + 1
    BY <1>1, <2>2, VersionsApart DEF getVersion
  <2>3. QED
    BY <2>1, <2>2 DEF InWindow
<1>4. ~(getPointer(w) > PIPE_SIZE \/ getPointer(r) > PIPE_SIZE)
  BY <1>1 DEF getPointer
<1>5. ~(getPointer(w) = getPointer(r) /\ getVersion(w) # getVersion(r))
  BY <1>1 DEF getPointer, getVersion, InWindow
<1>6. QED
  BY <1>2, <1>3, <1>4, <1>5 DEF Alarms

\* Whoever calls, in whatever order: no alarm about the counters.
LEMMA CountersPass ==
  ASSUME NEW nRead \in Nat, NEW nWritten \in Nat, nRead <= nWritten, NEW r, NEW w
  PROVE  "counters" \notin Alarms(nRead, nWritten, r, w)
  BY DEF Alarms

\* A difference that is not negative does not grow by being a uint32_t.
LEMMA ModSmaller ==
  ASSUME NEW x \in Nat, NEW bound \in Nat, x <= bound
  PROVE  x % WORD <= bound
<1>1. WORD \in Nat \ {0}
  BY GeometryAssumption
<1>2. x % WORD \in Nat /\ x % WORD <= x
  BY <1>1
<1>3. QED
  BY <1>2

-----------------------------------------------------------------------------
(* The invariant of an observer: what it has loaded is still in order with *)
(* what it will load.                                                      *)

\* The counters of the pipe, and the bound on pushes.
CountersOK ==
  /\ numWritten <= MaxWrites
  /\ wpc \notin {"idle", "publish"} => numWritten < MaxWrites

\* What has been loaded.
SamplesOK ==
  /\ caller \in {"reader", "writer", "third"}
  /\ mpc \in {"idle", "numWritten", "readVPtr", "writeVPtr",
              "count numWritten", "count numRead"}
  /\ mNumRead \in Nat /\ mNumWritten \in Nat /\ mReadVPtr \in Position
  /\ mpc \in {"numWritten", "count numWritten"} => mNumRead <= numRead
  /\ mpc \in {"readVPtr", "writeVPtr"} => mNumRead <= mNumWritten
  /\ mpc = "count numRead" =>
       /\ mNumWritten <= numWritten
       /\ caller # "third" => numRead <= mNumWritten

\* The observer's own side of the pipe stands still, the other moves on.
OwnSideStill ==
  /\ caller = "reader" /\ mpc # "idle" => rpc = "idle"
  /\ caller = "writer" /\ mpc # "idle" => wpc = "idle"
  /\ caller = "writer" /\ mpc = "count numRead" => mNumWritten = numWritten
  /\ caller = "reader" /\ mpc = "writeVPtr" => mReadVPtr = readVPtr
  /\ caller = "writer" /\ mpc = "writeVPtr" => InWindow(mReadVPtr, writeVPtr)

MonitorInv ==
  /\ PipeInv
  /\ CountersOK
  /\ SamplesOK
  /\ OwnSideStill
  /\ NoFalseAlarm
  /\ CountersInOrder
  /\ CountNotNegative

-----------------------------------------------------------------------------
(* Steps of the pipe under an observer.                                    *)

\* numRead_ never overtakes numWritten_.
ReadBehindWritten == numRead \in Nat /\ numWritten \in Nat /\ numRead <= numWritten

\* Both count elements, and those consumed have been published.
LEMMA CountersBehind == PipeInv => ReadBehindWritten
<1> SUFFICES ASSUME PipeInv PROVE ReadBehindWritten
  OBVIOUS
<1>1. numRead \in Nat /\ numWritten \in Nat
  BY DEF PipeInv, TypeOK
<1>2. consumed <= published
  BY DEF PipeInv, ContentsOK, LogShape
<1>3. QED
  BY <1>1, <1>2 DEF consumed, published, ReadBehindWritten

\* The same in the next state.
LEMMA CountersBehindNext == PipeInv' => ReadBehindWritten'
  BY CountersBehind, PTL

MonitoredWrite ==
  \/ \E length \in Lengths : Push(length, TRUE)
  \/ WriteIsFull \/ WriteIsRunning \/ WriteReserve
  \/ WriteHeader \/ WriteData \/ WriteCount \/ WritePublish

MonitoredRead ==
  \/ Pop \/ WaitIsEmpty \/ WaitIsRunning
  \/ ReadHeader \/ ReadData \/ ReadRelease \/ ReadCount

\* What a step of the writer changes.
LEMMA WriteMoves ==
  ASSUME PipeInv, CountersOK, MonitoredWrite
  PROVE  /\ PipeInv' /\ CountersOK'
         /\ UNCHANGED <<numRead, readVPtr, rpc>>
         /\ numWritten <= numWritten'
<1> USE DEF pointers, counters, flags, call, writer, copy, reader
<1>1. PipeInv'
  <2>1. ASSUME NEW length \in Lengths, Push(length, TRUE)
        PROVE  PipeInv'
    BY <2>1, EnterInv, PipeAssumption
  <2>2. QED
    BY <2>1, LookInv, ReserveInv, HeaderInv, DataInv, CountInv, PublishInv DEF MonitoredWrite
<1>2. UNCHANGED <<numRead, readVPtr, rpc>>
  BY DEF MonitoredWrite, Push, WriteIsFull, WriteIsRunning, WriteReserve, WriteHeader,
    WriteData, WriteCount, WritePublish
<1>3. numWritten \in Nat /\ MaxWrites \in Nat
  BY PipeAssumption DEF PipeInv, TypeOK
<1>4. CASE WriteCount
  <2>1. numWritten < MaxWrites /\ numWritten' = numWritten + 1 /\ wpc' = "publish"
    BY <1>4 DEF WriteCount, CountersOK
  <2>2. QED
    BY <1>1, <1>2, <1>3, <2>1 DEF CountersOK
<1>5. CASE ~WriteCount
  <2>1. /\ numWritten' = numWritten
        /\ wpc' \in {"idle", "publish"} \/ wpc \notin {"idle", "publish"} \/ numWritten < MaxWrites
    BY <1>5 DEF MonitoredWrite, Push, WriteIsFull, WriteIsRunning, WriteReserve, WriteHeader,
      WriteData, WritePublish
  <2>2. QED
    BY <1>1, <1>2, <1>3, <2>1 DEF CountersOK
<1>6. QED
  BY <1>4, <1>5

\* What a step of the reader changes.
LEMMA ReadMoves ==
  ASSUME PipeInv, CountersOK, MonitoredRead
  PROVE  /\ PipeInv' /\ CountersOK'
         /\ UNCHANGED <<numWritten, writeVPtr, wpc>>
         /\ numRead <= numRead'
<1> USE DEF pointers, counters, flags, call, writer, copy, reader
<1>1. PipeInv'
  BY WaitInv, ReadHeaderInv, ReadDataInv, ReleaseInv, ReadCountInv DEF MonitoredRead
<1>2. UNCHANGED <<numWritten, writeVPtr, wpc>>
  BY DEF MonitoredRead, Pop, WaitIsEmpty, WaitIsRunning, ReadHeader, ReadData, ReadRelease,
    ReadCount
<1>3. numRead \in Nat
  BY DEF PipeInv, TypeOK
<1>4. numRead' = numRead \/ numRead' = numRead + 1
  BY DEF MonitoredRead, Pop, WaitIsEmpty, WaitIsRunning, ReadHeader, ReadData, ReadRelease,
    ReadCount
<1>5. QED
  BY <1>1, <1>2, <1>3, <1>4 DEF CountersOK

\* The pipe moves on under an observer.
LEMMA PipeStepInv ==
  ASSUME MonitorInv, PipeStep PROVE MonitorInv'
<1>1. UNCHANGED <<caller, mpc, mNumRead, mNumWritten, mReadVPtr, alarms, items>>
  BY DEF PipeStep, locals, results
<1>2. NoFalseAlarm' /\ CountersInOrder' /\ CountNotNegative'
  BY <1>1 DEF MonitorInv, NoFalseAlarm, CountersInOrder, CountNotNegative
<1>3. numRead \in Nat /\ numWritten \in Nat /\ mNumRead \in Nat /\ mNumWritten \in Nat
  BY CountersBehind DEF MonitorInv, SamplesOK, ReadBehindWritten
<1>4. CASE ~(caller = "writer" /\ mpc # "idle") /\ MonitoredWrite
  <2>1. /\ PipeInv' /\ CountersOK' /\ UNCHANGED <<numRead, readVPtr, rpc>>
        /\ numWritten <= numWritten' /\ numWritten' \in Nat
    BY <1>4, WriteMoves, CountersBehindNext DEF MonitorInv, ReadBehindWritten
  <2>2. SamplesOK'
    <3>1. mNumWritten <= numWritten => mNumWritten <= numWritten'
      BY <1>3, <2>1
    <3>2. QED
      BY <1>1, <2>1, <3>1 DEF MonitorInv, SamplesOK
  <2>3. OwnSideStill'
    BY <1>1, <1>4, <2>1 DEF MonitorInv, OwnSideStill
  <2>4. QED
    BY <1>2, <2>1, <2>2, <2>3 DEF MonitorInv
<1>5. CASE ~(caller = "reader" /\ mpc # "idle") /\ MonitoredRead
  <2>1. /\ PipeInv' /\ CountersOK' /\ UNCHANGED <<numWritten, writeVPtr, wpc>>
        /\ numRead <= numRead' /\ numRead' \in Nat /\ numRead' <= numWritten
    BY <1>5, ReadMoves, CountersBehindNext DEF MonitorInv, ReadBehindWritten
  <2>2. SamplesOK'
    <3>1. mNumRead <= numRead => mNumRead <= numRead'
      BY <1>3, <2>1
    <3>2. ASSUME mpc = "count numRead", caller # "third"
          PROVE  numRead' <= mNumWritten
      <4>1. CASE caller = "writer"
        BY <2>1, <3>2, <4>1 DEF MonitorInv, OwnSideStill
      <4>2. CASE caller = "reader"
        BY <1>5, <3>2, <4>2
      <4>3. QED
        BY <3>2, <4>1, <4>2 DEF MonitorInv, SamplesOK
    <3>3. QED
      BY <1>1, <2>1, <3>1, <3>2 DEF MonitorInv, SamplesOK
  <2>3. OwnSideStill'
    BY <1>1, <1>5, <2>1 DEF MonitorInv, OwnSideStill
  <2>4. QED
    BY <1>2, <2>1, <2>2, <2>3 DEF MonitorInv
<1>6. QED
  BY <1>4, <1>5 DEF PipeStep, MonitoredWrite, MonitoredRead

-----------------------------------------------------------------------------
(* Steps of the observer.                                                  *)

\* The observer changes nothing of the pipe.
LEMMA ObserveFrame ==
  ASSUME MonitorInv, UNCHANGED vars
  PROVE  /\ PipeInv' /\ CountersOK'
         /\ UNCHANGED <<numRead, numWritten, readVPtr, writeVPtr, rpc, wpc>>
<1>1. UNCHANGED <<numRead, numWritten, readVPtr, writeVPtr, rpc, wpc>>
  BY Zenon DEF vars, pointers, counters, flags, call, writer, copy, reader
<1>2. PipeInv'
  BY StepInv DEF MonitorInv
<1>3. CountersOK'
  BY <1>1 DEF MonitorInv, CountersOK
<1>4. QED
  BY <1>1, <1>2, <1>3

\* validate's loads.
LEMMA ValidateInv ==
  ASSUME MonitorInv, ValidateNumRead \/ ValidateNumWritten \/ ValidateReadVPtr
  PROVE  MonitorInv'
<1> USE DEF locals, results
<1>1. /\ PipeInv' /\ CountersOK'
      /\ UNCHANGED <<numRead, numWritten, readVPtr, writeVPtr, rpc, wpc>>
      /\ UNCHANGED <<caller, alarms, items>>
  BY ObserveFrame DEF ValidateNumRead, ValidateNumWritten, ValidateReadVPtr
<1>2. NoFalseAlarm' /\ CountersInOrder' /\ CountNotNegative'
  BY <1>1 DEF MonitorInv, NoFalseAlarm, CountersInOrder, CountNotNegative
<1>3. numRead \in Nat /\ numWritten \in Nat /\ numRead <= numWritten
  BY CountersBehind DEF MonitorInv, ReadBehindWritten
<1>4. readVPtr \in Position /\ InWindow(readVPtr, writeVPtr)
  BY DEF MonitorInv, PipeInv, TypeOK, ContentsOK
<1>5. CASE ValidateNumRead
  <2>1. /\ mpc' = "numWritten" /\ mNumRead' = numRead /\ UNCHANGED <<mNumWritten, mReadVPtr>>
        /\ caller = "reader" => rpc = "idle"
        /\ caller = "writer" => wpc = "idle"
    BY <1>5 DEF ValidateNumRead
  <2>2. numRead <= numRead
    BY <1>3
  <2>3. SamplesOK' /\ OwnSideStill'
    BY <1>1, <1>3, <2>1, <2>2 DEF MonitorInv, SamplesOK, OwnSideStill
  <2>4. QED
    BY <1>1, <1>2, <2>3 DEF MonitorInv
<1>6. CASE ValidateNumWritten
  <2>1. /\ mpc = "numWritten" /\ mpc' = "readVPtr" /\ mNumWritten' = numWritten
        /\ UNCHANGED <<mNumRead, mReadVPtr>>
    BY <1>6 DEF ValidateNumWritten
  <2>2. mNumRead <= numWritten
    BY <1>3, <2>1 DEF MonitorInv, SamplesOK
  <2>3. SamplesOK' /\ OwnSideStill'
    BY <1>1, <1>3, <2>1, <2>2 DEF MonitorInv, SamplesOK, OwnSideStill
  <2>4. QED
    BY <1>1, <1>2, <2>3 DEF MonitorInv
<1>7. CASE ValidateReadVPtr
  <2>1. /\ mpc = "readVPtr" /\ mpc' = "writeVPtr" /\ mReadVPtr' = readVPtr
        /\ UNCHANGED <<mNumRead, mNumWritten>>
    BY <1>7 DEF ValidateReadVPtr
  <2>2. SamplesOK' /\ OwnSideStill'
    BY <1>1, <1>4, <2>1 DEF MonitorInv, SamplesOK, OwnSideStill
  <2>3. QED
    BY <1>1, <1>2, <2>2 DEF MonitorInv
<1>8. QED
  BY <1>5, <1>6, <1>7

\* validate's last load, and its tests.
LEMMA TestsInv ==
  ASSUME MonitorInv, ValidateWriteVPtr PROVE MonitorInv'
<1> USE DEF locals, results
<1>1. /\ PipeInv' /\ CountersOK'
      /\ UNCHANGED <<numRead, numWritten, readVPtr, writeVPtr, rpc, wpc>>
      /\ UNCHANGED <<caller, mNumRead, mNumWritten, mReadVPtr, items>>
      /\ mpc = "writeVPtr" /\ mpc' = "idle"
      /\ alarms' = Alarms(mNumRead, mNumWritten, mReadVPtr, writeVPtr)
  BY ObserveFrame DEF ValidateWriteVPtr
<1>2. /\ mNumRead \in Nat /\ mNumWritten \in Nat /\ mNumRead <= mNumWritten
      /\ mReadVPtr \in Position /\ writeVPtr \in Position
  BY <1>1 DEF MonitorInv, SamplesOK, PipeInv, TypeOK
<1>3. SamplesOK' /\ OwnSideStill' /\ CountNotNegative'
  BY <1>1 DEF MonitorInv, SamplesOK, OwnSideStill, CountNotNegative
<1>4. CountersInOrder'
  BY <1>1, <1>2, CountersPass DEF CountersInOrder
<1>5. NoFalseAlarm'
  <2>1. ASSUME caller # "third"
        PROVE  InWindow(mReadVPtr, writeVPtr)
    <3>1. CASE caller = "reader"
      BY <1>1, <3>1 DEF MonitorInv, OwnSideStill, PipeInv, ContentsOK
    <3>2. CASE caller = "writer"
      BY <1>1, <3>2 DEF MonitorInv, OwnSideStill
    <3>3. QED
      BY <2>1, <3>1, <3>2 DEF MonitorInv, SamplesOK
  <2>2. QED
    BY <1>1, <1>2, <2>1, HealthyPasses DEF NoFalseAlarm
<1>6. QED
  BY <1>1, <1>3, <1>4, <1>5 DEF MonitorInv

\* count's first load.
LEMMA CountFirstInv ==
  ASSUME MonitorInv, CountFirst("numRead") \/ CountFirst("numWritten") PROVE MonitorInv'
<1> USE DEF locals, results
<1>1. /\ PipeInv' /\ CountersOK'
      /\ UNCHANGED <<numRead, numWritten, readVPtr, writeVPtr, rpc, wpc>>
      /\ UNCHANGED <<caller, mReadVPtr, alarms, items>>
      /\ caller = "reader" => rpc = "idle"
      /\ caller = "writer" => wpc = "idle"
  BY ObserveFrame DEF CountFirst
<1>2. NoFalseAlarm' /\ CountersInOrder' /\ CountNotNegative'
  BY <1>1 DEF MonitorInv, NoFalseAlarm, CountersInOrder, CountNotNegative
<1>3. numRead \in Nat /\ numWritten \in Nat /\ numRead <= numWritten
  BY CountersBehind DEF MonitorInv, ReadBehindWritten
<1>4. /\ \/ mpc' = "count numWritten" /\ mNumRead' = numRead /\ mNumWritten' = mNumWritten
         \/ mpc' = "count numRead" /\ mNumWritten' = numWritten /\ mNumRead' = mNumRead
      /\ numRead <= numRead /\ numWritten <= numWritten
  <2>1. numRead <= numRead /\ numWritten <= numWritten
    BY <1>3
  <2>2. CASE CountFirst("numRead")
    BY <2>1, <2>2 DEF CountFirst
  <2>3. CASE CountFirst("numWritten")
    BY <2>1, <2>3 DEF CountFirst
  <2>4. QED
    BY <2>2, <2>3
<1>5. SamplesOK' /\ OwnSideStill'
  BY <1>1, <1>3, <1>4 DEF MonitorInv, SamplesOK, OwnSideStill
<1>6. QED
  BY <1>1, <1>2, <1>5 DEF MonitorInv

\* count's second load, and its result.
LEMMA CountSecondInv ==
  ASSUME MonitorInv, CountSecond PROVE MonitorInv'
<1> USE DEF locals, results
<1>1. /\ PipeInv' /\ CountersOK'
      /\ UNCHANGED <<numRead, numWritten, readVPtr, writeVPtr, rpc, wpc>>
      /\ UNCHANGED <<caller, mNumRead, mNumWritten, mReadVPtr, alarms>>
      /\ mpc' = "idle"
  BY ObserveFrame DEF CountSecond
<1>2. NoFalseAlarm' /\ CountersInOrder' /\ SamplesOK' /\ OwnSideStill'
  BY <1>1 DEF MonitorInv, NoFalseAlarm, CountersInOrder, SamplesOK, OwnSideStill
<1>3. /\ numRead \in Nat /\ numWritten \in Nat /\ numRead <= numWritten
      /\ numWritten <= MaxWrites /\ MaxWrites \in Nat
  BY CountersBehind, PipeAssumption DEF MonitorInv, ReadBehindWritten, CountersOK
<1>4. mNumRead \in Nat /\ mNumWritten \in Nat
  BY DEF MonitorInv, SamplesOK
<1>5. CountNotNegative'
  <2>1. SUFFICES ASSUME caller # "third" PROVE items' <= MaxWrites
    BY <1>1 DEF CountNotNegative
  <2>2. CASE mpc = "count numWritten" /\ items' = (numWritten - mNumRead) % WORD
    <3>1. mNumRead <= numRead
      BY <2>2 DEF MonitorInv, SamplesOK
    <3>2. numWritten - mNumRead \in Nat /\ numWritten - mNumRead <= MaxWrites
      BY <1>3, <1>4, <3>1
    <3>3. (numWritten - mNumRead) % WORD <= MaxWrites
      BY <1>3, <3>2, ModSmaller
    <3>4. QED
      BY <2>2, <3>3
  <2>3. CASE mpc = "count numRead" /\ items' = (mNumWritten - numRead) % WORD
    <3>1. mNumWritten <= numWritten /\ numRead <= mNumWritten
      BY <2>1, <2>3 DEF MonitorInv, SamplesOK
    <3>2. mNumWritten - numRead \in Nat /\ mNumWritten - numRead <= MaxWrites
      BY <1>3, <1>4, <3>1
    <3>3. (mNumWritten - numRead) % WORD <= MaxWrites
      BY <1>3, <3>2, ModSmaller
    <3>4. QED
      BY <2>3, <3>3
  <2>4. QED
    BY <2>2, <2>3 DEF CountSecond
<1>6. QED
  BY <1>1, <1>2, <1>5 DEF MonitorInv

\* Nothing has been loaded yet.
LEMMA MonitorInitInv == MonitorInit => MonitorInv
<1> SUFFICES ASSUME MonitorInit PROVE MonitorInv
  OBVIOUS
<1>1. PipeInv
  BY InitInv DEF MonitorInit
<1>2. readVPtr \in Position
  BY <1>1 DEF PipeInv, TypeOK
<1>3. CountersOK
  BY PipeAssumption DEF MonitorInit, Init, clear, CountersOK
<1>4. SamplesOK /\ OwnSideStill
  BY <1>2, CallersAssumption DEF MonitorInit, SamplesOK, OwnSideStill
<1>5. NoFalseAlarm /\ CountersInOrder /\ CountNotNegative
  BY PipeAssumption DEF MonitorInit, NoFalseAlarm, CountersInOrder, CountNotNegative
<1>6. QED
  BY <1>1, <1>3, <1>4, <1>5 DEF MonitorInv

\* Every step, of the observer or of the pipe, keeps the invariant.
LEMMA MonitorStepInv == MonitorInv /\ [Observe \/ PipeStep]_mvars => MonitorInv'
<1> SUFFICES ASSUME MonitorInv, [Observe \/ PipeStep]_mvars PROVE MonitorInv'
  OBVIOUS
<1>1. CASE Observe
  BY <1>1, ValidateInv, TestsInv, CountFirstInv, CountSecondInv DEF Observe
<1>2. CASE PipeStep
  BY <1>2, PipeStepInv
<1>3. CASE UNCHANGED mvars
  <2>1. UNCHANGED vars /\ UNCHANGED <<caller, mpc, locals, results>>
    BY <1>3, Zenon DEF mvars
  <2>2. /\ PipeInv' /\ CountersOK'
        /\ UNCHANGED <<numRead, numWritten, readVPtr, writeVPtr, rpc, wpc>>
    BY <2>1, ObserveFrame
  <2>3. SamplesOK' /\ OwnSideStill' /\ NoFalseAlarm' /\ CountersInOrder' /\ CountNotNegative'
    BY <2>1, <2>2 DEF MonitorInv, SamplesOK, OwnSideStill, NoFalseAlarm, CountersInOrder,
      CountNotNegative, locals, results
  <2>4. QED
    BY <2>2, <2>3 DEF MonitorInv
<1>4. QED
  BY <1>1, <1>2, <1>3

-----------------------------------------------------------------------------
(* The theorems about the observers.                                       *)

\* The inductive invariant of the observers and the pipe.
LEMMA MonitorInvariance == MonitorSpec => []MonitorInv
  BY MonitorInitInv, MonitorStepInv, PTL DEF MonitorSpec

\* validate, called by the reader or the writer, finds a healthy pipe healthy.
THEOREM ValidateIsSound == MonitorSpec => []NoFalseAlarm
<1>1. MonitorInv => NoFalseAlarm
  BY DEF MonitorInv
<1>2. QED
  BY <1>1, MonitorInvariance, PTL

\* Nobody ever sees numRead_ ahead of numWritten_.
THEOREM CountersNeverCross == MonitorSpec => []CountersInOrder
<1>1. MonitorInv => CountersInOrder
  BY DEF MonitorInv
<1>2. QED
  BY <1>1, MonitorInvariance, PTL

\* count, called by the reader or the writer, is never negative.
THEOREM CountIsSane == MonitorSpec => []CountNotNegative
<1>1. MonitorInv => CountNotNegative
  BY DEF MonitorInv
<1>2. QED
  BY <1>1, MonitorInvariance, PTL

-----------------------------------------------------------------------------
(* The timed wait.  The clock's distance to the deadline and the time      *)
(* really spent add up to the timeout, or to more after the clock was set  *)
(* back, as long as nobody sets it forward.                                *)

TimerInv ==
  /\ remaining \in Nat /\ waited \in 0 .. TimeOut
  /\ rpc \in Polling => setForward \/ remaining + waited >= TimeOut
  /\ NoEarlyTimeout

\* A step of the pipe itself does not enter the polling loop.
LEMMA PipeKeepsTimer ==
  ASSUME TimerInv, Next, UNCHANGED timer PROVE TimerInv'
<1> USE DEF pointers, counters, flags, call, writer, copy, reader
<1>1. UNCHANGED <<remaining, timedOut, waited, setForward>>
  BY DEF timer
<1>2. rpc' \in Polling => rpc' = rpc
  BY DEF Polling, Next, WriterCall, WriterStep, ReaderStep, ControlStep, Push, PushTooLarge,
    WriteIsFull, WriteIsRunning, WriteInterrupted, WriteWouldBlock, WriteReserve, WriteHeader,
    WriteData, WriteCount, WritePublish, Pop, WaitIsEmpty, WaitIsRunning,
    ReadHeader, ReadData, ReadRelease, ReadCount, StopWriter, StartWriter,
    StartReader
<1>3. QED
  BY <1>1, <1>2 DEF TimerInv, NoEarlyTimeout

\* The steps of wait.
LEMMA WaitKeepsTimer ==
  ASSUME TimerInv, TimedRead \/ Peek \/ ShortRead \/ ReaderEnds \/ TimedStep PROVE TimerInv'
<1>0. TimeOut \in Nat
  BY WaitAssumption
<1>1. CASE TimedRead \/ Peek \/ ShortRead \/ ReaderEnds \/ Nanosleep \/ PeekReturns
  <2>1. UNCHANGED <<remaining, timedOut, waited, setForward>>
    BY <1>1, Zenon DEF TimedRead, Peek, ShortRead, ReaderEnds, Nanosleep, PeekReturns, timer
  <2>2. rpc' \notin Polling
    BY <1>1 DEF TimedRead, Peek, ShortRead, ReaderEnds, Nanosleep, PeekReturns, Polling
  <2>3. QED
    BY <2>1, <2>2 DEF TimerInv, NoEarlyTimeout
<1>2. CASE TimedIsEmpty \/ TimedIsRunning
  <2>1. UNCHANGED <<remaining, timedOut, waited, setForward>>
    BY <1>2, Zenon DEF TimedIsEmpty, TimedIsRunning, timer
  <2>2. rpc \in Polling
    BY <1>2 DEF TimedIsEmpty, TimedIsRunning, Polling
  <2>3. QED
    BY <2>1, <2>2 DEF TimerInv, NoEarlyTimeout
<1>3. CASE TimedDeadline
  <2>1. remaining' = TimeOut /\ waited' = 0 /\ ~timedOut'
    BY <1>3, Zenon DEF TimedDeadline
  <2>2. remaining' + waited' >= TimeOut /\ waited' \in 0 .. TimeOut
    BY <1>0, <2>1
  <2>3. QED
    BY <1>0, <2>1, <2>2 DEF TimerInv, NoEarlyTimeout
<1>4. CASE TimedNow
  <2>1. /\ rpc \in Polling /\ timedOut' = (remaining = 0)
        /\ UNCHANGED <<remaining, waited, setForward>>
    BY <1>4 DEF TimedNow, Polling
  <2>2. remaining = 0 => setForward \/ waited >= TimeOut
    BY <1>0, <2>1 DEF TimerInv
  <2>3. QED
    BY <2>1, <2>2 DEF TimerInv, NoEarlyTimeout
<1>5. CASE GettimeofdayFails \/ TimedReturns
  <2>1. remaining' = 0 /\ waited' = 0 /\ ~timedOut'
    BY <1>5, Zenon DEF GettimeofdayFails, TimedReturns, EndOfWait
  <2>2. rpc' \notin Polling
    BY <1>5 DEF GettimeofdayFails, TimedReturns, Polling
  <2>3. waited' \in 0 .. TimeOut
    BY <1>0, <2>1
  <2>4. QED
    BY <2>1, <2>2, <2>3 DEF TimerInv, NoEarlyTimeout
<1>6. QED
  BY <1>1, <1>2, <1>3, <1>4, <1>5 DEF TimedStep

\* Time goes on, and the clock is set.
LEMMA ClockKeepsTimer ==
  ASSUME TimerInv, Tick \/ SetClock PROVE TimerInv'
<1>0. TimeOut \in Nat /\ remaining \in Nat /\ waited \in 0 .. TimeOut
  BY WaitAssumption DEF TimerInv
<1>1. rpc' = rpc /\ timedOut' = timedOut /\ rpc \in Polling
  BY Zenon DEF Tick, SetClock, vars, reader
<1>2. setForward \/ remaining + waited >= TimeOut
  BY <1>1 DEF TimerInv
<1>3. CASE Tick
  <2>1. /\ remaining' = IF remaining > 0 THEN remaining - 1 ELSE 0
        /\ waited' = IF waited < TimeOut THEN waited + 1 ELSE TimeOut
        /\ setForward' = setForward
    BY <1>3 DEF Tick
  <2>2. remaining' \in Nat /\ waited' \in 0 .. TimeOut /\ waited <= waited'
    BY <1>0, <2>1
  <2>3. setForward' \/ remaining' + waited' >= TimeOut
    BY <1>0, <1>2, <2>1
  <2>4. waited >= TimeOut => waited' >= TimeOut
    BY <1>0, <2>2
  <2>5. QED
    BY <1>1, <2>1, <2>2, <2>3, <2>4 DEF TimerInv, NoEarlyTimeout
<1>4. CASE SetClock
  <2>1. /\ waited' = waited
        /\ \/ remaining' = remaining + 1 /\ setForward' = setForward
           \/ remaining' = 0 /\ setForward' = TRUE
    BY <1>4 DEF SetClock
  <2>2. remaining' \in Nat
    BY <1>0, <2>1
  <2>3. setForward' \/ remaining' + waited' >= TimeOut
    BY <1>0, <1>2, <2>1
  <2>4. QED
    BY <1>1, <2>1, <2>2, <2>3 DEF TimerInv, NoEarlyTimeout
<1>5. QED
  BY <1>3, <1>4

\* A timed read reports a timeout only when the timeout has passed, whoever
\* sets the clock back and however often.
THEOREM TimeoutNotEarly == WaitSpec => []NoEarlyTimeout
<1>1. WaitInit => TimerInv
  BY WaitAssumption DEF WaitInit, Init, TimerInv, Polling, NoEarlyTimeout
<1>2. TimerInv /\ [WaitNext]_waitVars => TimerInv'
  <2>1. SUFFICES ASSUME TimerInv, [WaitNext]_waitVars PROVE TimerInv'
    OBVIOUS
  <2>2. CASE WaitNext
    BY <2>1, <2>2, PipeKeepsTimer, WaitKeepsTimer, ClockKeepsTimer DEF WaitNext
  <2>3. CASE UNCHANGED waitVars
    <3>1. UNCHANGED <<rpc, remaining, timedOut, waited, setForward>>
      BY <2>3, Zenon DEF waitVars, vars, timer, reader
    <3>2. QED
      BY <2>1, <3>1 DEF TimerInv, NoEarlyTimeout
  <2>4. QED
    BY <2>1, <2>2, <2>3
<1>3. TimerInv => NoEarlyTimeout
  BY DEF TimerInv
<1>4. QED
  BY <1>1, <1>2, <1>3, PTL DEF WaitSpec
=============================================================================
