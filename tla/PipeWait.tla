------------------------------ MODULE PipeWait ------------------------------
(***************************************************************************)
(* LocklessPipe with the reader's other ways to wait: peek, and read with  *)
(* a timeout.  wait sleeps once for a timeout below a millisecond (peek    *)
(* passes 0); for a longer one it polls the pipe and the wall clock, which *)
(* somebody may set while it waits.                                        *)
(*                                                                         *)
(* Time is in units of SLEEP_ON_BLOCK_USECS.  Of the wall clock only its   *)
(* distance to the deadline is kept: remaining is timeoutNSecs - now.  The *)
(* uint64_t sum timeOut + now is taken not to wrap: now is below 2^61 ns,  *)
(* so this leaves out timeouts of more than five hundred years.            *)
(* The reader's thread may end, between two calls.                         *)
(* PreWaitFunctor is the application's and changes nothing here.           *)
(***************************************************************************)
EXTENDS LocklessPipe

CONSTANTS
  TimeOut,         \* read's timeOut, at least a millisecond
  MaxAdjustments   \* bound: times the wall clock is set

ASSUME WaitAssumption == TimeOut \in Nat \ {0} /\ MaxAdjustments \in Nat

VARIABLES
  remaining,    \* timeoutNSecs minus the wall clock, 0 when it has passed
  timedOut,     \* timedOut
  waited,       \* ghost: real time since the first gettimeofday, up to TimeOut
  setForward,   \* ghost: the wall clock was set forward during this wait
  adjustments   \* times the wall clock was set

timer    == <<remaining, timedOut, waited, setForward, adjustments>>
waitVars == <<vars, timer>>

others == <<pointers, counters, flags, buf, writer, copy, log>>

WaitInit ==
  /\ Init
  /\ remaining = 0 /\ timedOut = FALSE /\ waited = 0 /\ setForward = FALSE
  /\ adjustments = 0

\* wait's locals end with the call.
EndOfWait ==
  /\ remaining' = 0 /\ timedOut' = FALSE /\ waited' = 0 /\ setForward' = FALSE
  /\ UNCHANGED adjustments

-----------------------------------------------------------------------------
(* The polling wait.                                                       *)

TimedRead ==
  /\ rpc = "idle"
  /\ rpc' = "deadline"
  /\ UNCHANGED <<others, timer>>

\* Mutant: the timeout is not added to the time of day.
TimedDeadlineNow ==
  /\ rpc = "deadline"
  /\ remaining' = 0
  /\ timedOut' = FALSE /\ waited' = 0 /\ setForward' = FALSE
  /\ rpc' = "timed isEmpty"
  /\ UNCHANGED <<others, adjustments>>

\* timeoutNSecs = timeOut + the time of day
TimedDeadline ==
  /\ rpc = "deadline"
  /\ remaining' = TimeOut
  /\ timedOut' = FALSE /\ waited' = 0 /\ setForward' = FALSE
  /\ rpc' = "timed isEmpty"
  /\ UNCHANGED <<others, adjustments>>

\* while (isEmpty() && ...
TimedIsEmpty ==
  /\ rpc = "timed isEmpty"
  /\ rpc' = IF isEmpty(readVPtr, writeVPtr) THEN "timed isRunning" ELSE "timed check"
  /\ UNCHANGED <<others, timer>>

\* ... isReaderRunning_ && !timedOut) usleep(SLEEP_ON_BLOCK_USECS);
TimedIsRunning ==
  /\ rpc = "timed isRunning"
  /\ rpc' = IF isReaderRunning /\ ~timedOut THEN "timed now" ELSE "timed check"
  /\ UNCHANGED <<others, timer>>

\* Mutant: what gettimeofday returned is not looked at.
TimedNowIgnored ==
  /\ rpc = "timed now"
  /\ rpc' = "timed isEmpty"
  /\ UNCHANGED <<others, timer>>

\* if (currtimeNSecs >= timeoutNSecs) timedOut = true;
TimedNow ==
  /\ rpc = "timed now"
  /\ timedOut' = (remaining = 0)
  /\ rpc' = "timed isEmpty"
  /\ UNCHANGED <<others, remaining, waited, setForward, adjustments>>

\* throw Errno("returned from gettimeofday")
GettimeofdayFails ==
  /\ rpc \in {"deadline", "timed now"}
  /\ rpc' = "idle"
  /\ EndOfWait
  /\ UNCHANGED others

\* read: 0 if there is still nothing, else the element is taken as in pop.
TimedReturns ==
  /\ rpc = "timed check"
  /\ rpc' = IF isEmpty(readVPtr, writeVPtr) THEN "idle" ELSE "check"
  /\ EndOfWait
  /\ UNCHANGED others

-----------------------------------------------------------------------------
(* The timeout below a millisecond.                                        *)

\* read(buf, peek, timeOut): one nanosleep, data or no data.
Peek      == rpc = "idle" /\ rpc' = "nanosleep peek" /\ UNCHANGED <<others, timer>>
ShortRead == rpc = "idle" /\ rpc' = "nanosleep" /\ UNCHANGED <<others, timer>>

Nanosleep ==
  /\ \/ rpc = "nanosleep peek" /\ rpc' = "peek"
     \/ rpc = "nanosleep" /\ rpc' = "timed check"
  /\ UNCHANGED <<others, timer>>

\* Copies the element, if there is one, and leaves it in the pipe.
PeekReturns ==
  /\ rpc = "peek"
  /\ rpc' = "idle"
  /\ UNCHANGED <<others, timer>>

\* The reader's thread ends: the application pops no more.
ReaderEnds == rpc = "idle" /\ rpc' = "ended" /\ UNCHANGED <<others, timer>>

-----------------------------------------------------------------------------
(* The clock.                                                              *)

Polling == {"timed isEmpty", "timed isRunning", "timed now"}
Waiting == Polling \cup {"deadline", "timed check", "nanosleep", "nanosleep peek", "peek"}

Tick ==
  /\ rpc \in Polling
  /\ remaining > 0 \/ waited < TimeOut
  /\ remaining' = IF remaining > 0 THEN remaining - 1 ELSE 0
  /\ waited' = IF waited < TimeOut THEN waited + 1 ELSE TimeOut
  /\ UNCHANGED <<vars, timedOut, setForward, adjustments>>

\* The administrator sets the wall clock, finitely often.
SetClock ==
  /\ rpc \in Polling
  /\ adjustments < MaxAdjustments
  /\ adjustments' = adjustments + 1
  /\ \/ remaining' = remaining + 1 /\ UNCHANGED setForward
     \/ remaining' = 0 /\ setForward' = TRUE
  /\ UNCHANGED <<vars, timedOut, waited>>

-----------------------------------------------------------------------------
TimedStep ==
  \/ TimedDeadline \/ TimedIsEmpty \/ TimedIsRunning \/ TimedNow \/ GettimeofdayFails
  \/ TimedReturns \/ Nanosleep \/ PeekReturns

WaitNext ==
  \/ Next /\ UNCHANGED timer
  \/ TimedRead \/ Peek \/ ShortRead \/ ReaderEnds \/ TimedStep
  \/ Tick \/ SetClock

\* A thread inside the pipe is scheduled again, time goes on, and a reader
\* that comes back to its loop again and again, and does not end, calls pop
\* at times.
WaitFairness ==
  /\ WF_waitVars(WriterStep /\ UNCHANGED timer)
  /\ WF_waitVars((ReaderStep /\ rpc # "idle" /\ UNCHANGED timer) \/ TimedStep)
  /\ SF_waitVars(Pop /\ UNCHANGED timer)
  /\ WF_waitVars(Tick)

WaitSpec == WaitInit /\ [][WaitNext]_waitVars /\ WaitFairness

-----------------------------------------------------------------------------
\* The comment on MAX_PIPE_ELEMENT_SIZE: an element up to that size never
\* deadlocks.  Every push returns, wherever the pointers are, if there is a
\* reader.
PushReturns == (wpc # "idle") ~> (wpc = "idle" \/ rpc = "ended")

\* stopWriter gets a blocked push out of startWrite, reader or no reader.
StopReleasesWriter == (wpc # "idle" /\ ~isWriterRunning) ~> (wpc = "idle")

\* Every published element is read in the end by the polling reader, although
\* the writer may be stopped in the middle of a later push.
ElementsDelivered ==
  \A k \in 1 .. MaxWrites : (published >= k) ~> (consumed >= k \/ rpc = "ended")

\* A call with a timeout comes back, data or no data, although the clock
\* it polls may be set back while it waits.
TimedWaitEnds == (rpc \in Waiting) ~> (rpc \notin Waiting)

\* wait gives up by timeout only after the whole timeout has passed, unless
\* the wall clock was set forward: being set back never ends it early.
NoEarlyTimeout == timedOut => setForward \/ waited >= TimeOut
=============================================================================
