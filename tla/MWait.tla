------------------------------- MODULE MWait -------------------------------
(***************************************************************************)
(* lockless_pipe/mwait.cpp: the single-threaded trials of main, then one   *)
(* thread that stores to WaitLocation and one that waits for it with the   *)
(* SPARC instruction MWAIT.                                                *)
(*                                                                         *)
(* MWAITWhileEqual32 is two steps: the load that arms the monitor of the   *)
(* cache line, with the comparison, and the wait, which ends when the line *)
(* is invalidated, after the timeout, or for no reason.  Time is a counter *)
(* that stands at MaxClock, when every timeout is due.                     *)
(***************************************************************************)
EXTENDS Integers, FiniteSets

CONSTANTS
  Trials,      \* waits of the single-threaded part
  MaxMWait,    \* longest MWAIT, in ticks
  Duration,    \* how long the wakee runs, in ticks
  MaxClock,    \* bound: of the clock
  MaxUpdates   \* bound: number of stores of the waker

ASSUME MWaitAssumption ==
  /\ Trials \in Nat /\ MaxMWait \in Nat /\ Duration \in Nat
  /\ MaxClock \in Nat /\ MaxUpdates \in Nat

VARIABLES
  clock,
  WaitLocation, UpdateTime,
  armed,       \* the monitor of the wakee's processor
  pc, left,    \* main: its next step, trials left
  since, rv,   \* MWAITWhileEqual32: when the wait began, the result
  seen,        \* ghost: MWAIT has returned because of the store
  fini, cmp, Done,  \* main: its locals
  latency,     \* what main printed last
  upc,         \* the waker's next step
  stamps       \* ghost: UpdateTime of the updates begun, in order

shared == <<clock, WaitLocation, UpdateTime, armed>>
mwait  == <<since, rv, seen>>
main   == <<left, fini, cmp, Done, latency>>
waker  == <<upc, stamps>>
vars   == <<shared, mwait, pc, main, waker>>

begun == Cardinality(DOMAIN stamps)
Due(time) == clock >= time \/ clock = MaxClock

Init ==
  /\ clock = 0 /\ WaitLocation = 11 /\ UpdateTime = 0 /\ armed = FALSE
  /\ since = 0 /\ rv = 0 /\ seen = FALSE
  /\ pc = "start" /\ left = Trials
  /\ fini = 0 /\ cmp = 0 /\ Done = 0 /\ latency = 0
  /\ upc = "none" /\ stamps = [n \in {} |-> 0]

Tick ==
  /\ clock < MaxClock
  /\ clock' = clock + 1
  /\ UNCHANGED <<WaitLocation, UpdateTime, armed, mwait, pc, main, waker>>

-----------------------------------------------------------------------------
(* MWAITWhileEqual32(&WaitLocation, value, timeout).  The trials and the   *)
(* wakee are the only callers, one after the other.                        *)

Waiting == pc \in {"trial_wait", "wait"}
Return  == pc' = IF pc = "trial_wait" THEN "trial" ELSE "done"

\* lduwa [A]0x84; xorcc; bnz: load and arm; skip the wait if they differ.
LoadMonitor(value, wait, skip) ==
  /\ armed' = TRUE
  /\ rv' = IF WaitLocation = value THEN 0 ELSE 1
  /\ pc' = IF WaitLocation = value THEN wait ELSE skip
  /\ since' = clock
  /\ seen' = (WaitLocation # value)

\* The line is invalidated by a store of another processor.
WakeByStore ==
  /\ Waiting /\ ~armed
  /\ seen' = TRUE /\ Return
  /\ UNCHANGED <<shared, since, rv, main, waker>>

WakeByTimeout ==
  /\ Waiting /\ Due(since + MaxMWait)
  /\ Return
  /\ UNCHANGED <<shared, mwait, main, waker>>

\* "MWAIT admits spurious wakeups": a displaced line, an interrupt.
SpuriousWake ==
  /\ Waiting /\ Return
  /\ UNCHANGED <<shared, mwait, main, waker>>

-----------------------------------------------------------------------------
(* main                                                                    *)

\* HasMWAIT, or "CPU does not support MWAIT" and return 0.
HasMWAIT ==
  /\ pc = "start"
  /\ pc' \in {"trial", "end"}
  /\ UNCHANGED <<shared, mwait, main, waker>>

\* One MWAIT with a timeout and nobody to store.
Trial ==
  /\ pc = "trial" /\ left > 0
  /\ left' = left - 1
  /\ LoadMonitor(11, "trial_wait", "trial")
  /\ UNCHANGED <<clock, WaitLocation, UpdateTime, fini, cmp, Done, latency, waker>>

\* WaitLocation = 0, start the waker, fini = gethrtime() + 20 s.
StartWaker ==
  /\ pc = "trial" /\ left = 0
  /\ WaitLocation' = 0 /\ upc' = "poll"
  /\ fini' = clock + Duration
  /\ pc' = "loop"
  /\ UNCHANGED <<clock, UpdateTime, armed, mwait, left, cmp, Done, latency, stamps>>

\* Mutant: the end of the loop is never tested.
LoopForever ==
  /\ pc = "loop"
  /\ cmp' = WaitLocation
  /\ pc' = "mwait"
  /\ UNCHANGED <<shared, mwait, left, fini, Done, latency, waker>>

\* if (t >= fini) break; cmp = WaitLocation
Loop ==
  /\ pc = "loop"
  /\ IF Due(fini) THEN pc' = "end" /\ UNCHANGED cmp
                  ELSE pc' = "mwait" /\ cmp' = WaitLocation
  /\ UNCHANGED <<shared, mwait, left, fini, Done, latency, waker>>

\* Mutant: an MWAIT that loads first and arms the monitor afterwards.
MWaitLateArm ==
  \/ /\ pc = "mwait"
     /\ rv' = IF WaitLocation = cmp THEN 0 ELSE 1
     /\ pc' = IF WaitLocation = cmp THEN "arm" ELSE "done"
     /\ seen' = (WaitLocation # cmp)
     /\ UNCHANGED <<shared, since, main, waker>>
  \/ /\ pc = "arm"
     /\ armed' = TRUE /\ since' = clock /\ pc' = "wait"
     /\ UNCHANGED <<clock, WaitLocation, UpdateTime, rv, seen, main, waker>>

MWait ==
  /\ pc = "mwait"
  /\ LoadMonitor(cmp, "wait", "done")
  /\ UNCHANGED <<clock, WaitLocation, UpdateTime, main, waker>>

\* Mutant: Done is when the wait began.
TakeDoneEarly ==
  /\ pc = "done"
  /\ Done' = since
  /\ pc' = "test"
  /\ UNCHANGED <<shared, mwait, left, fini, cmp, latency, waker>>

TakeDone ==
  /\ pc = "done"
  /\ Done' = clock
  /\ pc' = "test"
  /\ UNCHANGED <<shared, mwait, left, fini, cmp, latency, waker>>

\* if (cmp != WaitLocation) ...: two loads, of WaitLocation and UpdateTime.
TestChanged ==
  /\ pc = "test"
  /\ pc' = IF cmp # WaitLocation THEN "print" ELSE "loop"
  /\ UNCHANGED <<shared, mwait, main, waker>>

\* printf Done - UpdateTime.  What follows only reports short waits.
PrintLatency ==
  /\ pc = "print"
  /\ latency' = Done - UpdateTime
  /\ pc' = "loop"
  /\ UNCHANGED <<shared, mwait, left, fini, cmp, Done, waker>>

-----------------------------------------------------------------------------
(* The waker.                                                              *)

\* poll for a second; UpdateTime = gethrtime()
UpdateStamp ==
  /\ upc = "poll" /\ begun < MaxUpdates
  /\ UpdateTime' = clock
  /\ stamps' = [n \in 1 .. (begun + 1) |-> IF n <= begun THEN stamps[n] ELSE clock]
  /\ upc' = "store"
  /\ UNCHANGED <<clock, WaitLocation, armed, mwait, pc, main>>

\* WaitLocation = WaitLocation + 1, which invalidates the wakee's line.
UpdateStore ==
  /\ upc = "store"
  /\ WaitLocation' = WaitLocation + 1
  /\ armed' = FALSE
  /\ upc' = "poll"
  /\ UNCHANGED <<clock, UpdateTime, mwait, pc, main, stamps>>

-----------------------------------------------------------------------------
Main ==
  \/ HasMWAIT \/ Trial \/ StartWaker \/ Loop \/ MWait \/ TakeDone \/ TestChanged
  \/ PrintLatency \/ WakeByStore \/ WakeByTimeout

Next == Main \/ SpuriousWake \/ Tick \/ UpdateStamp \/ UpdateStore

\* The wakee is scheduled and time passes; the waker need not do anything.
Spec == Init /\ [][Next]_vars /\ WF_vars(Main) /\ WF_vars(Tick)

-----------------------------------------------------------------------------
\* The store may come before the load of MWAIT, between load and wait or
\* during the wait: the wakee never sleeps on a value that has changed.
NoMissedStore == pc = "wait" /\ armed => WaitLocation = cmp

\* "observed store-to-mwait-return latency": a latency is printed only after
\* an update, and is never more than the time from the stamp of the first
\* update since cmp was loaded, the one waited for.  It is that time if no
\* later update has begun, and then not negative if MWAIT returned because of
\* the store.  (After a spurious return the store may come between Done and
\* the test of WaitLocation; the stamp of a later update makes the latency
\* too small.)
LatencyOfUpdate ==
  [][pc = "print" /\ pc' = "loop" =>
       /\ cmp + 1 \in DOMAIN stamps
       /\ latency' <= Done - stamps[cmp + 1]
       /\ begun = cmp + 1 =>
            latency' = Done - stamps[cmp + 1] /\ (seen => latency' >= 0)]_vars

\* "We expect these to terminate via timeout": the program comes to its end
\* without a spurious wakeup and with a waker that does nothing.
Terminates == <>(pc = "end")
=============================================================================
