---------------------------- MODULE MWaitProofs ----------------------------
(***************************************************************************)
(* The mwait experiment: no store is missed and what it prints is the      *)
(* latency of the update it saw, for every number of trials and updates    *)
(* and every length of the waits.                                          *)
(***************************************************************************)
EXTENDS MWait, FiniteSetTheorems, TLAPS

\* The part of main that runs beside the waker.
Wakee == {"loop", "mwait", "wait", "done", "test", "print"}

\* Types.
MWaitTypes ==
  /\ clock \in Nat /\ UpdateTime \in Nat /\ WaitLocation \in Nat
  /\ cmp \in Nat /\ Done \in Nat
  /\ pc \in {"start", "trial", "trial_wait", "end"} \cup Wakee
  /\ upc \in {"none", "poll", "store"}
  /\ seen \in BOOLEAN /\ armed \in BOOLEAN

\* The waker: one stamp per update begun, and one store behind it.
WakerOK ==
  /\ begun \in Nat /\ DOMAIN stamps = 1 .. begun
  /\ UpdateTime <= clock
  /\ begun > 0 => UpdateTime = stamps[begun]
  /\ pc \in {"start", "trial", "trial_wait"} => upc = "none"
  /\ pc \in Wakee => upc # "none"
  /\ upc = "none" => begun = 0
  /\ upc = "poll" => WaitLocation = begun
  /\ upc = "store" => WaitLocation = begun - 1

\* The wakee: what it compares with is not newer than WaitLocation, and is
\* older once MWAIT has returned because of a store.
WakeeOK ==
  /\ pc \in {"mwait", "wait", "done", "test", "print"} => cmp <= WaitLocation
  /\ pc = "wait" /\ ~armed => cmp < WaitLocation
  /\ NoMissedStore
  /\ pc = "wait" => ~seen
  /\ pc \in {"done", "test", "print"} /\ seen => cmp < WaitLocation
  /\ pc \in {"test", "print"} /\ seen /\ begun = cmp + 1 => UpdateTime <= Done

MWaitInv == MWaitTypes /\ WakerOK /\ WakeeOK

\* Before anything runs.
LEMMA MWaitInit == Init => MWaitInv
<1> SUFFICES ASSUME Init PROVE MWaitInv
  OBVIOUS
<1>1. DOMAIN stamps = {} /\ 1 .. 0 = {}
  BY DEF Init
<1>2. begun = 0
  BY <1>1, FS_EmptySet DEF begun
<1>3. MWaitTypes
  BY DEF Init, MWaitTypes
<1>4. WakerOK
  <2>1. UpdateTime <= clock /\ pc = "start" /\ upc = "none"
    BY DEF Init
  <2>2. QED
    BY <1>1, <1>2, <2>1 DEF WakerOK, Wakee
<1>5. WakeeOK
  BY DEF Init, WakeeOK, NoMissedStore
<1>6. QED
  BY <1>3, <1>4, <1>5 DEF MWaitInv

-----------------------------------------------------------------------------
(* The steps of main.                                                      *)

\* They leave the waker, its stamps and the clock alone.
LEMMA MainFrame ==
  ASSUME Main \/ SpuriousWake
  PROVE  UNCHANGED <<clock, UpdateTime, stamps, begun>>
<1>1. UNCHANGED <<clock, UpdateTime, stamps>>
  BY DEF Main, SpuriousWake, HasMWAIT, Trial, StartWaker, Loop, MWait, TakeDone, TestChanged,
    PrintLatency, WakeByStore, WakeByTimeout, shared, waker
<1>2. QED
  BY <1>1 DEF begun

\* The trials, before there is a waker.
LEMMA TrialInv ==
  ASSUME MWaitInv, HasMWAIT \/ Trial \/ StartWaker PROVE MWaitInv'
<1> USE DEF shared, mwait, main, waker
<1>1. UNCHANGED <<clock, UpdateTime, stamps, begun>>
  BY MainFrame DEF Main
<1>2. CASE HasMWAIT
  <2>1. /\ pc = "start" /\ pc' \in {"trial", "end"}
        /\ UNCHANGED <<WaitLocation, armed, seen, cmp, Done, upc>>
    BY <1>2 DEF HasMWAIT
  <2>2. QED
    BY <1>1, <2>1 DEF MWaitInv, MWaitTypes, Wakee, WakerOK, WakeeOK, NoMissedStore
<1>3. CASE Trial
  <2>1. /\ pc = "trial" /\ pc' \in {"trial", "trial_wait"}
        /\ armed' \in BOOLEAN /\ seen' \in BOOLEAN
        /\ UNCHANGED <<WaitLocation, cmp, Done, upc>>
    BY <1>3 DEF Trial, LoadMonitor
  <2>2. QED
    BY <1>1, <2>1 DEF MWaitInv, MWaitTypes, Wakee, WakerOK, WakeeOK, NoMissedStore
<1>4. CASE StartWaker
  <2>1. /\ pc = "trial" /\ pc' = "loop" /\ WaitLocation' = 0 /\ upc' = "poll"
        /\ UNCHANGED <<armed, seen, cmp, Done>>
    BY <1>4 DEF StartWaker
  <2>2. begun = 0
    BY <2>1 DEF MWaitInv, WakerOK
  <2>3. QED
    BY <1>1, <2>1, <2>2 DEF MWaitInv, MWaitTypes, Wakee, WakerOK, WakeeOK, NoMissedStore
<1>5. QED
  BY <1>2, <1>3, <1>4

\* The wakee's loop and the return of MWAIT.
LEMMA WakeeInv ==
  ASSUME MWaitInv,
         Loop \/ MWait \/ TakeDone \/ TestChanged \/ PrintLatency
           \/ WakeByStore \/ WakeByTimeout \/ SpuriousWake
  PROVE  MWaitInv'
<1> USE DEF shared, mwait, main, waker
<1>1. UNCHANGED <<clock, UpdateTime, stamps, begun, WaitLocation, upc>>
  <2>1. UNCHANGED <<WaitLocation, upc>>
    BY DEF Loop, MWait, TakeDone, TestChanged, PrintLatency, WakeByStore, WakeByTimeout,
      SpuriousWake
  <2>2. QED
    BY <2>1, MainFrame DEF Main
<1>2. WaitLocation \in Nat /\ cmp \in Nat /\ clock \in Nat /\ UpdateTime \in Nat
  BY DEF MWaitInv, MWaitTypes
<1>3. CASE Loop
  <2>1. /\ pc = "loop" /\ UNCHANGED <<armed, seen, Done>>
        /\ \/ pc' = "end" /\ cmp' = cmp
           \/ pc' = "mwait" /\ cmp' = WaitLocation
    BY <1>3 DEF Loop
  <2>2. WaitLocation <= WaitLocation
    BY <1>2
  <2>3. QED
    BY <1>1, <2>1, <2>2 DEF MWaitInv, MWaitTypes, Wakee, WakerOK, WakeeOK, NoMissedStore
<1>4. CASE MWait
  <2>1. /\ pc = "mwait" /\ armed' = TRUE /\ seen' = (WaitLocation # cmp)
        /\ pc' = IF WaitLocation = cmp THEN "wait" ELSE "done"
        /\ UNCHANGED <<cmp, Done>>
    BY <1>4 DEF MWait, LoadMonitor
  <2>2. cmp <= WaitLocation
    BY <2>1 DEF MWaitInv, WakeeOK
  <2>3. CASE WaitLocation = cmp
    BY <1>1, <2>1, <2>2, <2>3
    DEF MWaitInv, MWaitTypes, Wakee, WakerOK, WakeeOK, NoMissedStore
  <2>4. CASE WaitLocation # cmp
    <3>1. cmp < WaitLocation
      BY <1>2, <2>2, <2>4
    <3>2. QED
      BY <1>1, <2>1, <2>2, <2>4, <3>1
      DEF MWaitInv, MWaitTypes, Wakee, WakerOK, WakeeOK, NoMissedStore
  <2>5. QED
    BY <2>3, <2>4
<1>5. CASE TakeDone
  <2>1. pc = "done" /\ pc' = "test" /\ Done' = clock /\ UNCHANGED <<armed, seen, cmp>>
    BY <1>5 DEF TakeDone
  <2>2. QED
    BY <1>1, <2>1 DEF MWaitInv, MWaitTypes, Wakee, WakerOK, WakeeOK, NoMissedStore
<1>6. CASE TestChanged \/ PrintLatency
  <2>1. /\ \/ pc = "test" /\ pc' \in {"print", "loop"}
           \/ pc = "print" /\ pc' = "loop"
        /\ UNCHANGED <<armed, seen, cmp, Done>>
    BY <1>6 DEF TestChanged, PrintLatency
  <2>2. QED
    BY <1>1, <2>1 DEF MWaitInv, MWaitTypes, Wakee, WakerOK, WakeeOK, NoMissedStore
<1>7. CASE WakeByStore
  <2>1. /\ \/ pc = "trial_wait" /\ pc' = "trial"
           \/ pc = "wait" /\ pc' = "done"
        /\ ~armed /\ seen' = TRUE /\ UNCHANGED <<armed, cmp, Done>>
    BY <1>7 DEF WakeByStore, Waiting, Return
  <2>2. QED
    BY <1>1, <2>1 DEF MWaitInv, MWaitTypes, Wakee, WakerOK, WakeeOK, NoMissedStore
<1>8. CASE WakeByTimeout \/ SpuriousWake
  <2>1. /\ \/ pc = "trial_wait" /\ pc' = "trial"
           \/ pc = "wait" /\ pc' = "done"
        /\ UNCHANGED <<armed, seen, cmp, Done>>
    BY <1>8 DEF WakeByTimeout, SpuriousWake, Waiting, Return
  <2>2. QED
    BY <1>1, <2>1 DEF MWaitInv, MWaitTypes, Wakee, WakerOK, WakeeOK, NoMissedStore
<1>9. QED
  BY <1>3, <1>4, <1>5, <1>6, <1>7, <1>8

-----------------------------------------------------------------------------
(* The clock and the waker.                                                *)

\* Time goes on.
LEMMA TickInv ==
  ASSUME MWaitInv, Tick PROVE MWaitInv'
<1>1. /\ clock' = clock + 1
      /\ UNCHANGED <<WaitLocation, UpdateTime, armed, seen, pc, cmp, Done, upc, stamps>>
  BY DEF Tick, mwait, main, waker
<1>2. clock' \in Nat /\ UpdateTime <= clock'
  <2>1. clock \in Nat /\ UpdateTime \in Nat /\ UpdateTime <= clock
    BY DEF MWaitInv, MWaitTypes, WakerOK
  <2>2. clock' = clock + 1
    BY <1>1
  <2>3. QED
    BY <2>1, <2>2
<1>3. begun' = begun
  BY <1>1 DEF begun
<1>4. QED
  BY <1>1, <1>2, <1>3 DEF MWaitInv, MWaitTypes, Wakee, WakerOK, WakeeOK, NoMissedStore

\* An update begins.  One that the wakee does not wait for may begin between
\* Done and the load of UpdateTime, but then it is not the only one.
LEMMA UpdateStampInv ==
  ASSUME MWaitInv, UpdateStamp PROVE MWaitInv'
<1>1. /\ upc = "poll" /\ upc' = "store" /\ UpdateTime' = clock
      /\ stamps' = [n \in 1 .. (begun + 1) |-> IF n <= begun THEN stamps[n] ELSE clock]
      /\ UNCHANGED <<clock, WaitLocation, armed, seen, pc, cmp, Done>>
  BY DEF UpdateStamp, mwait, main
<1>2. /\ begun \in Nat /\ WaitLocation = begun /\ clock \in Nat /\ cmp \in Nat
      /\ WaitLocation \in Nat /\ pc \notin {"start", "trial", "trial_wait"}
  BY <1>1 DEF MWaitInv, MWaitTypes, WakerOK
<1>3. DOMAIN stamps' = 1 .. (begun + 1)
  BY <1>1
<1>4. begun' = begun + 1
  <2>1. 1 \in Int /\ begun + 1 \in Int /\ ~(1 > begun + 1) /\ (begun + 1) - 1 + 1 = begun + 1
    BY <1>2
  <2>2. Cardinality(1 .. (begun + 1)) = begun + 1
    <3>1. Cardinality(1 .. (begun + 1)) = IF 1 > begun + 1 THEN 0 ELSE (begun + 1) - 1 + 1
      BY <2>1, FS_Interval
    <3>2. QED
      BY <2>1, <3>1
  <2>3. QED
    BY <1>3, <2>2 DEF begun
<1>5. stamps'[begun'] = clock
  <2>1. begun + 1 \in 1 .. (begun + 1) /\ ~(begun + 1 <= begun)
    BY <1>2
  <2>2. stamps' = [n \in 1 .. (begun + 1) |-> IF n <= begun THEN stamps[n] ELSE clock]
    BY <1>1
  <2>3. stamps'[begun + 1] = clock
    BY <2>1, <2>2
  <2>4. QED
    BY <1>4, <2>3
<1>6. MWaitTypes'
  BY <1>1 DEF MWaitInv, MWaitTypes
<1>7. WakerOK'
  <2>1. /\ begun' \in Nat /\ DOMAIN stamps' = 1 .. begun' /\ WaitLocation' = begun' - 1
        /\ UpdateTime' <= clock'
    <3>1. WaitLocation' = WaitLocation /\ UpdateTime' = clock /\ clock' = clock
      BY <1>1
    <3>2. begun + 1 \in Nat /\ (begun + 1) - 1 = begun /\ clock <= clock
      BY <1>2
    <3>3. QED
      BY <1>2, <1>3, <1>4, <3>1, <3>2
  <2>2. QED
    BY <1>1, <1>2, <1>5, <2>1 DEF MWaitInv, WakerOK
<1>8. WakeeOK'
  <2>1. cmp < WaitLocation => begun' # cmp + 1
    <3>1. cmp < begun => begun + 1 # cmp + 1
      BY <1>2
    <3>2. QED
      BY <1>2, <1>4, <3>1
  <2>2. QED
    BY <1>1, <2>1 DEF MWaitInv, WakeeOK, NoMissedStore
<1>9. QED
  BY <1>6, <1>7, <1>8 DEF MWaitInv

\* The store takes the monitor away from a wakee that waits.
LEMMA UpdateStoreInv ==
  ASSUME MWaitInv, UpdateStore PROVE MWaitInv'
<1>1. /\ upc = "store" /\ upc' = "poll" /\ WaitLocation' = WaitLocation + 1 /\ ~armed'
      /\ armed' \in BOOLEAN
      /\ UNCHANGED <<clock, UpdateTime, seen, pc, cmp, Done, stamps>>
  BY DEF UpdateStore, mwait, main
<1>2. begun' = begun
  BY <1>1 DEF begun
<1>3. /\ WaitLocation \in Nat /\ cmp \in Nat /\ begun \in Nat /\ WaitLocation = begun - 1
      /\ pc \notin {"start", "trial", "trial_wait"}
  BY <1>1 DEF MWaitInv, MWaitTypes, WakerOK
<1>4. /\ WaitLocation' \in Nat /\ WaitLocation' = begun'
      /\ cmp <= WaitLocation => cmp < WaitLocation' /\ cmp <= WaitLocation'
      /\ cmp < WaitLocation => cmp < WaitLocation'
  <2>1. WaitLocation' = WaitLocation + 1
    BY <1>1
  <2>2. WaitLocation' \in Nat /\ WaitLocation' = begun
    BY <1>3, <2>1
  <2>3. /\ cmp <= WaitLocation => cmp < WaitLocation' /\ cmp <= WaitLocation'
        /\ cmp < WaitLocation => cmp < WaitLocation'
    BY <1>3, <2>1
  <2>4. QED
    BY <1>2, <2>2, <2>3
<1>5. QED
  BY <1>1, <1>2, <1>3, <1>4
  DEF MWaitInv, MWaitTypes, Wakee, WakerOK, WakeeOK, NoMissedStore

-----------------------------------------------------------------------------
(* The theorems.                                                           *)

\* Every step preserves the invariant.
LEMMA MWaitStep == MWaitInv /\ [Next]_vars => MWaitInv'
<1> SUFFICES ASSUME MWaitInv, [Next]_vars PROVE MWaitInv'
  OBVIOUS
<1>1. CASE Next
  BY <1>1, TrialInv, WakeeInv, TickInv, UpdateStampInv, UpdateStoreInv DEF Next, Main
<1>2. CASE UNCHANGED vars
  <2>1. UNCHANGED <<clock, WaitLocation, UpdateTime, armed, seen, pc, cmp, Done, upc, stamps>>
    BY <1>2, Zenon DEF vars, shared, mwait, main, waker
  <2>2. begun' = begun
    BY <2>1 DEF begun
  <2>3. QED
    BY <2>1, <2>2 DEF MWaitInv, MWaitTypes, Wakee, WakerOK, WakeeOK, NoMissedStore
<1>3. QED
  BY <1>1, <1>2

\* The inductive invariant holds in every reachable state.
LEMMA MWaitInvariance == Spec => []MWaitInv
  BY MWaitInit, MWaitStep, PTL DEF Spec

\* The wakee never sleeps on a value that has changed.
THEOREM StoreNotMissed == Spec => []NoMissedStore
<1>1. MWaitInv => NoMissedStore
  BY DEF MWaitInv, WakeeOK
<1>2. QED
  BY <1>1, MWaitInvariance, PTL

\* The stamps are in order, and a latency is printed only after a store.
StampsOK ==
  /\ \A n \in DOMAIN stamps : stamps[n] \in Nat /\ stamps[n] <= UpdateTime
  /\ pc = "print" => cmp < WaitLocation

\* A new stamp is not older than the ones before it; WaitLocation only grows
\* while the wakee compares it.
LEMMA StampsStep == MWaitInv /\ StampsOK /\ [Next]_vars => StampsOK'
<1> SUFFICES ASSUME MWaitInv, StampsOK, [Next]_vars PROVE StampsOK'
  OBVIOUS
<1> USE DEF shared, mwait, main, waker
<1>1. /\ clock \in Nat /\ UpdateTime \in Nat /\ UpdateTime <= clock
      /\ WaitLocation \in Nat /\ cmp \in Nat
  BY DEF MWaitInv, MWaitTypes, WakerOK
<1>2. CASE UpdateStamp
  <2>1. /\ UpdateTime' = clock /\ UNCHANGED <<pc, cmp, WaitLocation>>
        /\ stamps' = [n \in 1 .. (begun + 1) |-> IF n <= begun THEN stamps[n] ELSE clock]
    BY <1>2 DEF UpdateStamp
  <2>2. begun \in Nat /\ DOMAIN stamps = 1 .. begun
    BY DEF MWaitInv, WakerOK
  <2>3. ASSUME NEW n \in DOMAIN stamps' PROVE stamps'[n] \in Nat /\ stamps'[n] <= clock
    <3>1. n \in 1 .. (begun + 1) /\ stamps'[n] = IF n <= begun THEN stamps[n] ELSE clock
      BY <2>1, <2>3
    <3>2. CASE n <= begun
      <4>1. n \in DOMAIN stamps
        BY <2>2, <3>1, <3>2
      <4>2. stamps[n] \in Nat /\ stamps[n] <= UpdateTime
        BY <4>1 DEF StampsOK
      <4>3. stamps[n] <= clock
        BY <1>1, <4>2
      <4>4. QED
        BY <3>1, <3>2, <4>2, <4>3
    <3>3. CASE ~(n <= begun)
      <4>1. clock <= clock
        BY <1>1
      <4>2. QED
        BY <1>1, <3>1, <3>3, <4>1
    <3>4. QED
      BY <3>2, <3>3
  <2>4. pc' = "print" => cmp' < WaitLocation'
    BY <2>1 DEF StampsOK
  <2>5. QED
    BY <2>1, <2>3, <2>4 DEF StampsOK
<1>3. CASE TestChanged
  <2>1. /\ pc = "test" /\ UNCHANGED <<cmp, WaitLocation, stamps, UpdateTime>>
        /\ pc' = "print" => cmp # WaitLocation
    BY <1>3 DEF TestChanged
  <2>2. cmp <= WaitLocation
    BY <2>1 DEF MWaitInv, WakeeOK
  <2>3. pc' = "print" => cmp < WaitLocation
    BY <1>1, <2>1, <2>2
  <2>4. QED
    BY <2>1, <2>3 DEF StampsOK
<1>4. CASE UpdateStore
  <2>1. WaitLocation' = WaitLocation + 1 /\ UNCHANGED <<pc, cmp, stamps, UpdateTime>>
    BY <1>4 DEF UpdateStore
  <2>2. cmp < WaitLocation => cmp < WaitLocation + 1
    BY <1>1
  <2>3. QED
    BY <2>1, <2>2 DEF StampsOK
<1>5. CASE UNCHANGED vars
  <2>1. UNCHANGED <<pc, cmp, WaitLocation, stamps, UpdateTime>>
    BY <1>5, Zenon DEF vars
  <2>2. QED
    BY <2>1 DEF StampsOK
<1>6. CASE Tick \/ SpuriousWake \/ HasMWAIT \/ Trial \/ StartWaker \/ Loop \/ MWait
             \/ TakeDone \/ PrintLatency \/ WakeByStore \/ WakeByTimeout
  <2>1. UNCHANGED <<stamps, UpdateTime>>
    BY <1>6, MainFrame DEF Main, Tick
  <2>2. pc' = "print" => UNCHANGED <<pc, cmp, WaitLocation>>
    BY <1>6 DEF Tick, SpuriousWake, HasMWAIT, Trial, LoadMonitor, StartWaker, Loop, MWait,
      TakeDone, PrintLatency, WakeByStore, WakeByTimeout, Return
  <2>3. QED
    BY <2>1, <2>2 DEF StampsOK
<1>7. QED
  BY <1>2, <1>3, <1>4, <1>5, <1>6 DEF Next, Main

\* So they are in every reachable state.
LEMMA StampsInvariance == Spec => []StampsOK
<1>1. Init => StampsOK
  BY DEF Init, StampsOK
<1>2. QED
  BY <1>1, StampsStep, MWaitInvariance, PTL DEF Spec

\* What is printed is the latency of the update that was waited for, too
\* small if a later one has begun, and never too large.
THEOREM LatencyIsOfUpdate == Spec => LatencyOfUpdate
<1> DEFINE Printed ==
      pc = "print" /\ pc' = "loop" =>
        /\ cmp + 1 \in DOMAIN stamps
        /\ latency' <= Done - stamps[cmp + 1]
        /\ begun = cmp + 1 =>
             latency' = Done - stamps[cmp + 1] /\ (seen => latency' >= 0)
<1>1. ASSUME MWaitInv, StampsOK, [Next]_vars PROVE [Printed]_vars
  <2>1. SUFFICES ASSUME Next, pc = "print", pc' = "loop" PROVE Printed
    BY <1>1
  <2>2. PrintLatency
    BY <2>1 DEF Next, Main, SpuriousWake, Tick, UpdateStamp, UpdateStore, HasMWAIT, Trial,
      StartWaker, Loop, MWait, TakeDone, TestChanged, WakeByStore, WakeByTimeout, Waiting
  <2>3. latency' = Done - UpdateTime
    BY <2>2 DEF PrintLatency
  <2>4. cmp \in Nat /\ Done \in Nat /\ UpdateTime \in Nat /\ WaitLocation \in Nat
    BY <1>1 DEF MWaitInv, MWaitTypes
  <2>5. cmp + 1 \in DOMAIN stamps
    <3>1. begun \in Nat /\ DOMAIN stamps = 1 .. begun /\ WaitLocation <= begun
      <4>1. begun \in Nat /\ DOMAIN stamps = 1 .. begun /\ upc \in {"poll", "store"}
        BY <1>1, <2>1 DEF MWaitInv, WakerOK, MWaitTypes, Wakee
      <4>2. WaitLocation = begun \/ WaitLocation = begun - 1
        BY <1>1, <4>1 DEF MWaitInv, WakerOK
      <4>3. QED
        BY <2>4, <4>1, <4>2
    <3>2. cmp < WaitLocation
      BY <1>1, <2>1 DEF StampsOK
    <3>3. cmp + 1 \in 1 .. begun
      BY <2>4, <3>1, <3>2
    <3>4. QED
      BY <3>1, <3>3
  <2>6. stamps[cmp + 1] \in Nat /\ stamps[cmp + 1] <= UpdateTime
    BY <1>1, <2>5 DEF StampsOK
  <2>7. latency' <= Done - stamps[cmp + 1]
    BY <2>3, <2>4, <2>6
  <2>8. ASSUME begun = cmp + 1
        PROVE  latency' = Done - stamps[cmp + 1] /\ (seen => latency' >= 0)
    <3>1. begun > 0
      BY <2>4, <2>8
    <3>2. UpdateTime = stamps[cmp + 1]
      BY <1>1, <2>8, <3>1 DEF MWaitInv, WakerOK
    <3>3. seen => UpdateTime <= Done
      BY <1>1, <2>1, <2>8 DEF MWaitInv, WakeeOK
    <3>4. QED
      BY <2>3, <2>4, <3>2, <3>3
  <2>9. QED
    BY <2>5, <2>7, <2>8
<1>2. QED
  BY <1>1, MWaitInvariance, StampsInvariance, PTL DEF Spec, LatencyOfUpdate
=============================================================================
