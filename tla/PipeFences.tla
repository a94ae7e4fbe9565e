----------------------------- MODULE PipeFences -----------------------------
(***************************************************************************)
(* The stores of push and the loads of read on a machine that reorders     *)
(* them: why startWrite and finishWrite of lockless_pipe/LocklessPipe.hpp  *)
(* call MF_write_sync, and what the macros of membar.h have to guarantee   *)
(* on each processor for that to be enough.                                *)
(*                                                                         *)
(* Each thread has a program, a sequence of accesses and fences repeated   *)
(* for every element.  An access is performed in one step, in any order    *)
(* that compiler, processor and fences allow.  buf_ is a ring of slots of  *)
(* one element each (LocklessPipe has the real layout); pointers are       *)
(* counted in elements.  A store is seen by all threads at once.           *)
(*                                                                         *)
(* A third thread calls validate once: it loads the two counters, and has  *)
(* no fence between the loads.                                             *)
(***************************************************************************)
EXTENDS Integers, Sequences

CONSTANTS
  Platforms,  \* the branches of membar.h's #if that are checked
  Slots,      \* elements that fit into buf_
  MaxWrites   \* bound: number of elements pushed

ASSUME FencesAssumption ==
  /\ Platforms \subseteq {"sparc", "power_xlc", "power_gnu", "x86", "gnu"}
  /\ Slots \in Nat \ {0} /\ MaxWrites \in Nat

-----------------------------------------------------------------------------
(* membar.h: the pairs of accesses that each macro keeps in order on the   *)
(* processor.  All of them are compiler fences too.                        *)

LoadLoad   == <<"load", "load">>
LoadStore  == <<"load", "store">>
StoreStore == <<"store", "store">>
StoreLoad  == <<"store", "load">>
AllPairs   == {LoadLoad, LoadStore, StoreStore, StoreLoad}
lwsync     == AllPairs \ {StoreLoad}
isync      == {LoadLoad, LoadStore}  \* after the branch on the loaded value

SparcMacros ==
  [StoreStore |-> {StoreStore},
   storestore |-> {},
   ACQUIRE    |-> {StoreLoad, StoreStore},
   acquire    |-> {},
   RELEASE    |-> {LoadStore, StoreStore},
   release    |-> {},
   FULLSYNC   |-> AllPairs]

PowerXlcMacros ==
  [StoreStore |-> lwsync, ACQUIRE |-> isync, acquire |-> lwsync,
   RELEASE |-> lwsync, FULLSYNC |-> AllPairs]

PowerGnuMacros ==
  [StoreStore |-> lwsync, ACQUIRE |-> isync, acquire |-> lwsync,
   RELEASE |-> lwsync, FULLSYNC |-> AllPairs]

X86Macros ==
  [StoreStore |-> {}, acquire |-> {}, release |-> {},
   ACQUIRE |-> AllPairs, RELEASE |-> AllPairs, FULLSYNC |-> AllPairs]

GnuMacros ==
  [StoreStore |-> AllPairs, ACQUIRE |-> AllPairs,
   RELEASE |-> AllPairs, FULLSYNC |-> AllPairs]

\* #ifndef: the definitions of m, and those of fallback that m does not have.
IfNotDefined(m, fallback) ==
  [macro \in DOMAIN m \cup DOMAIN fallback |->
     IF macro \in DOMAIN m THEN m[macro] ELSE fallback[macro]]

\* Mutant: a missing MEMBAR_release becomes a compiler fence everywhere.
WithCompilerRelease(m) ==
  IfNotDefined(m, [storestore |-> m.StoreStore, acquire |-> m.ACQUIRE,
                   release |-> {}, fullsync |-> m.FULLSYNC])

\* A macro with lowercase suffix that a branch does not define is the
\* uppercase one.
WithFallbacks(m) ==
  IfNotDefined(m, [storestore |-> m.StoreStore, acquire |-> m.ACQUIRE,
                   release |-> m.RELEASE, fullsync |-> m.FULLSYNC])

Macros(platform) ==
  WithFallbacks(CASE platform = "sparc"     -> SparcMacros
                  [] platform = "power_xlc" -> PowerXlcMacros
                  [] platform = "power_gnu" -> PowerGnuMacros
                  [] platform = "x86"       -> X86Macros
                  [] platform = "gnu"       -> GnuMacros)

\* What the processor keeps in order by itself: total store order on SPARC
\* and x86, nothing on POWER and on the unknown machine of the last branch.
Kept(platform) == IF platform \in {"sparc", "x86"} THEN AllPairs \ {StoreLoad} ELSE {}

\* MemoryFence.h
MF_read_sync(platform)  == Macros(platform).acquire
MF_write_sync(platform) == Macros(platform).release

-----------------------------------------------------------------------------
(* The two programs.                                                       *)

\* Mutant: finishWrite has no fence.
PushUnfenced ==
  <<"isFull", "nextWriteVPtr", "write_sync", "header", "data",
    "numWritten", "writeVPtr">>

\* Mutant: startWrite has no fence.
PushUnannounced ==
  <<"isFull", "nextWriteVPtr", "header", "data",
    "numWritten", "write_sync", "writeVPtr">>

\* Mutant: finishWrite counts after the fence.
PushCountLate ==
  <<"isFull", "nextWriteVPtr", "write_sync", "header", "data",
    "write_sync", "writeVPtr", "numWritten">>

\* startWrite, the memcpy of push, finishWrite.  The last load of isFull
\* decides; writeVPtr_ is only written here.
PushProgram ==
  <<"isFull", "nextWriteVPtr", "write_sync", "header", "data",
    "numWritten", "write_sync", "writeVPtr">>

\* read, whose body is not in the repository: the READER of MemoryFence.h,
\* and a release of the bytes that follows the rule of finishWrite.
ReadProgram ==
  <<"isEmpty", "read_sync", "header", "data", "write_sync", "readVPtr", "numRead">>

Program(t) == IF t = "writer" THEN PushProgram ELSE ReadProgram

IsFence(op)    == op \in {"write_sync", "read_sync"}
IsBuffer(op)   == op \in {"header", "data"}
IsVolatile(op) == op \in {"numRead", "numWritten"}  \* the pointers are Atom<>, not defined
Threads        == {"writer", "reader"}
Access(t)      == (1 .. MaxWrites) \X {i \in DOMAIN Program(t) : ~IsFence(Program(t)[i])}
Name(t, a)     == Program(t)[a[2]]
SlotOf(k)      == k % Slots

Kind(t, a) ==
  IF Name(t, a) \in {"isFull", "isEmpty"} \/ (t = "reader" /\ IsBuffer(Name(t, a)))
  THEN "load" ELSE "store"

Before(a, b) == a[1] < b[1] \/ (a[1] = b[1] /\ a[2] < b[2])

\* The fences that thread t passes between a and b.
FencesBetween(t, a, b) ==
  {f \in (a[1] .. b[1]) \X {i \in DOMAIN Program(t) : IsFence(Program(t)[i])} :
     Before(a, f) /\ Before(f, b)}

FencePairs(t, platform, f) ==
  IF Program(t)[f[2]] = "read_sync" THEN MF_read_sync(platform) ELSE MF_write_sync(platform)

SameLocation(t, a, b) ==
  /\ Name(t, a) = Name(t, b)
  /\ IsBuffer(Name(t, a)) => SlotOf(a[1]) = SlotOf(b[1])

CompilerKeeps(t, a, b) ==
  \/ FencesBetween(t, a, b) # {}
  \/ IsVolatile(Name(t, a)) /\ IsVolatile(Name(t, b))

ProcessorKeeps(t, platform, a, b) ==
  LET pair == <<Kind(t, a), Kind(t, b)>>
  IN  \/ pair \in Kept(platform)
      \/ \E f \in FencesBetween(t, a, b) : pair \in FencePairs(t, platform, f)

\* Accesses to one location, and stores behind the branch of isFull or
\* isEmpty, are never exchanged; others if compiler or processor may.
Ordered(t, platform, a, b) ==
  /\ Before(a, b)
  /\ \/ SameLocation(t, a, b)
     \/ Name(t, a) \in {"isFull", "isEmpty"} /\ Kind(t, b) = "store"
     \/ CompilerKeeps(t, a, b) /\ ProcessorKeeps(t, platform, a, b)

-----------------------------------------------------------------------------
VARIABLES
  platform,
  mem,    \* the members of the pipe as every thread sees them
  buf,    \* buf_: for every slot, the element whose header and data it holds
  got,    \* what read loaded: header and data of every element
  done,   \* the accesses each thread has performed
  seen    \* validate: its locals numRead and numWritten, -1 before the load

vars == <<platform, mem, buf, got, done, seen>>

Empty == [header |-> 0, data |-> 0]

Init ==
  /\ platform \in Platforms
  /\ mem = [m \in {"readVPtr", "writeVPtr", "nextWriteVPtr", "numRead", "numWritten"} |-> 0]
  /\ buf = [s \in 0 .. (Slots - 1) |-> Empty]
  /\ got = [k \in 1 .. MaxWrites |-> Empty]
  /\ done = [t \in Threads |-> {}]
  /\ seen = [m \in {"numRead", "numWritten"} |-> -1]

\* Access a of thread t may be performed now.
Ready(t, a) ==
  /\ a \in Access(t) \ done[t]
  /\ \A b \in Access(t) : Ordered(t, platform, b, a) => b \in done[t]

Perform(t, a) == done' = [done EXCEPT ![t] = @ \cup {a}]

\* The load that ends startWrite's loop, or wait's.
LoadPointer(t, a) ==
  /\ Ready(t, a)
  /\ \/ Name(t, a) = "isFull" /\ a[1] - mem["readVPtr"] <= Slots
     \/ Name(t, a) = "isEmpty" /\ mem["writeVPtr"] >= a[1]
  /\ Perform(t, a)
  /\ UNCHANGED <<platform, mem, buf, got, seen>>

StoreBuffer(a) ==
  /\ Ready("writer", a)
  /\ IsBuffer(Name("writer", a))
  /\ buf' = [buf EXCEPT ![SlotOf(a[1])][Name("writer", a)] = a[1]]
  /\ Perform("writer", a)
  /\ UNCHANGED <<platform, mem, got, seen>>

LoadBuffer(a) ==
  /\ Ready("reader", a)
  /\ IsBuffer(Name("reader", a))
  /\ got' = [got EXCEPT ![a[1]][Name("reader", a)] = buf[SlotOf(a[1])][Name("reader", a)]]
  /\ Perform("reader", a)
  /\ UNCHANGED <<platform, mem, buf, seen>>

\* A store to one of the pointers or counters.
StoreMember(t, a) ==
  /\ Ready(t, a)
  /\ Name(t, a) \in DOMAIN mem
  /\ mem' = [mem EXCEPT ![Name(t, a)] = a[1]]
  /\ Perform(t, a)
  /\ UNCHANGED <<platform, buf, got, seen>>

\* Whether the second load of validate waits for the first: both are
\* volatile, but no fence holds a processor that reorders loads.
LoadsInOrder == LoadLoad \in Kept(platform)

\* const uint64_t numRead = numRead_; const uint64_t numWritten = numWritten_;
ValidateLoads(m) ==
  /\ seen[m] = -1
  /\ m = "numWritten" /\ LoadsInOrder => seen["numRead"] # -1
  /\ seen' = [seen EXCEPT ![m] = mem[m]]
  /\ UNCHANGED <<platform, mem, buf, got, done>>

Next ==
  \/ \E t \in Threads : \E a \in Access(t) : LoadPointer(t, a) \/ StoreMember(t, a)
  \/ \E a \in Access("writer") : StoreBuffer(a)
  \/ \E a \in Access("reader") : LoadBuffer(a)
  \/ \E m \in DOMAIN seen : ValidateLoads(m)

Spec == Init /\ [][Next]_vars

-----------------------------------------------------------------------------
\* finishWrite's comment: "if the queue reader sees incremented tick
\* pointers, then the data will be sure to be updated as well".  Whatever
\* read has loaded for element k is element k: neither the slot's previous
\* content (a store too late, a load too early) nor its next one (a push let
\* in before the loads were done).
FreshRead ==
  \A a \in done["reader"] :
    IsBuffer(Name("reader", a)) => got[a[1]][Name("reader", a)] = a[1]

\* startWrite's comment: a thread that sees any byte of an element sees
\* nextWriteVPtr_ announce it.
AnnouncedFirst ==
  \A s \in DOMAIN buf :
    mem["nextWriteVPtr"] >= buf[s].header /\ mem["nextWriteVPtr"] >= buf[s].data

\* finishWrite's other comment, "so that the validate method can correctly
\* sense corruption when numRead_ > numWritten_": the counters validate loads
\* in a third thread, at two different moments, are never in that order, if
\* the processor keeps the two loads in order.  On POWER, and on a machine
\* that is not known, it need not.
CountersInStep ==
  LoadsInOrder /\ seen["numRead"] # -1 /\ seen["numWritten"] # -1 =>
    seen["numRead"] <= seen["numWritten"]
=============================================================================
