--------------------------- MODULE ProgramProofs ---------------------------
(***************************************************************************)
(* The fences of the pipe, its helpers and the small programs, each for    *)
(* every value of its constants.                                           *)
(***************************************************************************)
EXTENDS MCPrograms, FiniteSetTheorems, TLAPS

-----------------------------------------------------------------------------
(* What membar.h guarantees: on every platform the fence, or the processor *)
(* by itself, keeps the pairs of accesses in order that the pipe relies    *)
(* on.                                                                     *)

AllPlatforms == {"sparc", "power_xlc", "power_gnu", "x86", "gnu"}

\* MF_write_sync keeps stores and earlier accesses in order, MF_read_sync loads.
LEMMA FencesSuffice ==
  ASSUME NEW m \in AllPlatforms
  PROVE  /\ StoreStore \in Kept(m) \cup MF_write_sync(m)
         /\ LoadStore \in Kept(m) \cup MF_write_sync(m)
         /\ LoadLoad \in Kept(m) \cup MF_read_sync(m)
<1> USE DEF AllPairs, lwsync, LoadLoad, LoadStore, StoreStore, StoreLoad
<1>1. CASE m \in {"sparc", "x86"}
  BY <1>1 DEF Kept
<1>2. CASE m = "power_xlc"
  <2>1. Macros(m) = WithFallbacks(PowerXlcMacros)
    BY <1>2 DEF Macros
  <2>2. Macros(m).release = lwsync /\ Macros(m).acquire = lwsync
    BY <2>1 DEF WithFallbacks, IfNotDefined, PowerXlcMacros
  <2>3. QED
    BY <2>2 DEF MF_write_sync, MF_read_sync
<1>3. CASE m = "power_gnu"
  <2>1. Macros(m) = WithFallbacks(PowerGnuMacros)
    BY <1>3 DEF Macros
  <2>2. Macros(m).release = lwsync /\ Macros(m).acquire = lwsync
    BY <2>1 DEF WithFallbacks, IfNotDefined, PowerGnuMacros
  <2>3. QED
    BY <2>2 DEF MF_write_sync, MF_read_sync
<1>4. CASE m = "gnu"
  <2>1. Macros(m) = WithFallbacks(GnuMacros)
    BY <1>4 DEF Macros
  <2>2. Macros(m).release = AllPairs /\ Macros(m).acquire = AllPairs
    BY <2>1 DEF WithFallbacks, IfNotDefined, GnuMacros
  <2>3. QED
    BY <2>2 DEF MF_write_sync, MF_read_sync
<1>5. QED
  BY <1>1, <1>2, <1>3, <1>4 DEF AllPlatforms

-----------------------------------------------------------------------------
(* The order of the accesses.                                              *)

\* The accesses of the two programs.
LEMMA Accesses ==
  /\ Access("writer") = (1 .. MaxWrites) \X {1, 2, 4, 5, 6, 8}
  /\ Access("reader") = (1 .. MaxWrites) \X {1, 3, 4, 6, 7}
<1>1. {n \in DOMAIN Program("writer") : ~IsFence(Program("writer")[n])} = {1, 2, 4, 5, 6, 8}
  BY DEF Program, PushProgram, IsFence
<1>2. {n \in DOMAIN Program("reader") : ~IsFence(Program("reader")[n])} = {1, 3, 4, 6, 7}
  BY DEF Program, ReadProgram, IsFence
<1>3. QED
  BY <1>1, <1>2 DEF Access

\* The names of the accesses.
LEMMA Names ==
  ASSUME NEW k
  PROVE  /\ Name("writer", <<k, 1>>) = "isFull" /\ Name("writer", <<k, 2>>) = "nextWriteVPtr"
         /\ Name("writer", <<k, 4>>) = "header" /\ Name("writer", <<k, 5>>) = "data"
         /\ Name("writer", <<k, 6>>) = "numWritten" /\ Name("writer", <<k, 8>>) = "writeVPtr"
         /\ Name("reader", <<k, 1>>) = "isEmpty"
         /\ Name("reader", <<k, 3>>) = "header" /\ Name("reader", <<k, 4>>) = "data"
         /\ Name("reader", <<k, 6>>) = "readVPtr" /\ Name("reader", <<k, 7>>) = "numRead"
BY DEF Name, Program, PushProgram, ReadProgram

\* Push: what is stored behind the test of isFull, what nextWriteVPtr_
\* announces, and what is in memory before writeVPtr_ says so.
LEMMA PushOrder ==
  ASSUME NEW m \in AllPlatforms, NEW k \in 1 .. MaxWrites
  PROVE  /\ \A n \in {2, 4, 5, 6, 8} : Ordered("writer", m, <<k, 1>>, <<k, n>>)
         /\ \A n \in {4, 5} : Ordered("writer", m, <<k, 2>>, <<k, n>>)
         /\ \A n \in {4, 5, 6} : Ordered("writer", m, <<k, n>>, <<k, 8>>)
<1>1. k \in Int
  OBVIOUS
<1>2. \A n \in {2, 4, 5, 6, 8} : Kind("writer", <<k, n>>) = "store"
  BY Names DEF Kind
<1>3. ASSUME NEW n \in {2, 4, 5, 6, 8} PROVE Ordered("writer", m, <<k, 1>>, <<k, n>>)
  <2>1. Before(<<k, 1>>, <<k, n>>)
    BY DEF Before
  <2>2. Name("writer", <<k, 1>>) = "isFull"
    BY Names
  <2>3. QED
    BY <1>2, <2>1, <2>2 DEF Ordered
<1>4. {n \in DOMAIN Program("writer") : IsFence(Program("writer")[n])} = {3, 7}
  BY DEF Program, PushProgram, IsFence
<1>5. ASSUME NEW x \in {2, 4, 5, 6}, NEW y \in {4, 5, 8}, NEW f \in {3, 7}, x < f, f < y
      PROVE  Ordered("writer", m, <<k, x>>, <<k, y>>)
  <2>1. Before(<<k, x>>, <<k, y>>) /\ Before(<<k, x>>, <<k, f>>) /\ Before(<<k, f>>, <<k, y>>)
    BY <1>5 DEF Before
  <2>2. <<k, f>> \in FencesBetween("writer", <<k, x>>, <<k, y>>)
    BY <1>1, <1>4, <2>1 DEF FencesBetween
  <2>3. FencePairs("writer", m, <<k, f>>) = MF_write_sync(m)
    BY DEF FencePairs, Program, PushProgram
  <2>4. <<Kind("writer", <<k, x>>), Kind("writer", <<k, y>>)>> = StoreStore
    BY <1>2 DEF StoreStore
  <2>5. ProcessorKeeps("writer", m, <<k, x>>, <<k, y>>)
    BY <2>2, <2>3, <2>4, FencesSuffice DEF ProcessorKeeps
  <2>6. CompilerKeeps("writer", <<k, x>>, <<k, y>>)
    BY <2>2 DEF CompilerKeeps
  <2>7. QED
    BY <2>1, <2>5, <2>6 DEF Ordered
<1>6. \A n \in {4, 5} : Ordered("writer", m, <<k, 2>>, <<k, n>>)
  BY <1>5
<1>7. \A n \in {4, 5, 6} : Ordered("writer", m, <<k, n>>, <<k, 8>>)
  BY <1>5
<1>8. QED
  BY <1>3, <1>6, <1>7

\* Read: the loads of an element are between the load of isEmpty and the
\* store that gives the slot back.
LEMMA ReadOrder ==
  ASSUME NEW m \in AllPlatforms, NEW k \in 1 .. MaxWrites
  PROVE  /\ \A n \in {3, 4, 6, 7} : Ordered("reader", m, <<k, 1>>, <<k, n>>)
         /\ \A n \in {3, 4} : Ordered("reader", m, <<k, n>>, <<k, 6>>)
<1>1. k \in Int
  OBVIOUS
<1>2. /\ \A n \in {1, 3, 4} : Kind("reader", <<k, n>>) = "load"
      /\ \A n \in {6, 7} : Kind("reader", <<k, n>>) = "store"
  BY Names DEF Kind, IsBuffer
<1>3. ASSUME NEW n \in {6, 7} PROVE Ordered("reader", m, <<k, 1>>, <<k, n>>)
  <2>1. Before(<<k, 1>>, <<k, n>>)
    BY DEF Before
  <2>2. Name("reader", <<k, 1>>) = "isEmpty"
    BY Names
  <2>3. QED
    BY <1>2, <2>1, <2>2 DEF Ordered
<1>4. {n \in DOMAIN Program("reader") : IsFence(Program("reader")[n])} = {2, 5}
  BY DEF Program, ReadProgram, IsFence
<1>5. ASSUME NEW x \in {1, 3, 4}, NEW y \in {3, 4, 6}, NEW f \in {2, 5}, x < f, f < y,
             <<Kind("reader", <<k, x>>), Kind("reader", <<k, y>>)>>
               \in Kept(m) \cup FencePairs("reader", m, <<k, f>>)
      PROVE  Ordered("reader", m, <<k, x>>, <<k, y>>)
  <2>1. Before(<<k, x>>, <<k, y>>) /\ Before(<<k, x>>, <<k, f>>) /\ Before(<<k, f>>, <<k, y>>)
    BY <1>5 DEF Before
  <2>2. <<k, f>> \in FencesBetween("reader", <<k, x>>, <<k, y>>)
    BY <1>1, <1>4, <2>1 DEF FencesBetween
  <2>3. ProcessorKeeps("reader", m, <<k, x>>, <<k, y>>)
    BY <1>5, <2>2 DEF ProcessorKeeps
  <2>4. CompilerKeeps("reader", <<k, x>>, <<k, y>>)
    BY <2>2 DEF CompilerKeeps
  <2>5. QED
    BY <2>1, <2>3, <2>4 DEF Ordered
<1>6. /\ FencePairs("reader", m, <<k, 2>>) = MF_read_sync(m)
      /\ FencePairs("reader", m, <<k, 5>>) = MF_write_sync(m)
  BY DEF FencePairs, Program, ReadProgram
<1>7. \A n \in {3, 4} : Ordered("reader", m, <<k, 1>>, <<k, n>>)
  BY <1>2, <1>5, <1>6, FencesSuffice DEF LoadLoad
<1>8. \A n \in {3, 4} : Ordered("reader", m, <<k, n>>, <<k, 6>>)
  BY <1>2, <1>5, <1>6, FencesSuffice DEF LoadStore
<1>9. QED
  BY <1>3, <1>7, <1>8

\* Accesses to one location keep their order from element to element.
LEMMA LocationOrder ==
  ASSUME NEW t, NEW m, NEW n, NEW k \in Int, NEW l \in Int, k < l,
         IsBuffer(Name(t, <<k, n>>)) => SlotOf(k) = SlotOf(l)
  PROVE  Ordered(t, m, <<k, n>>, <<l, n>>)
BY DEF Ordered, Before, SameLocation, Name

-----------------------------------------------------------------------------
(* The inductive invariant of the fences.                                  *)

Members == {"readVPtr", "writeVPtr", "nextWriteVPtr", "numRead", "numWritten"}
Fields  == {"header", "data"}
Pushes  == 1 .. MaxWrites  \* the elements

FenceTypes ==
  /\ platform \in AllPlatforms
  /\ mem \in [Members -> 0 .. MaxWrites]
  /\ buf \in [0 .. (Slots - 1) -> [Fields -> 0 .. MaxWrites]]
  /\ got \in [Pushes -> [Fields -> 0 .. MaxWrites]]
  /\ DOMAIN done = Threads
  /\ \A t \in Threads : done[t] \subseteq Access(t)

\* No access is performed before one it is ordered behind.
Closed ==
  \A t \in Threads : \A a \in done[t] : \A b \in Access(t) :
    Ordered(t, platform, b, a) => b \in done[t]

\* A pointer or counter is the last element whose store has been performed,
\* and the stores of all elements before it have.
MembersOK ==
  \A t \in Threads : \A n \in DOMAIN Program(t) : \A k \in Pushes :
    Program(t)[n] \in Members =>
      (<<k, n>> \in done[t] <=> k <= mem[Program(t)[n]])

\* A slot holds the last element stored into it.
StoresOK ==
  \A n \in {4, 5} :
    /\ \A k \in Pushes :
         <<k, n>> \in done["writer"] => k <= buf[SlotOf(k)][PushProgram[n]]
    /\ \A s \in 0 .. (Slots - 1) :
         LET k == buf[s][PushProgram[n]]
         IN  k # 0 => SlotOf(k) = s /\ <<k, n>> \in done["writer"]

\* The tests of isFull and isEmpty that have been passed still hold.
TestsOK ==
  \A k \in Pushes :
    /\ <<k, 1>> \in done["writer"] => k <= mem["readVPtr"] + Slots
    /\ <<k, 1>> \in done["reader"] => k <= mem["writeVPtr"]

FencesInv == FenceTypes /\ Closed /\ MembersOK /\ StoresOK /\ TestsOK /\ FreshRead

\* Nothing has been stored.
LEMMA FencesInit == Init => FencesInv
<1> SUFFICES ASSUME Init PROVE FencesInv
  OBVIOUS
<1>1. /\ platform \in AllPlatforms
      /\ mem = [m \in Members |-> 0] /\ buf = [s \in 0 .. (Slots - 1) |-> Empty]
      /\ got = [k \in Pushes |-> Empty] /\ done = [t \in Threads |-> {}]
  BY FencesAssumption DEF Init, AllPlatforms, Members, Pushes
<1>2. 0 \in 0 .. MaxWrites
  BY FencesAssumption
<1>3. Empty \in [Fields -> 0 .. MaxWrites] /\ \A f \in Fields : Empty[f] = 0
  BY <1>2 DEF Empty, Fields
<1>4. FenceTypes
  BY <1>1, <1>2, <1>3 DEF FenceTypes
<1>5. Closed /\ TestsOK /\ FreshRead
  BY <1>1 DEF Closed, TestsOK, FreshRead, Threads
<1>6. MembersOK
  <2>1. \A k \in Pushes : ~(k <= 0)
    BY DEF Pushes
  <2>2. QED
    BY <1>1, <2>1 DEF MembersOK
<1>7. StoresOK
  <2>1. PushProgram[4] = "header" /\ PushProgram[5] = "data"
    BY DEF PushProgram
  <2>2. \A s \in 0 .. (Slots - 1) : \A n \in {4, 5} : buf[s][PushProgram[n]] = 0
    BY <1>1, <1>3, <2>1 DEF Fields
  <2>3. QED
    BY <1>1, <2>2 DEF StoresOK, Threads
<1>8. QED
  BY <1>4, <1>5, <1>6, <1>7 DEF FencesInv

-----------------------------------------------------------------------------
(* Performing an access.                                                   *)

\* What is performed is closed under the order, before and after.
LEMMA PerformOne ==
  ASSUME FenceTypes, Closed, NEW t \in Threads, NEW a, Ready(t, a), Perform(t, a),
         platform' = platform
  PROVE  /\ a \in Access(t) /\ a \notin done[t]
         /\ done'[t] = done[t] \cup {a}
         /\ \A u \in Threads : u # t => done'[u] = done[u]
         /\ DOMAIN done' = Threads
         /\ \A u \in Threads : done'[u] \subseteq Access(u)
         /\ Closed'
<1>1. a \in Access(t) /\ a \notin done[t]
  BY DEF Ready
<1>2. /\ done'[t] = done[t] \cup {a} /\ DOMAIN done' = Threads
      /\ \A u \in Threads : u # t => done'[u] = done[u]
  BY DEF Perform, FenceTypes
<1>3. \A u \in Threads : done'[u] \subseteq Access(u)
  BY <1>1, <1>2 DEF FenceTypes
<1>4. ASSUME NEW u \in Threads, NEW x \in done'[u], NEW y \in Access(u),
             Ordered(u, platform, y, x)
      PROVE  y \in done'[u]
  <2>1. CASE u = t /\ x = a
    BY <1>2, <1>4, <2>1 DEF Ready
  <2>2. CASE ~(u = t /\ x = a)
    <3>1. x \in done[u]
      BY <1>2, <2>2
    <3>2. y \in done[u]
      BY <1>4, <3>1 DEF Closed
    <3>3. QED
      BY <1>2, <3>2
  <2>3. QED
    BY <2>1, <2>2
<1>5. Closed'
  BY <1>4 DEF Closed
<1>6. QED
  BY <1>1, <1>2, <1>3, <1>5

\* The accesses to one location are performed in the order of the elements.
LEMMA OneByOne ==
  ASSUME FenceTypes, Closed, NEW t \in Threads, NEW k \in Pushes, NEW n,
         Ready(t, <<k, n>>), NEW l \in Pushes,
         IsBuffer(Name(t, <<k, n>>)) => SlotOf(k) = SlotOf(l)
  PROVE  /\ l < k => <<l, n>> \in done[t]
         /\ k < l => <<l, n>> \notin done[t]
<1>1. <<k, n>> \in Access(t) /\ <<k, n>> \notin done[t]
  BY DEF Ready
<1>2. <<l, n>> \in Access(t)
  BY <1>1 DEF Access, Pushes
<1>3. k \in Int /\ l \in Int
  BY DEF Pushes
<1>4. Name(t, <<l, n>>) = Name(t, <<k, n>>)
  BY DEF Name
<1>5. l < k => Ordered(t, platform, <<l, n>>, <<k, n>>)
  BY <1>3, <1>4, LocationOrder
<1>6. k < l => Ordered(t, platform, <<k, n>>, <<l, n>>)
  BY <1>3, LocationOrder
<1>7. QED
  BY <1>1, <1>2, <1>5, <1>6 DEF Ready, Closed

\* An access is one of an element, at a place of the program.
LEMMA AccessForm ==
  ASSUME NEW t, NEW a \in Access(t)
  PROVE  \E k \in Pushes, n \in DOMAIN Program(t) : a = <<k, n>> /\ Name(t, a) = Program(t)[n]
BY DEF Access, Pushes, Name

\* The load that passes a test: pointers only grow.
LEMMA LoadPointerInv ==
  ASSUME FencesInv, NEW t \in Threads, NEW a \in Access(t), LoadPointer(t, a)
  PROVE  FencesInv'
<1>1. /\ Ready(t, a) /\ Perform(t, a) /\ UNCHANGED <<platform, mem, buf, got>>
      /\ \/ Name(t, a) = "isFull" /\ a[1] - mem["readVPtr"] <= Slots
         \/ Name(t, a) = "isEmpty" /\ mem["writeVPtr"] >= a[1]
  BY DEF LoadPointer
<1>2. FenceTypes /\ Closed
  BY DEF FencesInv
<1>3. /\ a \notin done[t] /\ done'[t] = done[t] \cup {a} /\ DOMAIN done' = Threads
      /\ \A u \in Threads : u # t => done'[u] = done[u]
      /\ \A u \in Threads : done'[u] \subseteq Access(u)
      /\ Closed'
  BY <1>1, <1>2, PerformOne
<1>4. PICK k \in Pushes, n \in DOMAIN Program(t) : a = <<k, n>> /\ Name(t, a) = Program(t)[n]
  BY AccessForm
<1>5. n = 1 /\ \/ t = "writer" /\ k <= mem["readVPtr"] + Slots
               \/ t = "reader" /\ k <= mem["writeVPtr"]
  <2>1. \/ t = "writer" /\ Name(t, a) # "isEmpty"
        \/ t = "reader" /\ Name(t, a) # "isFull"
    <3>1. \A x \in DOMAIN PushProgram : PushProgram[x] # "isEmpty"
      BY DEF PushProgram
    <3>2. \A x \in DOMAIN ReadProgram : ReadProgram[x] # "isFull"
      BY DEF ReadProgram
    <3>3. QED
      BY <1>4, <3>1, <3>2 DEF Threads, Program
  <2>2. n = 1
    BY <1>1, <1>4 DEF Threads, Program, PushProgram, ReadProgram
  <2>3. a[1] = k /\ k \in Int /\ mem["readVPtr"] \in Int /\ mem["writeVPtr"] \in Int
        /\ Slots \in Int
    BY <1>2, <1>4, FencesAssumption DEF FenceTypes, Members, Pushes
  <2>4. QED
    BY <1>1, <2>1, <2>2, <2>3
<1>6. FenceTypes'
  BY <1>1, <1>2, <1>3 DEF FenceTypes
<1>7. \A u \in Threads : \A x : x[2] # 1 => (x \in done'[u] <=> x \in done[u])
  BY <1>3, <1>4, <1>5
<1>8. MembersOK'
  <2>1. \A u \in Threads : Program(u)[1] \notin Members
    BY DEF Threads, Program, PushProgram, ReadProgram, Members
  <2>2. QED
    BY <1>1, <1>7, <2>1 DEF FencesInv, MembersOK
<1>9. StoresOK'
  BY <1>1, <1>7 DEF FencesInv, StoresOK, Threads
<1>10. TestsOK'
  <2>1. SUFFICES ASSUME NEW l \in Pushes
                 PROVE  /\ <<l, 1>> \in done'["writer"] => l <= mem["readVPtr"] + Slots
                        /\ <<l, 1>> \in done'["reader"] => l <= mem["writeVPtr"]
    BY <1>1 DEF TestsOK
  <2>2. /\ <<l, 1>> \in done["writer"] => l <= mem["readVPtr"] + Slots
        /\ <<l, 1>> \in done["reader"] => l <= mem["writeVPtr"]
    BY DEF FencesInv, TestsOK
  <2>3. \A u \in Threads : <<l, 1>> \in done'[u] => <<l, 1>> \in done[u] \/ (u = t /\ l = k)
    BY <1>3, <1>4
  <2>4. QED
    BY <1>5, <2>2, <2>3 DEF Threads
<1>11. FreshRead'
  <2>1. \A x \in done'["reader"] : IsBuffer(Name("reader", x)) => x \in done["reader"]
    BY <1>1, <1>3 DEF IsBuffer, Threads
  <2>2. QED
    BY <1>1, <2>1 DEF FencesInv, FreshRead
<1>12. QED
  BY <1>3, <1>6, <1>8, <1>9, <1>10, <1>11 DEF FencesInv

\* Which stores are to the pointers and counters; no two are to the same.
LEMMA MemberStores ==
  /\ \A t \in Threads : \A n \in DOMAIN Program(t) :
       Program(t)[n] \in Members =>
         \/ t = "writer" /\ n \in {2, 6, 8}
         \/ t = "reader" /\ n \in {6, 7}
  /\ \A t, u \in Threads : \A n \in DOMAIN Program(t), x \in DOMAIN Program(u) :
       Program(t)[n] \in Members /\ Program(t)[n] = Program(u)[x] => t = u /\ n = x
<1>1. /\ \A n \in DOMAIN PushProgram : PushProgram[n] \in Members => n \in {2, 6, 8}
      /\ \A n \in DOMAIN ReadProgram : ReadProgram[n] \in Members => n \in {6, 7}
  BY DEF PushProgram, ReadProgram, Members
<1>2. /\ \A n \in {2, 6, 8}, x \in {6, 7} : PushProgram[n] # ReadProgram[x]
      /\ \A n, x \in {2, 6, 8} : PushProgram[n] = PushProgram[x] => n = x
      /\ \A n, x \in {6, 7} : ReadProgram[n] = ReadProgram[x] => n = x
  BY DEF PushProgram, ReadProgram
<1>3. Program("writer") = PushProgram /\ Program("reader") = ReadProgram
  BY DEF Program
<1>4. QED
  BY <1>1, <1>2, <1>3 DEF Threads

\* A store to a pointer or a counter.
LEMMA StoreMemberInv ==
  ASSUME FencesInv, NEW t \in Threads, NEW a \in Access(t), StoreMember(t, a)
  PROVE  FencesInv'
<1>1. /\ Ready(t, a) /\ Perform(t, a) /\ UNCHANGED <<platform, buf, got>>
      /\ Name(t, a) \in DOMAIN mem /\ mem' = [mem EXCEPT ![Name(t, a)] = a[1]]
  BY DEF StoreMember
<1>2. FenceTypes /\ Closed
  BY DEF FencesInv
<1>3. /\ a \notin done[t] /\ done'[t] = done[t] \cup {a} /\ DOMAIN done' = Threads
      /\ \A u \in Threads : u # t => done'[u] = done[u]
      /\ \A u \in Threads : done'[u] \subseteq Access(u)
      /\ Closed'
  BY <1>1, <1>2, PerformOne
<1>4. PICK k \in Pushes, n \in DOMAIN Program(t) : a = <<k, n>> /\ Name(t, a) = Program(t)[n]
  BY AccessForm
<1> DEFINE m == Program(t)[n]
<1>5. m \in Members /\ mem' = [mem EXCEPT ![m] = k]
  BY <1>1, <1>2, <1>4 DEF FenceTypes
<1>6. \/ t = "writer" /\ n \in {2, 6, 8}
      \/ t = "reader" /\ n \in {6, 7}
  BY <1>5, MemberStores
<1> HIDE DEF m
<1>7. /\ mem \in [Members -> 0 .. MaxWrites] /\ k \in 1 .. MaxWrites
      /\ MaxWrites \in Nat
  BY <1>2, FencesAssumption DEF FenceTypes, Pushes
<1>8. mem' \in [Members -> 0 .. MaxWrites] /\ mem'[m] = k
      /\ \A o \in Members : o # m => mem'[o] = mem[o]
  BY <1>5, <1>7
<1>9. mem[m] < k
  <2>1. ~(k <= mem[m])
    BY <1>3, <1>4, <1>5 DEF FencesInv, MembersOK, m
  <2>2. mem[m] \in Int /\ k \in Int
    BY <1>5, <1>7
  <2>3. QED
    BY <2>1, <2>2
<1>10. FenceTypes'
  BY <1>1, <1>2, <1>3, <1>8 DEF FenceTypes
<1>11. \A u \in Threads : \A l, x :
         ~(u = t /\ x = n) => (<<l, x>> \in done'[u] <=> <<l, x>> \in done[u])
  BY <1>3, <1>4
<1>12. MembersOK'
  <2>1. SUFFICES ASSUME NEW u \in Threads, NEW x \in DOMAIN Program(u), NEW l \in Pushes,
                        Program(u)[x] \in Members
                 PROVE  <<l, x>> \in done'[u] <=> l <= mem'[Program(u)[x]]
    BY DEF MembersOK
  <2>2. CASE u = t /\ x = n
    <3>1. ~IsBuffer(Name(t, <<k, n>>))
      BY <1>4, <1>5 DEF IsBuffer, Members, m
    <3>2. (l < k => <<l, n>> \in done[t]) /\ (k < l => <<l, n>> \notin done[t])
      BY <1>1, <1>2, <1>4, <3>1, OneByOne
    <3>3. <<l, n>> \in done'[t] <=> l <= k
      <4>1. l \in Int /\ k \in Int
        BY DEF Pushes
      <4>2. CASE l = k
        BY <1>3, <1>4, <4>1, <4>2
      <4>3. CASE l < k
        BY <1>3, <3>2, <4>1, <4>3
      <4>4. CASE k < l
        BY <1>3, <1>4, <3>2, <4>1, <4>4
      <4>5. QED
        BY <4>1, <4>2, <4>3, <4>4
    <3>4. QED
      BY <1>8, <2>2, <3>3 DEF m
  <2>3. CASE ~(u = t /\ x = n)
    <3>1. Program(u)[x] # m
      BY <1>5, <2>3, MemberStores DEF m
    <3>2. QED
      BY <1>8, <1>11, <2>1, <2>3, <3>1 DEF FencesInv, MembersOK
  <2>4. QED
    BY <2>2, <2>3
<1>13. StoresOK'
  <2>1. ASSUME NEW l, NEW x \in {4, 5}
        PROVE  <<l, x>> \in done'["writer"] <=> <<l, x>> \in done["writer"]
    <3>1. "writer" \in Threads /\ ~("writer" = t /\ x = n)
      BY <1>6 DEF Threads
    <3>2. QED
      BY <1>11, <3>1
  <2>2. QED
    BY <1>1, <2>1 DEF FencesInv, StoresOK
<1>14. TestsOK'
  <2>1. \A u \in Threads : \A l : <<l, 1>> \in done'[u] <=> <<l, 1>> \in done[u]
    BY <1>6, <1>11
  <2>2. \A o \in Members : mem[o] \in Int /\ mem'[o] \in Int /\ mem[o] <= mem'[o]
    BY <1>7, <1>8, <1>9
  <2>3. \A l \in Pushes : l \in Int
    BY DEF Pushes
  <2>4. mem["readVPtr"] <= mem'["readVPtr"] /\ mem["writeVPtr"] <= mem'["writeVPtr"]
        /\ mem["readVPtr"] \in Int /\ mem'["readVPtr"] \in Int
        /\ mem["writeVPtr"] \in Int /\ mem'["writeVPtr"] \in Int
    BY <2>2 DEF Members
  <2>5. ASSUME NEW l \in Pushes
        PROVE  /\ <<l, 1>> \in done'["writer"] => l <= mem'["readVPtr"] + Slots
               /\ <<l, 1>> \in done'["reader"] => l <= mem'["writeVPtr"]
    <3>1. /\ <<l, 1>> \in done'["writer"] => l <= mem["readVPtr"] + Slots
          /\ <<l, 1>> \in done'["reader"] => l <= mem["writeVPtr"]
      BY <2>1 DEF FencesInv, TestsOK, Threads
    <3>2. QED
      BY <2>3, <2>4, <3>1, FencesAssumption
  <2>6. QED
    BY <2>5 DEF TestsOK
<1>15. FreshRead'
  <2>1. ~IsBuffer(Name(t, a))
    BY <1>4, <1>5 DEF IsBuffer, Members, m
  <2>2. \A x \in done'["reader"] : IsBuffer(Name("reader", x)) => x \in done["reader"]
    BY <1>3, <2>1 DEF Threads
  <2>3. QED
    BY <1>1, <2>2 DEF FencesInv, FreshRead
<1>16. QED
  BY <1>3, <1>10, <1>12, <1>13, <1>14, <1>15 DEF FencesInv

\* A store of header or data into the slot of the element.
LEMMA StoreBufferInv ==
  ASSUME FencesInv, NEW a \in Access("writer"), StoreBuffer(a)
  PROVE  FencesInv'
<1>1. /\ Ready("writer", a) /\ Perform("writer", a) /\ UNCHANGED <<platform, mem, got>>
      /\ IsBuffer(Name("writer", a))
      /\ buf' = [buf EXCEPT ![SlotOf(a[1])][Name("writer", a)] = a[1]]
  BY DEF StoreBuffer
<1>2. FenceTypes /\ Closed /\ "writer" \in Threads /\ "reader" \in Threads
  BY DEF FencesInv, Threads
<1>3. /\ a \notin done["writer"] /\ done'["writer"] = done["writer"] \cup {a}
      /\ DOMAIN done' = Threads /\ done'["reader"] = done["reader"]
      /\ \A u \in Threads : done'[u] \subseteq Access(u)
      /\ Closed'
  BY <1>1, <1>2, PerformOne
<1>4. PICK k \in Pushes, n \in DOMAIN PushProgram :
        a = <<k, n>> /\ Name("writer", a) = PushProgram[n]
  BY AccessForm DEF Program
<1>5. n \in {4, 5}
  BY <1>1, <1>4 DEF PushProgram, IsBuffer
<1> DEFINE f == PushProgram[n]
           s == SlotOf(k)
<1>6. /\ f \in Fields /\ PushProgram[4] = "header" /\ PushProgram[5] = "data"
  BY <1>5 DEF PushProgram, Fields
<1>7. s \in 0 .. (Slots - 1) /\ k \in 0 .. MaxWrites /\ k # 0
  BY FencesAssumption DEF SlotOf, Pushes
<1>8. buf' = [buf EXCEPT ![s] = [buf[s] EXCEPT ![f] = k]]
  BY <1>1, <1>4
<1> HIDE DEF f, s
<1>9. /\ buf' \in [0 .. (Slots - 1) -> [Fields -> 0 .. MaxWrites]] /\ buf'[s][f] = k
      /\ \A z \in 0 .. (Slots - 1) : \A g \in Fields :
           ~(z = s /\ g = f) => buf'[z][g] = buf[z][g]
  <2>1. buf \in [0 .. (Slots - 1) -> [Fields -> 0 .. MaxWrites]]
    BY <1>2 DEF FenceTypes
  <2>2. [buf[s] EXCEPT ![f] = k] \in [Fields -> 0 .. MaxWrites]
    BY <1>6, <1>7, <2>1
  <2>3. QED
    BY <1>6, <1>7, <1>8, <2>1, <2>2
<1>10. FenceTypes'
  BY <1>1, <1>2, <1>3, <1>9 DEF FenceTypes
<1>11. \A u \in Threads : \A l, x :
         x \notin {4, 5} => (<<l, x>> \in done'[u] <=> <<l, x>> \in done[u])
  BY <1>3, <1>4, <1>5 DEF Threads
<1>12. MembersOK'
  <2>1. SUFFICES ASSUME NEW u \in Threads, NEW x \in DOMAIN Program(u), NEW l \in Pushes,
                        Program(u)[x] \in Members
                 PROVE  <<l, x>> \in done'[u] <=> l <= mem[Program(u)[x]]
    BY <1>1 DEF MembersOK
  <2>2. x \notin {4, 5}
    BY <2>1, MemberStores
  <2>3. QED
    BY <1>11, <2>1, <2>2 DEF FencesInv, MembersOK
<1>13. StoresOK'
  <2>1. ASSUME NEW x \in {4, 5}, NEW l \in Pushes, <<l, x>> \in done'["writer"]
        PROVE  l <= buf'[SlotOf(l)][PushProgram[x]]
    <3>1. l \in Int /\ k \in Int /\ SlotOf(l) \in 0 .. (Slots - 1) /\ PushProgram[x] \in Fields
      BY <1>6, FencesAssumption DEF Pushes, SlotOf, Fields
    <3>2. CASE SlotOf(l) = s /\ x = n
      <4>1. k < l => <<l, n>> \notin done["writer"]
        BY <1>1, <1>2, <1>4, <3>2, OneByOne DEF s
      <4>2. l = k \/ <<l, n>> \in done["writer"]
        BY <1>3, <1>4, <2>1, <3>2
      <4>3. l <= k
        BY <3>1, <4>1, <4>2
      <4>4. QED
        BY <1>9, <3>2, <4>3 DEF f
    <3>3. CASE ~(SlotOf(l) = s /\ x = n)
      <4>1. <<l, x>> \in done["writer"]
        BY <1>3, <1>4, <2>1, <3>3 DEF s
      <4>2. ~(SlotOf(l) = s /\ PushProgram[x] = f)
        BY <1>5, <1>6, <3>3 DEF f
      <4>3. QED
        BY <1>9, <3>1, <4>1, <4>2 DEF FencesInv, StoresOK
    <3>4. QED
      BY <3>2, <3>3
  <2>2. ASSUME NEW x \in {4, 5}, NEW z \in 0 .. (Slots - 1), buf'[z][PushProgram[x]] # 0
        PROVE  /\ SlotOf(buf'[z][PushProgram[x]]) = z
               /\ <<buf'[z][PushProgram[x]], x>> \in done'["writer"]
    <3>1. CASE z = s /\ x = n
      BY <1>3, <1>4, <1>9, <3>1 DEF f, s
    <3>2. CASE ~(z = s /\ x = n)
      <4>1. ~(z = s /\ PushProgram[x] = f) /\ PushProgram[x] \in Fields
        BY <1>5, <1>6, <3>2 DEF f, Fields
      <4>2. buf'[z][PushProgram[x]] = buf[z][PushProgram[x]]
        BY <1>9, <4>1
      <4>3. QED
        BY <1>3, <2>2, <4>2 DEF FencesInv, StoresOK
    <3>3. QED
      BY <3>1, <3>2
  <2>3. QED
    BY <2>1, <2>2 DEF StoresOK
<1>14. TestsOK' /\ FreshRead'
  <2>1. \A u \in Threads : \A l : <<l, 1>> \in done'[u] <=> <<l, 1>> \in done[u]
    BY <1>11
  <2>2. TestsOK'
    BY <1>1, <1>2, <2>1 DEF FencesInv, TestsOK
  <2>3. FreshRead'
    BY <1>1, <1>3 DEF FencesInv, FreshRead
  <2>4. QED
    BY <2>2, <2>3
<1>15. QED
  BY <1>3, <1>10, <1>12, <1>13, <1>14 DEF FencesInv

\* Two elements of one slot are a whole ring apart.
LEMMA RingApart ==
  ASSUME NEW k \in Nat, NEW v \in Nat, k < v, SlotOf(k) = SlotOf(v)
  PROVE  k + Slots <= v
<1> DEFINE S == Slots
           p == k \div S
           q == v \div S
           r == k % S
<1>1. S \in Nat \ {0}
  BY FencesAssumption
<1>2. (k % S) = (v % S)
  BY DEF SlotOf
<1> HIDE DEF S
<1>3. p \in Nat /\ q \in Nat /\ r \in 0 .. (S - 1) /\ k = S * p + r /\ v = S * q + r
  BY <1>1, <1>2
<1> HIDE DEF p, q, r
<1>4. q >= p + 1
  <2>1. CASE q <= p
    <3>1. S * q <= S * p
      BY <1>1, <1>3, <2>1
    <3>2. S * q \in Nat /\ S * p \in Nat
      BY <1>1, <1>3
    <3>3. QED
      BY <1>1, <1>3, <3>1, <3>2
  <2>2. QED
    BY <1>3, <2>1
<1>5. S * q >= S * (p + 1)
  BY <1>1, <1>3, <1>4
<1>6. S * (p + 1) = S * p + S
  BY <1>1, <1>3
<1>7. S * q \in Nat /\ S * p \in Nat
  BY <1>1, <1>3
<1>8. k + S <= v
  BY <1>1, <1>3, <1>5, <1>6, <1>7
<1>9. QED
  BY <1>8 DEF S

\* What has been performed before an access that has.
LEMMA DoneBefore ==
  ASSUME FenceTypes, Closed, NEW k \in Pushes
  PROVE  /\ \A n \in {2, 4, 5, 6, 8} : <<k, n>> \in done["writer"] => <<k, 1>> \in done["writer"]
         /\ \A n \in {4, 5} : <<k, n>> \in done["writer"] => <<k, 2>> \in done["writer"]
         /\ \A n \in {4, 5, 6} : <<k, 8>> \in done["writer"] => <<k, n>> \in done["writer"]
         /\ \A n \in {3, 4, 6, 7} : <<k, n>> \in done["reader"] => <<k, 1>> \in done["reader"]
         /\ \A n \in {3, 4} : <<k, 6>> \in done["reader"] => <<k, n>> \in done["reader"]
<1>1. platform \in AllPlatforms /\ "writer" \in Threads /\ "reader" \in Threads
  BY DEF FenceTypes, Threads
<1>2. /\ \A n \in {1, 2, 4, 5, 6, 8} : <<k, n>> \in Access("writer")
      /\ \A n \in {1, 3, 4, 6, 7} : <<k, n>> \in Access("reader")
  BY Accesses DEF Pushes
<1>3. k \in 1 .. MaxWrites
  BY DEF Pushes
<1>4. /\ \A n \in {2, 4, 5, 6, 8} : Ordered("writer", platform, <<k, 1>>, <<k, n>>)
      /\ \A n \in {4, 5} : Ordered("writer", platform, <<k, 2>>, <<k, n>>)
      /\ \A n \in {4, 5, 6} : Ordered("writer", platform, <<k, n>>, <<k, 8>>)
  BY <1>1, <1>3, PushOrder
<1>5. /\ \A n \in {3, 4, 6, 7} : Ordered("reader", platform, <<k, 1>>, <<k, n>>)
      /\ \A n \in {3, 4} : Ordered("reader", platform, <<k, n>>, <<k, 6>>)
  BY <1>1, <1>3, ReadOrder
<1>6. /\ \A x, y \in {1, 2, 4, 5, 6, 8} :
           Ordered("writer", platform, <<k, x>>, <<k, y>>) /\ <<k, y>> \in done["writer"]
             => <<k, x>> \in done["writer"]
      /\ \A x, y \in {1, 3, 4, 6, 7} :
           Ordered("reader", platform, <<k, x>>, <<k, y>>) /\ <<k, y>> \in done["reader"]
             => <<k, x>> \in done["reader"]
  BY <1>1, <1>2 DEF Closed
<1>7. QED
  BY <1>4, <1>5, <1>6

\* The pointers and counters, store by store.
LEMMA MemberValues ==
  ASSUME MembersOK, NEW k \in Pushes
  PROVE  /\ <<k, 2>> \in done["writer"] <=> k <= mem["nextWriteVPtr"]
         /\ <<k, 6>> \in done["writer"] <=> k <= mem["numWritten"]
         /\ <<k, 8>> \in done["writer"] <=> k <= mem["writeVPtr"]
         /\ <<k, 6>> \in done["reader"] <=> k <= mem["readVPtr"]
         /\ <<k, 7>> \in done["reader"] <=> k <= mem["numRead"]
<1>1. /\ Program("writer") = PushProgram /\ Program("reader") = ReadProgram
      /\ "writer" \in Threads /\ "reader" \in Threads
  BY DEF Program, Threads
<1>2. /\ DOMAIN PushProgram = 1 .. 8 /\ PushProgram[2] = "nextWriteVPtr"
      /\ PushProgram[6] = "numWritten" /\ PushProgram[8] = "writeVPtr"
  BY DEF PushProgram
<1>3. /\ DOMAIN ReadProgram = 1 .. 7 /\ ReadProgram[6] = "readVPtr" /\ ReadProgram[7] = "numRead"
  BY DEF ReadProgram
<1>4. \A n \in {2, 6, 8} : <<k, n>> \in done["writer"] <=> k <= mem[PushProgram[n]]
  BY <1>1, <1>2 DEF MembersOK, Members
<1>5. \A n \in {6, 7} : <<k, n>> \in done["reader"] <=> k <= mem[ReadProgram[n]]
  BY <1>1, <1>3 DEF MembersOK, Members
<1>6. QED
  BY <1>2, <1>3, <1>4, <1>5

\* The load of header or data finds the element: it has been stored, and the
\* next element of the slot has not, for the slot has not been given back.
LEMMA LoadBufferFinds ==
  ASSUME FencesInv, NEW k \in Pushes, NEW n \in {3, 4}, Ready("reader", <<k, n>>)
  PROVE  buf[SlotOf(k)][ReadProgram[n]] = k
<1> DEFINE w == n + 1
           v == buf[SlotOf(k)][PushProgram[w]]
<1>1. FenceTypes /\ Closed /\ MembersOK /\ StoresOK /\ TestsOK
  BY DEF FencesInv
<1>2. w \in {4, 5} /\ PushProgram[w] = ReadProgram[n] /\ PushProgram[w] \in Fields
  <2>1. PushProgram[4] = "header" /\ PushProgram[5] = "data"
        /\ ReadProgram[3] = "header" /\ ReadProgram[4] = "data"
    BY DEF PushProgram, ReadProgram
  <2>2. n = 3 \/ n = 4
    OBVIOUS
  <2>3. QED
    BY <2>1, <2>2 DEF Fields
<1>3. <<k, n>> \notin done["reader"]
  BY DEF Ready
<1>4. <<k, 1>> \in done["reader"]
  <2>1. <<k, 1>> \in Access("reader")
    BY Accesses DEF Pushes
  <2>2. Ordered("reader", platform, <<k, 1>>, <<k, n>>)
    BY <1>1, ReadOrder DEF FenceTypes, Pushes
  <2>3. QED
    BY <2>1, <2>2 DEF Ready
<1>5. k <= mem["writeVPtr"]
  BY <1>1, <1>4 DEF TestsOK
<1>6. <<k, w>> \in done["writer"]
  <2>1. <<k, 8>> \in done["writer"]
    BY <1>1, <1>5, MemberValues
  <2>2. QED
    BY <1>1, <1>2, <2>1, DoneBefore
<1> HIDE DEF w
<1>7. SlotOf(k) \in 0 .. (Slots - 1) /\ k \in Nat /\ k > 0 /\ Slots \in Nat
  BY FencesAssumption DEF SlotOf, Pushes
<1>8. v \in 0 .. MaxWrites
  BY <1>1, <1>2, <1>7 DEF FenceTypes
<1>9. k <= v
  BY <1>1, <1>2, <1>6 DEF StoresOK
<1>10. v \in Pushes /\ v # 0
  BY <1>7, <1>8, <1>9, FencesAssumption DEF Pushes
<1>11. SlotOf(v) = SlotOf(k) /\ <<v, w>> \in done["writer"]
  BY <1>1, <1>2, <1>7, <1>10 DEF StoresOK
<1>12. v <= mem["readVPtr"] + Slots
  <2>1. <<v, 1>> \in done["writer"]
    BY <1>1, <1>2, <1>10, <1>11, DoneBefore
  <2>2. QED
    BY <1>1, <1>10, <2>1 DEF TestsOK
<1>13. ~(k < v)
  <2>1. SUFFICES ASSUME k < v PROVE FALSE
    OBVIOUS
  <2>2. v \in Nat
    BY <1>10 DEF Pushes
  <2>3. k + Slots <= v
    BY <1>7, <1>11, <2>1, <2>2, RingApart
  <2>4. mem["readVPtr"] \in Int
    BY <1>1 DEF FenceTypes, Members
  <2>5. k <= mem["readVPtr"]
    BY <1>7, <1>12, <2>2, <2>3, <2>4
  <2>6. <<k, 6>> \in done["reader"]
    BY <1>1, <2>5, MemberValues
  <2>7. QED
    BY <1>1, <1>3, <2>6, DoneBefore
<1>14. v = k
  BY <1>7, <1>8, <1>9, <1>13
<1>15. QED
  BY <1>2, <1>14

\* A load of header or data.
LEMMA LoadBufferInv ==
  ASSUME FencesInv, NEW a \in Access("reader"), LoadBuffer(a)
  PROVE  FencesInv'
<1>1. /\ Ready("reader", a) /\ Perform("reader", a) /\ UNCHANGED <<platform, mem, buf>>
      /\ IsBuffer(Name("reader", a))
      /\ got' = [got EXCEPT ![a[1]][Name("reader", a)] = buf[SlotOf(a[1])][Name("reader", a)]]
  BY DEF LoadBuffer
<1>2. FenceTypes /\ Closed /\ "writer" \in Threads /\ "reader" \in Threads
  BY DEF FencesInv, Threads
<1>3. /\ a \notin done["reader"] /\ done'["reader"] = done["reader"] \cup {a}
      /\ DOMAIN done' = Threads /\ done'["writer"] = done["writer"]
      /\ \A u \in Threads : done'[u] \subseteq Access(u)
      /\ Closed'
  BY <1>1, <1>2, PerformOne
<1>4. PICK k \in Pushes, n \in DOMAIN ReadProgram :
        a = <<k, n>> /\ Name("reader", a) = ReadProgram[n]
  BY AccessForm DEF Program
<1>5. n \in {3, 4}
  BY <1>1, <1>4 DEF ReadProgram, IsBuffer
<1> DEFINE f == ReadProgram[n]
<1>6. f \in Fields
  BY <1>5 DEF ReadProgram, Fields
<1>7. got' = [got EXCEPT ![k] = [got[k] EXCEPT ![f] = k]]
  <2>1. buf[SlotOf(k)][f] = k
    BY <1>1, <1>4, <1>5, LoadBufferFinds
  <2>2. QED
    BY <1>1, <1>4, <2>1
<1> HIDE DEF f
<1>8. /\ got' \in [Pushes -> [Fields -> 0 .. MaxWrites]] /\ got'[k][f] = k
      /\ \A l \in Pushes : \A g \in Fields : ~(l = k /\ g = f) => got'[l][g] = got[l][g]
  <2>1. got \in [Pushes -> [Fields -> 0 .. MaxWrites]]
    BY <1>2 DEF FenceTypes
  <2>2. k \in 0 .. MaxWrites
    BY DEF Pushes
  <2>3. [got[k] EXCEPT ![f] = k] \in [Fields -> 0 .. MaxWrites]
    BY <1>6, <2>1, <2>2
  <2>4. QED
    BY <1>6, <1>7, <2>1, <2>3
<1>9. FenceTypes'
  BY <1>1, <1>2, <1>3, <1>8 DEF FenceTypes
<1>10. \A u \in Threads : \A l, x :
         ~(u = "reader" /\ x \in {3, 4}) => (<<l, x>> \in done'[u] <=> <<l, x>> \in done[u])
  BY <1>3, <1>4, <1>5 DEF Threads
<1>11. MembersOK'
  <2>1. SUFFICES ASSUME NEW u \in Threads, NEW x \in DOMAIN Program(u), NEW l \in Pushes,
                        Program(u)[x] \in Members
                 PROVE  <<l, x>> \in done'[u] <=> l <= mem[Program(u)[x]]
    BY <1>1 DEF MembersOK
  <2>2. ~(u = "reader" /\ x \in {3, 4})
    BY <2>1, MemberStores
  <2>3. QED
    BY <1>10, <2>1, <2>2 DEF FencesInv, MembersOK
<1>12. StoresOK'
  BY <1>1, <1>3 DEF FencesInv, StoresOK
<1>13. TestsOK'
  <2>1. \A u \in Threads : \A l : <<l, 1>> \in done'[u] <=> <<l, 1>> \in done[u]
    BY <1>10
  <2>2. QED
    BY <1>1, <1>2, <2>1 DEF FencesInv, TestsOK
<1>14. FreshRead'
  <2>1. SUFFICES ASSUME NEW x \in done'["reader"], IsBuffer(Name("reader", x))
                 PROVE  got'[x[1]][Name("reader", x)] = x[1]
    BY DEF FreshRead
  <2>2. CASE x = a
    BY <1>4, <1>8, <2>2 DEF f
  <2>3. CASE x # a
    <3>1. x \in done["reader"] /\ x \in Access("reader")
      BY <1>2, <1>3, <2>3 DEF FenceTypes
    <3>2. got[x[1]][Name("reader", x)] = x[1]
      BY <2>1, <3>1 DEF FencesInv, FreshRead
    <3>3. PICK l \in Pushes, y \in DOMAIN ReadProgram :
            x = <<l, y>> /\ Name("reader", x) = ReadProgram[y]
      BY <3>1, AccessForm DEF Program
    <3>4. y \in {3, 4}
      BY <2>1, <3>3 DEF ReadProgram, IsBuffer
    <3>5. ReadProgram[3] = "header" /\ ReadProgram[4] = "data"
      BY DEF ReadProgram
    <3>6. ~(l = k /\ ReadProgram[y] = f) /\ ReadProgram[y] \in Fields
      BY <1>4, <1>5, <2>3, <3>3, <3>4, <3>5 DEF f, Fields
    <3>7. QED
      BY <1>8, <3>2, <3>3, <3>6
  <2>4. QED
    BY <2>2, <2>3
<1>15. QED
  BY <1>3, <1>9, <1>11, <1>12, <1>13, <1>14 DEF FencesInv

\* Every step.
LEMMA FencesStep == FencesInv /\ [Next]_vars => FencesInv'
<1> SUFFICES ASSUME FencesInv, [Next]_vars PROVE FencesInv'
  OBVIOUS
<1>1. ASSUME NEW t \in Threads, NEW a \in Access(t), LoadPointer(t, a) PROVE FencesInv'
  BY <1>1, LoadPointerInv
<1>2. ASSUME NEW t \in Threads, NEW a \in Access(t), StoreMember(t, a) PROVE FencesInv'
  BY <1>2, StoreMemberInv
<1>3. ASSUME NEW a \in Access("writer"), StoreBuffer(a) PROVE FencesInv'
  BY <1>3, StoreBufferInv
<1>4. ASSUME NEW a \in Access("reader"), LoadBuffer(a) PROVE FencesInv'
  BY <1>4, LoadBufferInv
<1>5. ASSUME UNCHANGED <<platform, mem, buf, got, done>> PROVE FencesInv'
  BY <1>5 DEF FencesInv, FenceTypes, Closed, MembersOK, StoresOK, TestsOK, FreshRead
<1>6. CASE UNCHANGED vars
  BY <1>5, <1>6 DEF vars
<1>7. ASSUME NEW m \in DOMAIN seen, ValidateLoads(m) PROVE FencesInv'
  BY <1>5, <1>7 DEF ValidateLoads
<1>8. QED
  BY <1>1, <1>2, <1>3, <1>4, <1>6, <1>7 DEF Next

\* The invariant holds in every state of every behaviour.
LEMMA FencesInvariance == Spec => []FencesInv
BY FencesInit, FencesStep, PTL DEF Spec

-----------------------------------------------------------------------------
(* What the fences are for.                                                *)

\* On every platform of membar.h, in every order its fences allow: what read
\* loads for an element is that element (finishWrite's comment).
THEOREM ReadIsFresh == Spec => []FreshRead
<1>1. FencesInv => FreshRead
  BY DEF FencesInv
<1>2. QED
  BY <1>1, FencesInvariance, PTL

\* A byte of an element is in memory only when nextWriteVPtr_ announces the
\* element: the store of nextWriteVPtr_ has been performed before.
LEMMA StoredIsAnnounced == FencesInv => AnnouncedFirst
<1> SUFFICES ASSUME FencesInv PROVE AnnouncedFirst
  OBVIOUS
<1>1. FenceTypes /\ Closed /\ MembersOK /\ StoresOK
  BY DEF FencesInv
<1>2. ASSUME NEW s \in DOMAIN buf, NEW n \in {4, 5}
      PROVE  mem["nextWriteVPtr"] >= buf[s][PushProgram[n]]
  <2> DEFINE v == buf[s][PushProgram[n]]
  <2>1. s \in 0 .. (Slots - 1) /\ mem["nextWriteVPtr"] \in 0 .. MaxWrites
    BY <1>1 DEF FenceTypes, Members
  <2>2. PushProgram[n] \in Fields
    BY DEF PushProgram, Fields
  <2>3. v \in 0 .. MaxWrites
    BY <1>1, <2>1, <2>2 DEF FenceTypes
  <2>4. CASE v = 0
    BY <2>1, <2>4
  <2>5. CASE v # 0
    <3>1. v \in Pushes
      BY <2>3, <2>5, FencesAssumption DEF Pushes
    <3>2. <<v, n>> \in done["writer"]
      BY <1>1, <2>1, <2>5 DEF StoresOK
    <3>3. <<v, 2>> \in done["writer"]
      BY <1>1, <3>1, <3>2, DoneBefore
    <3>4. v <= mem["nextWriteVPtr"]
      BY <1>1, <3>1, <3>3, MemberValues
    <3>5. QED
      BY <2>1, <2>3, <3>4
  <2>6. QED
    BY <2>4, <2>5
<1>3. PushProgram[4] = "header" /\ PushProgram[5] = "data"
  BY DEF PushProgram
<1>4. \A s \in DOMAIN buf : /\ mem["nextWriteVPtr"] >= buf[s]["header"]
                            /\ mem["nextWriteVPtr"] >= buf[s]["data"]
  BY <1>2, <1>3
<1>5. QED
  BY <1>4 DEF AnnouncedFirst

\* startWrite's comment: whoever sees a byte of an element sees the element
\* announced, on every platform.
THEOREM ElementsAnnounced == Spec => []AnnouncedFirst
BY StoredIsAnnounced, FencesInvariance, PTL

\* The reader counts what it has seen, and what it sees has been counted: at
\* no moment is numRead_ ahead in memory.
MemoryInStep == mem["numRead"] <= mem["numWritten"]

LEMMA ReadIsCounted == FencesInv => MemoryInStep
<1> SUFFICES ASSUME FencesInv PROVE MemoryInStep
  OBVIOUS
<1> DEFINE n == mem["numRead"]
<1>1. FenceTypes /\ Closed /\ MembersOK /\ TestsOK
  BY DEF FencesInv
<1>2. n \in 0 .. MaxWrites /\ mem["numWritten"] \in 0 .. MaxWrites /\ MaxWrites \in Nat
  BY <1>1, FencesAssumption DEF FenceTypes, Members
<1>3. CASE n = 0
  BY <1>2, <1>3 DEF MemoryInStep
<1>4. CASE n # 0
  <2>1. n \in Pushes /\ n <= n
    BY <1>2, <1>4 DEF Pushes
  <2>2. <<n, 7>> \in done["reader"]
    BY <1>1, <2>1, MemberValues
  <2>3. <<n, 1>> \in done["reader"]
    BY <1>1, <2>1, <2>2, DoneBefore
  <2>4. n <= mem["writeVPtr"]
    BY <1>1, <2>1, <2>3 DEF TestsOK
  <2>5. <<n, 8>> \in done["writer"]
    BY <1>1, <2>1, <2>4, MemberValues
  <2>6. <<n, 6>> \in done["writer"]
    BY <1>1, <2>1, <2>5, DoneBefore
  <2>7. QED
    BY <1>1, <2>1, <2>6, MemberValues DEF MemoryInStep
<1>5. QED
  BY <1>3, <1>4

\* What validate has loaded: numRead_ has only grown since, and numWritten_ was
\* loaded after it where loads stay in order.
Counters == {"numRead", "numWritten"}

SeenInv ==
  /\ seen \in [Counters -> Int]
  /\ seen["numRead"] <= mem["numRead"]
  /\ LoadsInOrder /\ seen["numWritten"] # -1 =>
       seen["numRead"] # -1 /\ seen["numRead"] <= seen["numWritten"]

\* A counter only grows.
LEMMA StoreGrows ==
  ASSUME FencesInv, NEW t \in Threads, NEW a \in Access(t), StoreMember(t, a)
  PROVE  mem["numRead"] <= mem'["numRead"]
<1>1. /\ Ready(t, a) /\ Name(t, a) \in DOMAIN mem
      /\ mem' = [mem EXCEPT ![Name(t, a)] = a[1]]
  BY DEF StoreMember
<1>2. FenceTypes /\ MembersOK
  BY DEF FencesInv
<1>3. PICK k \in Pushes, n \in DOMAIN Program(t) : a = <<k, n>> /\ Name(t, a) = Program(t)[n]
  BY AccessForm
<1>4. /\ mem \in [Members -> 0 .. MaxWrites] /\ Program(t)[n] \in Members
      /\ mem' = [mem EXCEPT ![Program(t)[n]] = k]
  BY <1>1, <1>2, <1>3 DEF FenceTypes
<1>5. ~(k <= mem[Program(t)[n]])
  BY <1>1, <1>2, <1>3, <1>4 DEF MembersOK, Ready
<1>6. mem["numRead"] \in Int /\ mem[Program(t)[n]] \in Int /\ k \in Int
  BY <1>4 DEF Members, Pushes
<1>7. CASE Program(t)[n] = "numRead"
  BY <1>4, <1>5, <1>6, <1>7
<1>8. CASE Program(t)[n] # "numRead"
  <2>1. mem'["numRead"] = mem["numRead"]
    BY <1>4, <1>8 DEF Members
  <2>2. QED
    BY <1>6, <2>1
<1>9. QED
  BY <1>7, <1>8

\* validate loads a counter, or a counter grows.
LEMMA SeenStep == FencesInv /\ FencesInv' /\ SeenInv /\ [Next]_vars => SeenInv'
<1> SUFFICES ASSUME FencesInv, FencesInv', SeenInv, [Next]_vars PROVE SeenInv'
  OBVIOUS
<1>1. /\ mem["numRead"] \in Nat /\ mem["numWritten"] \in Nat
      /\ mem'["numRead"] \in Nat /\ mem["numRead"] <= mem["numWritten"]
  BY ReadIsCounted, FencesAssumption DEF FencesInv, FenceTypes, Members, MemoryInStep
<1>2. platform' = platform
  BY DEF Next, vars, LoadPointer, StoreMember, StoreBuffer, LoadBuffer, ValidateLoads
<1>3. seen \in [Counters -> Int] /\ seen["numRead"] \in Int /\ seen["numWritten"] \in Int
  BY DEF SeenInv, Counters
<1>4. CASE \E m \in DOMAIN seen : ValidateLoads(m)
  <2>1. PICK m \in Counters : ValidateLoads(m)
    BY <1>3, <1>4
  <2>2. /\ seen[m] = -1 /\ mem' = mem /\ seen' = [seen EXCEPT ![m] = mem[m]]
        /\ m = "numWritten" /\ LoadsInOrder => seen["numRead"] # -1
    BY <2>1 DEF ValidateLoads
  <2>3. LoadsInOrder' = LoadsInOrder
    BY <1>2 DEF LoadsInOrder
  <2>4. CASE m = "numRead"
    <3>1. seen'["numRead"] = mem["numRead"] /\ seen'["numWritten"] = seen["numWritten"]
      BY <1>3, <2>2, <2>4 DEF Counters
    <3>2. LoadsInOrder => seen["numWritten"] = -1
      BY <2>2, <2>4 DEF SeenInv
    <3>3. seen' \in [Counters -> Int]
      BY <1>1, <1>3, <2>2, <2>4
    <3>4. QED
      BY <1>1, <2>2, <2>3, <3>1, <3>2, <3>3 DEF SeenInv
  <2>5. CASE m = "numWritten"
    <3>1. seen'["numWritten"] = mem["numWritten"] /\ seen'["numRead"] = seen["numRead"]
      BY <1>3, <2>2, <2>5 DEF Counters
    <3>2. seen["numRead"] <= mem["numRead"] /\ seen["numRead"] <= mem["numWritten"]
      BY <1>1, <1>3 DEF SeenInv
    <3>3. seen' \in [Counters -> Int]
      BY <1>1, <1>3, <2>2, <2>5
    <3>4. QED
      BY <2>2, <2>3, <2>5, <3>1, <3>2, <3>3 DEF SeenInv
  <2>6. QED
    BY <2>4, <2>5 DEF Counters
<1>5. CASE ~\E m \in DOMAIN seen : ValidateLoads(m)
  <2>1. seen' = seen /\ LoadsInOrder' = LoadsInOrder
    BY <1>2, <1>5 DEF Next, vars, LoadPointer, StoreMember, StoreBuffer, LoadBuffer, LoadsInOrder
  <2>2. mem["numRead"] <= mem'["numRead"]
    <3>1. \/ mem' = mem
          \/ \E t \in Threads : \E a \in Access(t) : StoreMember(t, a)
      BY <1>5 DEF Next, vars, LoadPointer, StoreBuffer, LoadBuffer
    <3>2. QED
      BY <1>1, <3>1, StoreGrows
  <2>3. seen'["numRead"] <= mem'["numRead"]
    BY <1>1, <1>3, <2>1, <2>2 DEF SeenInv
  <2>4. QED
    BY <2>1, <2>3 DEF SeenInv
<1>6. QED
  BY <1>4, <1>5

\* finishWrite's other comment: validate, called in a third thread while both
\* sides run, does not load numRead_ > numWritten_, on every platform whose
\* processor keeps its two loads in order.
THEOREM CountersStayInStep == Spec => []CountersInStep
<1>1. Init => SeenInv
  <2>1. SUFFICES ASSUME Init PROVE SeenInv
    OBVIOUS
  <2>2. seen = [m \in Counters |-> -1] /\ mem["numRead"] = 0
    <3>1. seen = [m \in {"numRead", "numWritten"} |-> -1]
      BY <2>1 DEF Init
    <3>2. mem = [m \in {"readVPtr", "writeVPtr", "nextWriteVPtr", "numRead", "numWritten"} |-> 0]
      BY <2>1 DEF Init
    <3>3. mem["numRead"] = 0
      BY <3>2
    <3>4. QED
      BY <3>1, <3>3, Zenon DEF Counters
  <2>3. seen \in [Counters -> Int] /\ seen["numRead"] = -1 /\ seen["numWritten"] = -1
    BY <2>2 DEF Counters
  <2>4. QED
    BY <2>2, <2>3 DEF SeenInv
<1>2. SeenInv => CountersInStep
  BY DEF SeenInv, CountersInStep
<1>3. QED
  BY <1>1, <1>2, SeenStep, FencesInvariance, PTL DEF Spec

-----------------------------------------------------------------------------
(* The libproc tools, for every link map.                                  *)

\* gordon: it walks no symbols, and every object of the name before the one
\* it is at had no copy; result is 1 only with the address of that one.
GordonInv ==
  tool = "gordon" =>
    /\ tpc \in {"start", "object", "result", "exit"}
    /\ object \in Nat \ {0}
    /\ \A o \in 1 .. (object - 1) : map[o].name = "match" => o \in nocopy
    /\ tpc \in {"start", "object"} => result = 0
    /\ result \in {-1, 0, 1}
    /\ result = 1 => search_addr = object /\ map[object].name = "match"
    /\ result # 1 => search_addr = 0
    /\ result = 0 /\ (tpc = "result" \/ (tpc = "exit" /\ exitCode # 1)) => object > Len(map)

\* The other tools: the count is the one of the symbols seen so far.
NamedUpTo(o, n) == {s \in 1 .. n : map[Walked(o)].symbols[s]}

CountInv ==
  tool # "gordon" =>
    /\ object \in 1 .. (Len(map) + 1)
    /\ tpc = "start" => object = 1
    /\ tpc = "symbol" =>
         /\ object <= Len(map)
         /\ sym \in 1 .. (Len(Symbols) + 1)
         /\ function_count =
              IF pshandle = "NULL" THEN 0 ELSE Cardinality(NamedUpTo(object, sym - 1))
    /\ FunctionsCounted

ToolInv == map \in LinkMaps /\ GordonInv /\ CountInv

\* The objects of a link map.
LEMMA MapTypes ==
  ASSUME map \in LinkMaps
  PROVE  /\ Len(map) \in Nat
         /\ \A o \in 1 .. Len(map) :
              map[o].symbols \in Seq(BOOLEAN) /\ map[Walked(o)].symbols \in Seq(BOOLEAN)
<1> DEFINE Obj == [name : {"match", "other", "NULL"}, symbols : Seq(BOOLEAN)]
<1>1. map \in Seq(Obj)
  BY ToolsAssumption
<1>2. \A x \in Obj : x.symbols \in Seq(BOOLEAN)
  OBVIOUS
<1> HIDE DEF Obj
<1>3. Len(map) \in Nat /\ \A o \in 1 .. Len(map) : map[o] \in Obj
  BY <1>1
<1>4. \A o \in 1 .. Len(map) : Walked(o) \in 1 .. Len(map)
  BY <1>3 DEF Walked
<1>5. QED
  BY <1>2, <1>3, <1>4

\* Before the first object.
LEMMA ToolStarts == ToolInit => ToolInv
<1> SUFFICES ASSUME ToolInit PROVE ToolInv
  OBVIOUS
<1>1. GordonInv
  BY DEF ToolInit, GordonInv
<1>2. map \in LinkMaps /\ object = 1 /\ tpc = "start"
  BY DEF ToolInit
<1>3. Len(map) \in Nat
  BY <1>2, MapTypes
<1>4. CountInv
  BY <1>2, <1>3 DEF CountInv, FunctionsCounted
<1>5. QED
  BY <1>1, <1>2, <1>4 DEF ToolInv

\* What gordon does.
LEMMA GordonStep == ToolInv /\ [ToolNext]_toolVars => GordonInv'
<1> SUFFICES ASSUME ToolInv, [ToolNext]_toolVars, tool' = "gordon" PROVE GordonInv'
  BY DEF GordonInv
<1>1. tool = "gordon" /\ map' = map
  BY DEF ToolNext, toolVars, GordonMain, ProctestMain, GrabFileMain, ExtractMain, Grab,
         GordonCallback, ProctestObject, GrabFileObject, ExtractObject, SymbolIter,
         ProctestFunction, GrabFileFunction, ExtractFunction, CountFunction, SymbolsDone,
         Killed, IterReturns, Pfree
<1>2. /\ tpc \in {"start", "object", "result", "exit"} /\ object \in Nat \ {0}
      /\ \A o \in 1 .. (object - 1) : map[o].name = "match" => o \in nocopy
      /\ tpc \in {"start", "object"} => result = 0
      /\ result \in {-1, 0, 1}
      /\ result = 1 => search_addr = object /\ map[object].name = "match"
      /\ result # 1 => search_addr = 0
      /\ result = 0 /\ (tpc = "result" \/ (tpc = "exit" /\ exitCode # 1)) => object > Len(map)
  BY <1>1 DEF ToolInv, GordonInv
<1>3. CASE GordonMain
  BY <1>1, <1>2, <1>3 DEF GordonMain, Grab, ToolExit, walk, search, GordonInv
<1>4. CASE GordonCallback
  <2>1. tpc = "object" /\ nocopy \subseteq nocopy'
    BY <1>4 DEF GordonCallback, Object
  <2>2. CASE object' = object + 1 /\ UNCHANGED <<tpc, result, search_addr>> /\
             (map[object].name = "match" => object \in nocopy')
    <3>1. ASSUME NEW o \in 1 .. (object' - 1), map[o].name = "match" PROVE o \in nocopy'
      <4>1. o = object \/ o \in 1 .. (object - 1)
        BY <1>2, <2>2
      <4>2. QED
        BY <1>2, <2>1, <2>2, <3>1, <4>1
    <3>2. QED
      BY <1>1, <1>2, <2>1, <2>2, <3>1 DEF GordonInv
  <2>3. CASE /\ search_addr' = object /\ result' = 1 /\ tpc' = "result"
             /\ map[object].name = "match" /\ UNCHANGED <<object, nocopy>>
    BY <1>1, <1>2, <2>3 DEF GordonInv
  <2>4. QED
    BY <1>4, <2>2, <2>3 DEF GordonCallback
<1>5. CASE IterReturns
  BY <1>1, <1>2, <1>5 DEF IterReturns, walk, GordonInv
<1>6. CASE Pfree
  BY <1>1, <1>2, <1>6 DEF Pfree, ToolExit, walk, search, GordonInv
<1>7. CASE UNCHANGED toolVars
  BY <1>1, <1>2, <1>7 DEF toolVars, walk, search, GordonInv
<1>8. QED
  BY <1>1, <1>2, <1>3, <1>4, <1>5, <1>6, <1>7
     DEF ToolNext, ProctestMain, GrabFileMain, ExtractMain, Object, Symbol, ProctestObject,
         GrabFileObject, ExtractObject, ProctestFunction, GrabFileFunction, ExtractFunction,
         SymbolsDone, Killed

\* One more symbol.
LEMMA NextSymbol ==
  ASSUME NEW o, NEW n \in Nat
  PROVE  /\ IsFiniteSet(NamedUpTo(o, n)) /\ Cardinality(NamedUpTo(o, n)) \in Nat
         /\ Cardinality(NamedUpTo(o, n + 1)) =
              Cardinality(NamedUpTo(o, n)) + (IF map[Walked(o)].symbols[n + 1] THEN 1 ELSE 0)
<1>1. IsFiniteSet(1 .. n)
  BY FS_Interval
<1>2. NamedUpTo(o, n) \subseteq 1 .. n
  BY DEF NamedUpTo
<1>3. IsFiniteSet(NamedUpTo(o, n)) /\ Cardinality(NamedUpTo(o, n)) \in Nat
  BY <1>1, <1>2, FS_Subset, FS_CardinalityType
<1>4. CASE map[Walked(o)].symbols[n + 1]
  <2>1. NamedUpTo(o, n + 1) = NamedUpTo(o, n) \cup {n + 1} /\ n + 1 \notin NamedUpTo(o, n)
    BY <1>4 DEF NamedUpTo
  <2>2. QED
    BY <1>3, <1>4, <2>1, FS_AddElement
<1>5. CASE ~map[Walked(o)].symbols[n + 1]
  <2>1. NamedUpTo(o, n + 1) = NamedUpTo(o, n)
    BY <1>5 DEF NamedUpTo
  <2>2. QED
    BY <1>3, <1>5, <2>1
<1>6. QED
  BY <1>3, <1>4, <1>5

\* What the other tools do.
LEMMA CountStep == ToolInv /\ [ToolNext]_toolVars => CountInv'
<1> SUFFICES ASSUME ToolInv, [ToolNext]_toolVars, tool' # "gordon" PROVE CountInv'
  BY DEF CountInv
<1>1. tool' = tool /\ tool # "gordon" /\ map' = map
  BY DEF ToolNext, toolVars, GordonMain, ProctestMain, GrabFileMain, ExtractMain, Grab,
         GordonCallback, ProctestObject, GrabFileObject, ExtractObject, SymbolIter,
         ProctestFunction, GrabFileFunction, ExtractFunction, CountFunction, SymbolsDone,
         Killed, IterReturns, Pfree
<1>2. /\ object \in 1 .. (Len(map) + 1)
      /\ tpc = "start" => object = 1
      /\ tpc = "symbol" =>
           /\ object <= Len(map)
           /\ sym \in 1 .. (Len(Symbols) + 1)
           /\ function_count =
                IF pshandle = "NULL" THEN 0 ELSE Cardinality(NamedUpTo(object, sym - 1))
      /\ FunctionsCounted
  BY <1>1 DEF ToolInv, CountInv
<1>3. Len(map) \in Nat /\ \A o \in 1 .. Len(map) : map[Walked(o)].symbols \in Seq(BOOLEAN)
  BY MapTypes DEF ToolInv
<1>4. CASE ProctestMain \/ GrabFileMain \/ ExtractMain
  <2>1. tpc = "start" /\ object' = object /\ tpc' \in {"exit", "object"}
    BY <1>4 DEF ProctestMain, GrabFileMain, ExtractMain, Grab, ToolExit, walk
  <2>2. QED
    BY <1>1, <1>2, <2>1 DEF CountInv, FunctionsCounted
<1>5. CASE ProctestObject \/ GrabFileObject \/ ExtractObject
  <2>1. PICK h : SymbolIter(h)
    BY <1>5 DEF ProctestObject, GrabFileObject, ExtractObject
  <2>2. object <= Len(map) /\ tpc' = "symbol" /\ object' = object /\ sym' = 1
        /\ function_count' = 0
    BY <1>5, <2>1 DEF ProctestObject, GrabFileObject, ExtractObject, Object, SymbolIter
  <2>3. Symbols \in Seq(BOOLEAN) /\ Symbols' = Symbols
    BY <1>1, <1>2, <1>3, <2>2 DEF Symbols, Walked
  <2>4. sym' \in 1 .. (Len(Symbols) + 1)
    BY <2>2, <2>3
  <2>5. NamedUpTo(object, sym - 1)' = {}
    BY <1>1, <2>2 DEF NamedUpTo
  <2>6. Cardinality(NamedUpTo(object, sym - 1)') = 0
    BY <2>5, FS_EmptySet
  <2>7. QED
    BY <1>1, <1>2, <2>2, <2>3, <2>4, <2>6 DEF CountInv, FunctionsCounted
<1>6. CASE /\ CountFunction
           /\ tpc = "symbol" /\ pshandle # "NULL" /\ sym <= Len(Symbols)
  <2>1. /\ function_count' = function_count + (IF Symbols[sym] THEN 1 ELSE 0)
        /\ sym' = sym + 1 /\ tpc' = tpc /\ object' = object /\ pshandle' = pshandle
    BY <1>6 DEF CountFunction
  <2>2. Len(Symbols) \in Nat /\ object <= Len(map) /\ Symbols' = Symbols
    BY <1>1, <1>2, <1>3, <1>6, <2>1 DEF Symbols, Walked
  <2>3. sym' \in 1 .. (Len(Symbols) + 1) /\ sym - 1 \in Nat /\ (sym - 1) + 1 = sym
        /\ sym' - 1 = sym
    BY <1>2, <1>6, <2>1, <2>2
  <2>4. function_count' = Cardinality(NamedUpTo(object, sym))
    BY <1>2, <1>6, <2>1, <2>3, NextSymbol DEF Symbols
  <2>5. NamedUpTo(object, sym - 1)' = NamedUpTo(object, sym)
    BY <1>1, <2>1, <2>3 DEF NamedUpTo, Walked
  <2>6. QED
    BY <1>1, <1>2, <1>6, <2>1, <2>2, <2>3, <2>4, <2>5 DEF CountInv, FunctionsCounted
<1>7. CASE SymbolsDone
  <2>1. /\ tpc = "symbol" /\ object' = object + 1 /\ tpc' = "object"
        /\ pshandle # "NULL" /\ ~cut' => ~(sym <= Len(Symbols))
        /\ UNCHANGED <<pshandle, function_count>>
    BY <1>7 DEF SymbolsDone
  <2>2. /\ Symbols \in Seq(BOOLEAN) /\ Len(Symbols) \in Nat
        /\ DOMAIN Symbols = 1 .. Len(Symbols)
        /\ object' \in 1 .. (Len(map) + 1) /\ object' - 1 = object
    BY <1>2, <1>3, <2>1 DEF Symbols
  <2> DEFINE named == {s \in DOMAIN Symbols : Symbols[s]}
  <2>3. IsFiniteSet(named)
    <3>1. IsFiniteSet(1 .. Len(Symbols)) /\ named \subseteq 1 .. Len(Symbols)
      BY <2>2, FS_Interval
    <3>2. QED
      BY <3>1, FS_Subset
  <2>4. NamedUpTo(object, sym - 1) \subseteq named
    <3>1. 1 .. (sym - 1) \subseteq DOMAIN Symbols
      BY <1>2, <2>1, <2>2
    <3>2. QED
      BY <3>1 DEF NamedUpTo, Symbols
  <2>5. Cardinality(NamedUpTo(object, sym - 1)) <= Cardinality(named)
    BY <2>3, <2>4, FS_Subset
  <2>6. pshandle # "NULL" /\ ~cut' => NamedUpTo(object, sym - 1) = named
    <3>1. pshandle # "NULL" /\ ~cut' => sym - 1 = Len(Symbols)
      BY <1>2, <2>1, <2>2
    <3>2. QED
      BY <2>2, <3>1 DEF NamedUpTo, Symbols
  <2>7. map[Walked(object - 1)].symbols' = Symbols
    BY <1>1, <2>2 DEF Walked, Symbols
  <2>8. FunctionsCounted'
    <3>1. function_count' = IF pshandle = "NULL" THEN 0
                            ELSE Cardinality(NamedUpTo(object, sym - 1))
      BY <1>2, <2>1
    <3>2. /\ pshandle' = "NULL" => function_count' = 0
          /\ pshandle' # "NULL" => function_count' <= Cardinality(named)
          /\ pshandle' # "NULL" /\ ~cut' => function_count' = Cardinality(named)
      BY <2>1, <2>5, <2>6, <3>1
    <3>3. QED
      BY <2>7, <3>2 DEF FunctionsCounted
  <2>9. QED
    BY <1>1, <2>1, <2>2, <2>8 DEF CountInv
<1>8. CASE \/ IterReturns \/ Pfree \/ Killed
           \/ ExtractFunction /\ tpc' = "exit"
  <2>1. tpc' \in {"result", "exit"} /\ object' = object
    BY <1>8 DEF IterReturns, Pfree, Killed, ExtractFunction, ToolExit, CountFunction, walk
  <2>2. QED
    BY <1>1, <1>2, <2>1 DEF CountInv, FunctionsCounted
<1>9. CASE UNCHANGED toolVars
  BY <1>1, <1>2, <1>9 DEF toolVars, walk, search, CountInv, FunctionsCounted, NamedUpTo,
    Symbols, Walked
<1>10. ASSUME ToolNext
       PROVE  \/ ProctestMain \/ GrabFileMain \/ ExtractMain
              \/ ProctestObject \/ GrabFileObject \/ ExtractObject
              \/ ProctestFunction \/ GrabFileFunction \/ ExtractFunction
              \/ SymbolsDone \/ Killed \/ IterReturns \/ Pfree
  BY <1>1, <1>10 DEF ToolNext, GordonMain, GordonCallback, Object
<1>11. CASE ProctestFunction \/ GrabFileFunction
  BY <1>6, <1>11 DEF ProctestFunction, GrabFileFunction, Symbol
<1>12. CASE ExtractFunction
  BY <1>6, <1>8, <1>12 DEF ExtractFunction, Symbol, ToolExit
<1>13. QED
  BY <1>4, <1>5, <1>7, <1>8, <1>9, <1>10, <1>11, <1>12

\* The invariant holds in every state of every behaviour.
LEMMA ToolInvariance == ToolSpec => []ToolInv
<1>1. ToolInv /\ [ToolNext]_toolVars => (map \in LinkMaps)'
  BY DEF ToolInv, ToolNext, toolVars, GordonMain, ProctestMain, GrabFileMain, ExtractMain, Grab,
         GordonCallback, ProctestObject, GrabFileObject, ExtractObject, SymbolIter,
         ProctestFunction, GrabFileFunction, ExtractFunction, CountFunction, SymbolsDone,
         Killed, IterReturns, Pfree
<1>2. ToolInv /\ [ToolNext]_toolVars => ToolInv'
  BY <1>1, GordonStep, CountStep DEF ToolInv
<1>3. QED
  BY <1>2, ToolStarts, PTL DEF ToolSpec

\* The address gordon prints was recorded exactly if Pobject_iter returned 1;
\* it is then the one of the first object of that name that it had memory to
\* compare, and "not found" means that there is none, whatever the process has
\* mapped.  After an error of Pobject_iter the address was never assigned.
THEOREM AddressIsRecorded == ToolSpec => []FoundMeansRecorded
<1>1. ASSUME ToolInv PROVE FoundMeansRecorded
  <2>1. SUFFICES ASSUME tool = "gordon", tpc \in {"result", "exit"} PROVE FoundMeansRecorded
    BY DEF FoundMeansRecorded
  <2>2. Len(map) \in Nat /\ DOMAIN map = 1 .. Len(map)
    BY <1>1, MapTypes, ToolsAssumption DEF ToolInv
  <2>3. /\ object \in Nat \ {0} /\ result \in {-1, 0, 1}
        /\ \A o \in 1 .. (object - 1) : map[o].name = "match" => o \in nocopy
        /\ result = 1 => search_addr = object /\ map[object].name = "match"
        /\ result # 1 => search_addr = 0
        /\ result = 0 /\ exitCode # 1 => object > Len(map)
    BY <1>1, <2>1 DEF ToolInv, GordonInv
  <2>4. search_addr # 0 <=> result = 1
    BY <2>3
  <2>5. object > Len(map) => DOMAIN map \subseteq 1 .. (object - 1)
    BY <2>2, <2>3
  <2>6. QED
    BY <2>3, <2>4, <2>5 DEF FoundMeansRecorded
<1>2. QED
  BY <1>1, ToolInvariance, PTL

\* The count of an object is the number of named symbols of the object that
\* Psymbol_iter walked, the executable for one without a name; less only if
\* the walk failed on the way, and 0 for a NULL handle.
THEOREM CountIsOfObject == ToolSpec => []FunctionsCounted
<1>1. ToolInv => FunctionsCounted
  BY DEF ToolInv, CountInv, FunctionsCounted
<1>2. QED
  BY <1>1, ToolInvariance, PTL

-----------------------------------------------------------------------------
(* StreamingException, for every size of the message and every text.       *)

Chars == Nat \ {0}

\* m is the beginning of s, as much of it as fits, and zeros behind it.
Holds(m, s) ==
  /\ DOMAIN m = 0 .. (SIZE - 1)
  /\ \A j \in 0 .. (SIZE - 1) : m[j] = IF j < Len(s) /\ j < SIZE - 1 THEN s[j + 1] ELSE 0

Fitting(s) == IF Len(s) < SIZE THEN Len(s) ELSE SIZE - 1

\* strlen is what fits.
LEMMA LengthFits ==
  ASSUME NEW m, NEW s \in Seq(Chars), Holds(m, s)
  PROVE  strlen(m) = Fitting(s) /\ Fitting(s) \in 0 .. (SIZE - 1)
<1> DEFINE n == Fitting(s)
           Ends(x) == m[x] = 0 /\ \A j \in 0 .. (x - 1) : m[j] # 0
<1>1. SIZE \in Nat \ {0} /\ Len(s) \in Nat /\ DOMAIN m = 0 .. (SIZE - 1)
      /\ \A j \in 1 .. Len(s) : s[j] # 0
  BY SupportAssumption DEF Holds, Chars
<1>2. /\ n \in 0 .. (SIZE - 1) /\ ~(n < Len(s) /\ n < SIZE - 1)
      /\ \A j \in 0 .. (n - 1) : j \in 0 .. (SIZE - 1) /\ j < Len(s) /\ j < SIZE - 1
                                 /\ j + 1 \in 1 .. Len(s)
  BY <1>1 DEF Fitting
<1>3. m[n] = 0 /\ \A j \in 0 .. (n - 1) : m[j] # 0
  BY <1>1, <1>2 DEF Holds
<1> HIDE DEF n
<1>4. ASSUME NEW x \in DOMAIN m, Ends(x) PROVE x = n
  <2>1. x \in Int /\ x >= 0 /\ n \in Int /\ n >= 0
    BY <1>1, <1>2
  <2>2. ~(x < n)
    BY <1>3, <1>4, <2>1
  <2>3. ~(n < x)
    BY <1>3, <1>4, <2>1
  <2>4. QED
    BY <2>1, <2>2, <2>3
<1>5. n \in DOMAIN m /\ Ends(n)
  BY <1>1, <1>2, <1>3
<1>6. strlen(m) = CHOOSE x \in DOMAIN m : Ends(x)
  BY DEF strlen
<1> HIDE DEF Ends
<1>7. strlen(m) \in DOMAIN m /\ Ends(strlen(m))
  BY <1>5, <1>6
<1>8. QED
  BY <1>2, <1>4, <1>7 DEF n

\* operator<< appends what still fits, and nothing else.
LEMMA StreamAppends ==
  ASSUME NEW m, NEW s \in Seq(Chars), NEW t \in Seq(Chars), Holds(m, s)
  PROVE  Holds(Stream(m, t), s \o t) /\ s \o t \in Seq(Chars)
<1> DEFINE n == Fitting(s)
           c == s \o t
<1>1. /\ SIZE \in Nat \ {0} /\ Len(s) \in Nat /\ Len(t) \in Nat
      /\ DOMAIN m = 0 .. (SIZE - 1)
  BY SupportAssumption DEF Holds
<1>2. strlen(m) = n /\ n \in 0 .. (SIZE - 1)
  BY LengthFits
<1>3. /\ c \in Seq(Chars) /\ Len(c) = Len(s) + Len(t)
      /\ \A j \in 1 .. Len(s) : c[j] = s[j]
      /\ \A j \in 1 .. Len(t) : c[Len(s) + j] = t[j]
  OBVIOUS
<1>4. /\ DOMAIN Stream(m, t) = 0 .. (SIZE - 1) /\ Stream(m, t)[SIZE - 1] = 0
      /\ \A j \in 0 .. (SIZE - 1) :
           j # SIZE - 1 =>
             Stream(m, t)[j] = IF j < n THEN m[j]
                               ELSE IF j - n < Len(t) THEN t[j - n + 1] ELSE 0
  BY <1>1, <1>2 DEF Stream, strncpy
<1> HIDE DEF c, n
<1>5. ASSUME NEW j \in 0 .. (SIZE - 1)
      PROVE  Stream(m, t)[j] = IF j < Len(c) /\ j < SIZE - 1 THEN c[j + 1] ELSE 0
  <2>1. CASE j = SIZE - 1
    BY <1>1, <1>4, <2>1
  <2>2. CASE j < SIZE - 1 /\ j < Len(s)
    <3>1. j < n /\ j < Len(c) /\ j + 1 \in 1 .. Len(s)
      BY <1>1, <1>3, <2>2 DEF n, Fitting
    <3>2. m[j] = s[j + 1]
      BY <2>2 DEF Holds
    <3>3. QED
      BY <1>3, <1>4, <2>2, <3>1, <3>2
  <2>3. CASE j < SIZE - 1 /\ ~(j < Len(s))
    <3>1. n = Len(s) /\ ~(j < n)
      BY <1>1, <2>3 DEF n, Fitting
    <3>2. Stream(m, t)[j] = IF j - Len(s) < Len(t) THEN t[j - Len(s) + 1] ELSE 0
      BY <1>4, <2>3, <3>1
    <3>3. CASE j - Len(s) < Len(t)
      <4>1. j - Len(s) + 1 \in 1 .. Len(t) /\ Len(s) + (j - Len(s) + 1) = j + 1 /\ j < Len(c)
        BY <1>1, <1>3, <2>3, <3>3
      <4>2. c[j + 1] = t[j - Len(s) + 1]
        BY <1>3, <4>1
      <4>3. QED
        BY <2>3, <3>2, <3>3, <4>1, <4>2
    <3>4. CASE ~(j - Len(s) < Len(t))
      <4>1. ~(j < Len(c))
        BY <1>1, <1>3, <2>3, <3>4
      <4>2. QED
        BY <3>2, <3>4, <4>1
    <3>5. QED
      BY <3>3, <3>4
  <2>4. QED
    BY <1>1, <2>1, <2>2, <2>3
<1>6. QED
  BY <1>3, <1>4, <1>5 DEF Holds, c

MessageInv == said \in Seq(Chars) /\ Holds(message, said)

\* The texts that are appended.
LEMMA TextTypes ==
  /\ strerror \in Seq(Chars) /\ <<>> \in Seq(Chars)
  /\ \A w \in Formatted(when) : w \in Seq(Chars)
  /\ \A text \in Texts : \A v \in Formatted(text) : v \in Seq(Chars)
<1>1. strerror \in Seq(Chars) /\ <<>> \in Seq(Chars) /\ when \in Seq(Chars)
      /\ unexpected \in Seq(Chars)
  BY DEF strerror, when, unexpected, Chars
<1>2. \A text \in Texts : text \in Seq(Chars)
  BY SupportAssumption DEF Chars
<1>3. QED
  BY <1>1, <1>2 DEF Formatted

\* Every call of operator<<.
LEMMA MessageStep ==
  ASSUME MessageInv, [BitNext \/ MessageNext]_supportVars
  PROVE  MessageInv'
<1>1. CASE MessageNext
  <2>1. PICK text \in Texts : Append1(text)
    BY <1>1 DEF MessageNext
  <2>2. PICK w \in (IF has_extra THEN {<<>>} ELSE Formatted(when)), v \in Formatted(text) :
          /\ message' = Stream(Stream(message, w), v)
          /\ said' = said \o w \o v
    BY <2>1 DEF Append1
  <2>3. w \in Seq(Chars) /\ v \in Seq(Chars)
    BY TextTypes
  <2>4. Holds(Stream(message, w), said \o w) /\ said \o w \in Seq(Chars)
    BY <2>3, StreamAppends DEF MessageInv
  <2>5. Holds(Stream(Stream(message, w), v), (said \o w) \o v) /\ (said \o w) \o v \in Seq(Chars)
    BY <2>3, <2>4, StreamAppends
  <2>6. QED
    BY <2>2, <2>5 DEF MessageInv
<1>2. CASE BitNext \/ UNCHANGED supportVars
  <2>1. UNCHANGED <<message, said>>
    BY <1>2 DEF BitNext, set_bit, clr_bit, set_bit_to, supportVars, exception
  <2>2. QED
    BY <2>1 DEF MessageInv, Holds
<1>3. QED
  BY <1>1, <1>2

\* What the invariant says of what().
LEMMA HoldsMeansPrefix == MessageInv => MessageIsPrefix
<1> SUFFICES ASSUME MessageInv PROVE MessageIsPrefix
  OBVIOUS
<1> DEFINE n == Fitting(said)
<1>1. SIZE \in Nat \ {0} /\ said \in Seq(Chars) /\ Len(said) \in Nat
  BY SupportAssumption DEF MessageInv
<1>2. strlen(message) = n /\ n \in 0 .. (SIZE - 1)
  BY LengthFits DEF MessageInv
<1>3. message[SIZE - 1] = 0
  BY <1>1 DEF MessageInv, Holds
<1>4. n <= Len(said) /\ n <= SIZE - 1
  BY <1>1 DEF Fitting
<1> HIDE DEF n
<1>5. \A j \in 1 .. n : message[j - 1] = said[j]
  <2>1. ASSUME NEW j \in 1 .. n PROVE message[j - 1] = said[j]
    <3>1. j - 1 \in 0 .. (SIZE - 1) /\ j - 1 < Len(said) /\ j - 1 < SIZE - 1 /\ (j - 1) + 1 = j
      BY <1>1, <1>2, <1>4
    <3>2. QED
      BY <3>1 DEF MessageInv, Holds
  <2>2. QED
    BY <2>1
<1>6. SubSeq(said, 1, n) = [j \in 1 .. n |-> said[j]]
  BY <1>1, <1>2, <1>4
<1>7. [j \in 1 .. n |-> message[j - 1]] = SubSeq(said, 1, n)
  BY <1>5, <1>6
<1>8. QED
  BY <1>2, <1>3, <1>7 DEF MessageIsPrefix, n, Fitting

\* what() is the beginning of all that was appended and ends with a NUL, for
\* every size of message_ and every sequence of texts.
THEOREM WhatIsPrefix == SupportSpec => []MessageIsPrefix
<1>1. SupportInit => MessageInv
  <2> SUFFICES ASSUME SupportInit PROVE MessageInv
    OBVIOUS
  <2>1. Holds(NoMessage, <<>>)
    BY DEF Holds, NoMessage
  <2>2. Holds(Stream(NoMessage, strerror), <<>> \o strerror) /\ <<>> \o strerror \in Seq(Chars)
    BY <2>1, TextTypes, StreamAppends
  <2>3. <<>> \o strerror = strerror
    BY TextTypes
  <2>4. QED
    BY <2>2, <2>3 DEF SupportInit, MessageInv
<1>2. MessageInv /\ [BitNext \/ MessageNext]_supportVars => MessageInv'
  BY MessageStep
<1>3. QED
  BY <1>1, <1>2, HoldsMeansPrefix, PTL DEF SupportSpec

-----------------------------------------------------------------------------
(* The bit functions, for every number of bytes.                           *)

Masks == {128, 64, 32, 16, 8, 4, 2, 1}
Octets == 0 .. 255

\* The mask of each bit of a byte, from left to right.
LEMMA MaskValues ==
  ASSUME NEW nr \in Nat
  PROVE  /\ Mask(nr) \in Masks
         /\ (nr % 8) \in 0 .. 7
         /\ (nr % 8) = 0 => Mask(nr) = 128
         /\ (nr % 8) = 1 => Mask(nr) = 64
         /\ (nr % 8) = 2 => Mask(nr) = 32
         /\ (nr % 8) = 3 => Mask(nr) = 16
         /\ (nr % 8) = 4 => Mask(nr) = 8
         /\ (nr % 8) = 5 => Mask(nr) = 4
         /\ (nr % 8) = 6 => Mask(nr) = 2
         /\ (nr % 8) = 7 => Mask(nr) = 1
<1>1. 2^0 = 1 /\ 2^1 = 2 /\ 2^2 = 4 /\ 2^3 = 8 /\ 2^4 = 16 /\ 2^5 = 32 /\ 2^6 = 64 /\ 2^7 = 128
  OBVIOUS
<1>2. (nr % 8) \in 0 .. 7
  OBVIOUS
<1> DEFINE r == nr % 8
<1>3. r \in {0, 1, 2, 3, 4, 5, 6, 7}
  BY <1>2
<1> DEFINE power == 2^r
<1>4. Mask(nr) = 128 \div power
  BY DEF Mask
<1> HIDE DEF r
<1>5. /\ r = 0 => power = 1
      /\ r = 1 => power = 2
      /\ r = 2 => power = 4
      /\ r = 3 => power = 8
      /\ r = 4 => power = 16
      /\ r = 5 => power = 32
      /\ r = 6 => power = 64
      /\ r = 7 => power = 128
  BY <1>1
<1> HIDE DEF power
<1>6. /\ r = 0 => Mask(nr) = 128
      /\ r = 1 => Mask(nr) = 64
      /\ r = 2 => Mask(nr) = 32
      /\ r = 3 => Mask(nr) = 16
      /\ r = 4 => Mask(nr) = 8
      /\ r = 5 => Mask(nr) = 4
      /\ r = 6 => Mask(nr) = 2
      /\ r = 7 => Mask(nr) = 1
  BY <1>4, <1>5
<1>7. Mask(nr) \in Masks
  BY <1>3, <1>6 DEF Masks
<1>8. QED
  BY <1>2, <1>6, <1>7 DEF r

\* Two bits of one byte have different masks.
LEMMA MasksDiffer ==
  ASSUME NEW x \in Nat, NEW y \in Nat, x # y, x \div 8 = y \div 8
  PROVE  Mask(x) # Mask(y)
<1>1. (x % 8) # (y % 8)
  OBVIOUS
<1>2. (x % 8) \in 0 .. 7 /\ (y % 8) \in 0 .. 7
  OBVIOUS
<1> DEFINE q == x % 8
           r == y % 8
<1>3. /\ q = 0 => Mask(x) = 128
      /\ q = 1 => Mask(x) = 64
      /\ q = 2 => Mask(x) = 32
      /\ q = 3 => Mask(x) = 16
      /\ q = 4 => Mask(x) = 8
      /\ q = 5 => Mask(x) = 4
      /\ q = 6 => Mask(x) = 2
      /\ q = 7 => Mask(x) = 1
  BY MaskValues
<1>4. /\ r = 0 => Mask(y) = 128
      /\ r = 1 => Mask(y) = 64
      /\ r = 2 => Mask(y) = 32
      /\ r = 3 => Mask(y) = 16
      /\ r = 4 => Mask(y) = 8
      /\ r = 5 => Mask(y) = 4
      /\ r = 6 => Mask(y) = 2
      /\ r = 7 => Mask(y) = 1
  BY MaskValues
<1>5. q \in 0 .. 7 /\ r \in 0 .. 7 /\ q # r
  BY <1>1, <1>2
<1> HIDE DEF q, r
<1>6. QED
  BY <1>3, <1>4, <1>5

\* Setting a bit changes that bit and no other.
LEMMA OrSets ==
  ASSUME NEW b \in Octets, NEW m \in Masks
  PROVE  /\ Or(b, m) \in Octets /\ Has(Or(b, m), m)
         /\ \A x \in Masks : x # m => (Has(Or(b, m), x) <=> Has(b, x))
<1>1. CASE m = 128 BY <1>1 DEF Masks, Octets, Or, Has
<1>2. CASE m = 64 BY <1>2 DEF Masks, Octets, Or, Has
<1>3. CASE m = 32 BY <1>3 DEF Masks, Octets, Or, Has
<1>4. CASE m = 16 BY <1>4 DEF Masks, Octets, Or, Has
<1>5. CASE m = 8 BY <1>5 DEF Masks, Octets, Or, Has
<1>6. CASE m = 4 BY <1>6 DEF Masks, Octets, Or, Has
<1>7. CASE m = 2 BY <1>7 DEF Masks, Octets, Or, Has
<1>8. CASE m = 1 BY <1>8 DEF Masks, Octets, Or, Has
<1>9. QED BY <1>1, <1>2, <1>3, <1>4, <1>5, <1>6, <1>7, <1>8 DEF Masks

\* So does clearing a bit.
LEMMA AndNotClears ==
  ASSUME NEW b \in Octets, NEW m \in Masks
  PROVE  /\ AndNot(b, m) \in Octets /\ ~Has(AndNot(b, m), m)
         /\ \A x \in Masks : x # m => (Has(AndNot(b, m), x) <=> Has(b, x))
<1>1. CASE m = 128 BY <1>1 DEF Masks, Octets, AndNot, Has
<1>2. CASE m = 64 BY <1>2 DEF Masks, Octets, AndNot, Has
<1>3. CASE m = 32 BY <1>3 DEF Masks, Octets, AndNot, Has
<1>4. CASE m = 16 BY <1>4 DEF Masks, Octets, AndNot, Has
<1>5. CASE m = 8 BY <1>5 DEF Masks, Octets, AndNot, Has
<1>6. CASE m = 4 BY <1>6 DEF Masks, Octets, AndNot, Has
<1>7. CASE m = 2 BY <1>7 DEF Masks, Octets, AndNot, Has
<1>8. CASE m = 1
  <2>1. AndNot(b, 1) = (IF (b % 2) = 1 THEN b - 1 ELSE b)
    BY DEF AndNot, Has, Octets
  <2>2. AndNot(b, 1) \in Octets /\ ~Has(AndNot(b, 1), 1)
    BY <2>1 DEF Has, Octets
  <2>3. \A x \in {128, 64, 32, 16, 8, 4, 2} : Has(AndNot(b, 1), x) <=> Has(b, x)
    <3>1. CASE (b % 2) = 1
      <4>1. /\ (b - 1) \div 128 = b \div 128
            /\ (b - 1) \div 64 = b \div 64
            /\ (b - 1) \div 32 = b \div 32
            /\ (b - 1) \div 16 = b \div 16
            /\ (b - 1) \div 8 = b \div 8
            /\ (b - 1) \div 4 = b \div 4
            /\ (b - 1) \div 2 = b \div 2
        BY <3>1 DEF Octets
      <4>2. QED
        BY <2>1, <3>1, <4>1 DEF Has
    <3>2. CASE (b % 2) # 1
      BY <2>1, <3>2
    <3>3. QED
      BY <3>1, <3>2
  <2>4. QED
    BY <1>8, <2>2, <2>3 DEF Masks
<1>9. QED BY <1>1, <1>2, <1>3, <1>4, <1>5, <1>6, <1>7, <1>8 DEF Masks
-----------------------------------------------------------------------------

\* A bit of the memory is set if and only if it is in the set.
BitmapInv ==
  /\ bytes \in [0 .. (Bytes - 1) -> Octets]
  /\ bits \subseteq 0 .. (8 * Bytes - 1)
  /\ \A nr \in 0 .. (8 * Bytes - 1) : test_bit(nr) <=> nr \in bits

\* The byte of a bit.
LEMMA ByteOf ==
  ASSUME NEW nr \in 0 .. (8 * Bytes - 1)
  PROVE  nr \in Nat /\ nr \div 8 \in 0 .. (Bytes - 1)
BY SupportAssumption

\* A step that gives bit nr the value set, and leaves the others.
LEMMA BitAssigned ==
  ASSUME BitmapInv, NEW nr \in 0 .. (8 * Bytes - 1), NEW c \in Octets, NEW set \in BOOLEAN,
         bytes' = [bytes EXCEPT ![nr \div 8] = c],
         bits' = IF set THEN bits \cup {nr} ELSE bits \ {nr},
         Has(c, Mask(nr)) <=> set,
         \A x \in Masks : x # Mask(nr) => (Has(c, x) <=> Has(bytes[nr \div 8], x))
  PROVE  BitmapInv'
<1>1. nr \in Nat /\ nr \div 8 \in 0 .. (Bytes - 1)
  BY ByteOf
<1>2. /\ bytes' \in [0 .. (Bytes - 1) -> Octets] /\ bytes'[nr \div 8] = c
      /\ \A b \in 0 .. (Bytes - 1) : b # nr \div 8 => bytes'[b] = bytes[b]
  BY <1>1 DEF BitmapInv
<1>3. ASSUME NEW x \in 0 .. (8 * Bytes - 1) PROVE test_bit(x)' <=> x \in bits'
  <2>1. x \in Nat /\ x \div 8 \in 0 .. (Bytes - 1)
    BY ByteOf
  <2>2. test_bit(x) <=> x \in bits
    BY DEF BitmapInv
  <2>3. CASE x = nr
    BY <1>2, <2>3 DEF test_bit
  <2>4. CASE x # nr /\ x \div 8 # nr \div 8
    BY <1>2, <2>1, <2>2, <2>4 DEF test_bit
  <2>5. CASE x # nr /\ x \div 8 = nr \div 8
    <3>1. Mask(x) # Mask(nr) /\ Mask(x) \in Masks
      BY <1>1, <2>1, <2>5, MasksDiffer, MaskValues
    <3>2. Has(c, Mask(x)) <=> Has(bytes[nr \div 8], Mask(x))
      BY <3>1
    <3>3. QED
      BY <1>2, <2>2, <2>5, <3>2 DEF test_bit
  <2>6. QED
    BY <2>3, <2>4, <2>5
<1>4. QED
  BY <1>2, <1>3 DEF BitmapInv

\* Every call of a bit function.
LEMMA BitmapStep ==
  ASSUME BitmapInv, [BitNext \/ MessageNext]_supportVars
  PROVE  BitmapInv'
<1>1. CASE BitNext
  <2>1. PICK nr \in BitNumbers :
          set_bit(nr) \/ clr_bit(nr) \/ \E set \in BOOLEAN : set_bit_to(nr, set)
    BY <1>1 DEF BitNext
  <2>2. nr \in 0 .. (8 * Bytes - 1) /\ nr \in Nat /\ nr \div 8 \in 0 .. (Bytes - 1)
    BY SupportAssumption, ByteOf
  <2> DEFINE b == bytes[nr \div 8]
             m == Mask(nr)
  <2>3. b \in Octets /\ m \in Masks
    BY <2>2, MaskValues DEF BitmapInv
  <2> HIDE DEF b, m
  <2>4. /\ Or(b, m) \in Octets /\ Has(Or(b, m), m)
        /\ \A x \in Masks : x # m => (Has(Or(b, m), x) <=> Has(b, x))
    BY <2>3, OrSets
  <2>5. /\ AndNot(b, m) \in Octets /\ ~Has(AndNot(b, m), m)
        /\ \A x \in Masks : x # m => (Has(AndNot(b, m), x) <=> Has(b, x))
    BY <2>3, AndNotClears
  <2>6. /\ Or(AndNot(b, m), m) \in Octets /\ Has(Or(AndNot(b, m), m), m)
        /\ \A x \in Masks : x # m => (Has(Or(AndNot(b, m), m), x) <=> Has(b, x))
    BY <2>3, <2>5, OrSets
  <2>7. CASE set_bit(nr)
    <3>1. /\ bytes' = [bytes EXCEPT ![nr \div 8] = Or(b, m)]
          /\ bits' = IF TRUE THEN bits \cup {nr} ELSE bits \ {nr}
      BY <2>7 DEF set_bit, b, m
    <3>2. QED
      BY <2>2, <2>4, <3>1, BitAssigned DEF b, m
  <2>8. CASE clr_bit(nr)
    <3>1. /\ bytes' = [bytes EXCEPT ![nr \div 8] = AndNot(b, m)]
          /\ bits' = IF FALSE THEN bits \cup {nr} ELSE bits \ {nr}
      BY <2>8 DEF clr_bit, b, m
    <3>2. QED
      BY <2>2, <2>5, <3>1, BitAssigned DEF b, m
  <2>9. ASSUME NEW set \in BOOLEAN, set_bit_to(nr, set) PROVE BitmapInv'
    <3> DEFINE c == IF set THEN Or(AndNot(b, m), m) ELSE AndNot(b, m)
    <3>1. /\ bytes' = [bytes EXCEPT ![nr \div 8] = c]
          /\ bits' = IF set THEN bits \cup {nr} ELSE bits \ {nr}
      BY <2>9 DEF set_bit_to, b, m
    <3>2. /\ c \in Octets /\ (Has(c, m) <=> set)
          /\ \A x \in Masks : x # m => (Has(c, x) <=> Has(b, x))
      BY <2>5, <2>6
    <3> HIDE DEF c
    <3>3. QED
      BY <2>2, <3>1, <3>2, BitAssigned DEF b, m
  <2>10. QED
    BY <2>1, <2>7, <2>8, <2>9
<1>2. CASE MessageNext \/ UNCHANGED supportVars
  <2>1. UNCHANGED <<bytes, bits>>
    BY <1>2 DEF MessageNext, Append1, supportVars, bitmap
  <2>2. QED
    BY <2>1 DEF BitmapInv, test_bit
<1>3. QED
  BY <1>1, <1>2

\* After any calls of the bit functions, on a bitmap of any length, the bits
\* that are set are the ones set last, counted from the left.
THEOREM BitsAreTheSet == SupportSpec => []BitmapIsSet
<1>1. SupportInit => BitmapInv
  <2> SUFFICES ASSUME SupportInit PROVE BitmapInv
    OBVIOUS
  <2>1. bytes = [b \in 0 .. (Bytes - 1) |-> 0] /\ bits = {} /\ 0 \in Octets
    BY DEF SupportInit, Octets
  <2>2. \A m \in Masks : ~Has(0, m)
    BY DEF Masks, Has
  <2>3. \A nr \in 0 .. (8 * Bytes - 1) : ~test_bit(nr)
    BY <2>1, <2>2, ByteOf, MaskValues DEF test_bit
  <2>4. QED
    BY <2>1, <2>3 DEF BitmapInv
<1>2. BitmapInv /\ [BitNext \/ MessageNext]_supportVars => BitmapInv'
  BY BitmapStep
<1>3. BitmapInv => BitmapIsSet
  <2> SUFFICES ASSUME BitmapInv PROVE BitmapIsSet
    OBVIOUS
  <2>1. ASSUME 0 \in bits PROVE bytes[0] >= 128
    <3>1. 0 \in 0 .. (8 * Bytes - 1)
      BY <2>1 DEF BitmapInv
    <3>2. Has(bytes[0 \div 8], Mask(0)) /\ 0 \div 8 = 0 /\ (0 % 8) = 0
      BY <2>1, <3>1 DEF BitmapInv, test_bit
    <3>3. Mask(0) = 128
      BY <3>2, MaskValues
    <3>4. bytes[0] \in Octets
      BY <3>1, <3>2, ByteOf DEF BitmapInv
    <3>5. QED
      BY <3>2, <3>3, <3>4 DEF Has, Octets
  <2>2. QED
    BY <2>1 DEF BitmapIsSet, BitmapInv
<1>4. QED
  BY <1>1, <1>2, <1>3, PTL DEF SupportSpec

-----------------------------------------------------------------------------
(* The shared memory experiments, for every set of processes.              *)

Programs == {"shm_copy", "test1", "test2"}

Segment == [key : Keys, blocks : Nat, valid : BOOLEAN]

ShmTypes ==
  /\ shmProgram \in [Processes -> Programs]
  /\ step \in [Processes -> Nat \ {0}]
  /\ ids \in [Processes -> [Keys -> Nat]]
  /\ DOMAIN code = Processes /\ DOMAIN failedKey = Processes
  /\ segments \in Seq(Segment)

\* Process p is past the call c.
Past(p, c) == \E i \in DOMAIN Script(p) : i < step[p] /\ Script(p)[i] = c

\* An id comes from the process's own shmget, and is that of a segment of the
\* key; when the process is past its IPC_RMID, it is invalid.
IdsOK ==
  \A p \in Processes, k \in Keys :
    ids[p][k] # 0 =>
      /\ ids[p][k] \in DOMAIN segments /\ segments[ids[p][k]].key = k
      /\ Past(p, <<"shmget", k>>)
      /\ Past(p, <<"rmid", k>>) => ~Valid(ids[p][k])

\* A valid segment belongs to a process that runs, or was left by one.
OwnedOK == \A id \in DOMAIN segments : Valid(id) => \E p \in Processes : LeftBy(p, id)

ShmInv == ShmTypes /\ IdsOK /\ OwnedOK

\* A program gets each key once, and removes what it got, later.
Shape(s) ==
  /\ DOMAIN s = 1 .. Len(s) /\ Len(s) \in Nat
  /\ \A k \in Keys : \A i, j \in DOMAIN s :
       /\ s[i] = <<"shmget", k>> /\ s[j] = <<"shmget", k>> => i = j
       /\ s[i] = <<"shmget", k>> /\ s[j] = <<"rmid", k>> => i < j
  /\ \A k \in Keys : \A i \in DOMAIN s :
       s[i] = <<"shmget", k>> => \E j \in DOMAIN s : s[j] = <<"rmid", k>>

\* The three programs do.
LEMMA ScriptShape ==
  ASSUME ShmTypes, NEW p \in Processes
  PROVE  Shape(Script(p))
<1>1. Shape(ShmCopy)
  <2>1. DOMAIN ShmCopy = 1 .. 12 /\ Len(ShmCopy) = 12
    BY DEF ShmCopy
  <2>2. /\ ShmCopy[1] = <<"shmget", "0x6fff">> /\ ShmCopy[2] = <<"shmget", "0x8111">>
        /\ ShmCopy[11] = <<"rmid", "0x6fff">> /\ ShmCopy[12] = <<"rmid", "0x8111">>
    BY DEF ShmCopy
  <2>3. \A i \in 3 .. 10 : ShmCopy[i][1] # "shmget" /\ ShmCopy[i][1] # "rmid"
    BY DEF ShmCopy
  <2>4. \A i \in 1 .. 12 : i \in 3 .. 10 \/ i \in {1, 2, 11, 12}
    OBVIOUS
  <2>5. \A k \in Keys : \A i \in 1 .. 12 :
          /\ ShmCopy[i] = <<"shmget", k>> => (i = 1 /\ k = "0x6fff") \/ (i = 2 /\ k = "0x8111")
          /\ ShmCopy[i] = <<"rmid", k>> => (i = 11 /\ k = "0x6fff") \/ (i = 12 /\ k = "0x8111")
    BY <2>2, <2>3, <2>4
  <2>6. QED
    BY <2>1, <2>2, <2>5 DEF Shape
<1>2. Shape(Test1)
  <2>1. DOMAIN Test1 = 1 .. 5 /\ Len(Test1) = 5
    BY DEF Test1
  <2>2. Test1[1] = <<"shmget", "0x600f">> /\ Test1[5] = <<"rmid", "0x600f">>
    BY DEF Test1
  <2>3. \A i \in 2 .. 4 : Test1[i][1] # "shmget" /\ Test1[i][1] # "rmid"
    BY DEF Test1
  <2>4. \A i \in 1 .. 5 : i \in 2 .. 4 \/ i \in {1, 5}
    OBVIOUS
  <2>5. \A k \in Keys : \A i \in 1 .. 5 :
          /\ Test1[i] = <<"shmget", k>> => i = 1 /\ k = "0x600f"
          /\ Test1[i] = <<"rmid", k>> => i = 5
    BY <2>2, <2>3, <2>4
  <2>6. QED
    BY <2>1, <2>2, <2>5 DEF Shape
<1>3. Shape(Test2)
  <2>1. DOMAIN Test2 = 1 .. 5 /\ Len(Test2) = 5
    BY DEF Test2
  <2>2. Test2[1] = <<"shmget", "0x6fff">> /\ Test2[5] = <<"rmid", "0x6fff">>
    BY DEF Test2
  <2>3. \A i \in 2 .. 4 : Test2[i][1] # "shmget" /\ Test2[i][1] # "rmid"
    BY DEF Test2
  <2>4. \A i \in 1 .. 5 : i \in 2 .. 4 \/ i \in {1, 5}
    OBVIOUS
  <2>5. \A k \in Keys : \A i \in 1 .. 5 :
          /\ Test2[i] = <<"shmget", k>> => i = 1 /\ k = "0x6fff"
          /\ Test2[i] = <<"rmid", k>> => i = 5
    BY <2>2, <2>3, <2>4
  <2>6. QED
    BY <2>1, <2>2, <2>5 DEF Shape
<1>4. Script(p) = ShmCopy \/ Script(p) = Test1 \/ Script(p) = Test2
  BY DEF ShmTypes, Programs, Script
<1>5. QED
  BY <1>1, <1>2, <1>3, <1>4

\* A call that returns.
LEMMA PastGo ==
  ASSUME ShmTypes, NEW p \in Processes, NEW call, NEW k, At(p, call, k), Go(p),
         shmProgram' = shmProgram
  PROVE  /\ step' \in [Processes -> Nat \ {0}]
         /\ \A q \in Processes : \A c :
              Past(q, c)' <=> (Past(q, c) \/ (q = p /\ c = <<call, k>>))
<1>1. step \in [Processes -> Nat \ {0}] /\ step' = [step EXCEPT ![p] = @ + 1]
  BY DEF ShmTypes, Go
<1>2. step' \in [Processes -> Nat \ {0}] /\ step'[p] = step[p] + 1
      /\ \A q \in Processes : q # p => step'[q] = step[q]
  BY <1>1
<1>3. \A q : Script(q)' = Script(q)
  BY DEF Script
<1>4. DOMAIN Script(p) = 1 .. Len(Script(p)) /\ Len(Script(p)) \in Nat
  BY ScriptShape DEF Shape
<1>5. step[p] \in DOMAIN Script(p) /\ Script(p)[step[p]] = <<call, k>>
  BY <1>1, <1>4 DEF At
<1>6. ASSUME NEW q \in Processes, NEW c
      PROVE  Past(q, c)' <=> (Past(q, c) \/ (q = p /\ c = <<call, k>>))
  <2>1. CASE q # p
    BY <1>2, <1>3, <2>1 DEF Past
  <2>2. CASE q = p
    <3>1. \A i \in DOMAIN Script(p) : i < step'[p] <=> i < step[p] \/ i = step[p]
      BY <1>1, <1>2, <1>4
    <3>2. Past(p, c)' <=> \E i \in DOMAIN Script(p) : i < step'[p] /\ Script(p)[i] = c
      BY <1>3 DEF Past
    <3>3. QED
      BY <1>5, <2>2, <3>1, <3>2 DEF Past
  <2>3. QED
    BY <2>1, <2>2
<1>7. QED
  BY <1>2, <1>6

\* A call that does not.
LEMMA PastStays ==
  ASSUME step' = step, shmProgram' = shmProgram
  PROVE  \A q, c : Past(q, c)' <=> Past(q, c)
<1>1. \A q : Script(q)' = Script(q)
  BY DEF Script
<1>2. QED
  BY <1>1 DEF Past

\* IPC_RMID invalidates this id only.
LEMMA DestroyOne ==
  ASSUME ShmTypes, NEW x, Destroy(x)
  PROVE  /\ segments' \in Seq(Segment) /\ DOMAIN segments' = DOMAIN segments
         /\ \A id \in DOMAIN segments : segments'[id].key = segments[id].key
         /\ \A id \in DOMAIN segments : Valid(id)' => Valid(id) /\ id # x
<1>1. /\ segments \in Seq(Segment)
      /\ segments' = [segments EXCEPT ![x] = [segments[x] EXCEPT !.valid = FALSE]]
  BY DEF ShmTypes, Destroy
<1>2. \A s \in Segment : /\ [s EXCEPT !.valid = FALSE] \in Segment
                         /\ [s EXCEPT !.valid = FALSE].key = s.key
                         /\ ~[s EXCEPT !.valid = FALSE].valid
  BY DEF Segment
<1>3. DOMAIN segments = 1 .. Len(segments) /\ Len(segments) \in Nat
      /\ \A id \in DOMAIN segments : segments[id] \in Segment
  BY <1>1
<1>4. DOMAIN segments' = DOMAIN segments
  BY <1>1
<1>5. \A id \in DOMAIN segments :
        segments'[id] = IF id = x THEN [segments[x] EXCEPT !.valid = FALSE] ELSE segments[id]
  BY <1>1
<1>6. \A id \in DOMAIN segments : segments'[id] \in Segment
  BY <1>2, <1>3, <1>5
<1>7. segments' \in Seq(Segment)
  <2>1. segments' = [id \in 1 .. Len(segments) |-> segments'[id]]
    BY <1>1, <1>3, <1>4
  <2>2. QED
    BY <1>3, <1>6, <2>1
<1>8. \A id \in DOMAIN segments : segments'[id].key = segments[id].key
  BY <1>2, <1>3, <1>5
<1>9. ~segments'[x].valid \/ x \notin DOMAIN segments
  BY <1>2, <1>3, <1>5
<1>10. \A id \in DOMAIN segments : Valid(id)' => Valid(id) /\ id # x
  BY <1>4, <1>5, <1>9 DEF Valid
<1>11. QED
  BY <1>4, <1>7, <1>8, <1>10

\* A step that takes no id and creates no segment.
LEMMA NothingTaken ==
  ASSUME ShmInv, ShmTypes', UNCHANGED <<shmProgram, ids>>,
         DOMAIN segments' = DOMAIN segments,
         \A id \in DOMAIN segments : segments'[id].key = segments[id].key,
         \A id \in DOMAIN segments : Valid(id)' => Valid(id),
         \A q \in Processes, k \in Keys : Past(q, <<"shmget", k>>) => Past(q, <<"shmget", k>>)',
         \A q \in Processes, k \in Keys :
           Past(q, <<"rmid", k>>)' => Past(q, <<"rmid", k>>) \/ ~Valid(ids[q][k])',
         \A id \in DOMAIN segments, q \in Processes :
           Valid(id)' /\ LeftBy(q, id) => LeftBy(q, id)'
  PROVE  ShmInv'
<1>1. IdsOK'
  <2>1. SUFFICES ASSUME NEW p \in Processes, NEW k \in Keys, ids[p][k] # 0
                 PROVE  /\ ids[p][k] \in DOMAIN segments' /\ segments'[ids[p][k]].key = k
                        /\ Past(p, <<"shmget", k>>)'
                        /\ Past(p, <<"rmid", k>>)' => ~Valid(ids[p][k])'
    BY DEF IdsOK
  <2>2. /\ ids[p][k] \in DOMAIN segments /\ segments[ids[p][k]].key = k
        /\ Past(p, <<"shmget", k>>)
        /\ Past(p, <<"rmid", k>>) => ~Valid(ids[p][k])
    BY <2>1 DEF ShmInv, IdsOK
  <2>3. ~Valid(ids[p][k]) => ~Valid(ids[p][k])'
    BY <2>2 DEF Valid
  <2>4. QED
    BY <2>2, <2>3
<1>2. OwnedOK'
  <2>1. SUFFICES ASSUME NEW id \in DOMAIN segments, Valid(id)'
                 PROVE  \E p \in Processes : LeftBy(p, id)'
    BY DEF OwnedOK
  <2>2. PICK p \in Processes : LeftBy(p, id)
    BY <2>1 DEF ShmInv, OwnedOK
  <2>3. QED
    BY <2>1, <2>2
<1>3. QED
  BY <1>1, <1>2 DEF ShmInv

\* A call that returns and takes or removes nothing.
LEMMA QuietInv ==
  ASSUME ShmInv, NEW p \in Processes, NEW call, NEW k, At(p, call, k), call # "rmid",
         UNCHANGED <<shmProgram, ids, code, failedKey, segments>>, UNCHANGED step \/ Go(p)
  PROVE  ShmInv'
<1>1. ShmTypes
  BY DEF ShmInv
<1>2. /\ step' \in [Processes -> Nat \ {0}]
      /\ \A q \in Processes : \A c : Past(q, c) => Past(q, c)'
      /\ \A q \in Processes, l \in Keys : Past(q, <<"rmid", l>>)' => Past(q, <<"rmid", l>>)
  <2>1. CASE UNCHANGED step
    BY <1>1, <2>1, PastStays DEF ShmTypes
  <2>2. CASE Go(p)
    BY <1>1, <2>2, PastGo
  <2>3. QED
    BY <2>1, <2>2
<1>3. ShmTypes'
  BY <1>1, <1>2 DEF ShmTypes
<1>4. \A id : Valid(id)' <=> Valid(id)
  BY DEF Valid
<1>5. \A q, id : LeftBy(q, id)' <=> LeftBy(q, id)
  BY DEF LeftBy
<1>6. QED
  BY <1>2, <1>3, <1>4, <1>5, NothingTaken

\* A call that fails and ends the process: what it had stays, but for the
\* segment that the call destroys.
LEMMA FailInv ==
  ASSUME ShmInv, NEW p \in Processes, NEW c, NEW k \in Keys, Exit(p, c, k), c # 0,
         UNCHANGED <<shmProgram, step, ids>>,
         \/ UNCHANGED segments /\ (c \notin {2, 3} \/ shmProgram[p] = "test1")
         \/ Destroy(ids[p][k])
  PROVE  ShmInv'
<1>1. ShmTypes /\ IdsOK
  BY DEF ShmInv
<1>2. /\ segments' \in Seq(Segment) /\ DOMAIN segments' = DOMAIN segments
      /\ \A id \in DOMAIN segments : segments'[id].key = segments[id].key
      /\ \A id \in DOMAIN segments : Valid(id)' => Valid(id)
  <2>1. CASE UNCHANGED segments
    BY <1>1, <2>1 DEF ShmTypes, Valid
  <2>2. CASE Destroy(ids[p][k])
    BY <1>1, <2>2, DestroyOne
  <2>3. QED
    BY <2>1, <2>2
<1>3. /\ code' = [code EXCEPT ![p] = c] /\ failedKey' = [failedKey EXCEPT ![p] = k]
      /\ DOMAIN code = Processes /\ DOMAIN failedKey = Processes
  BY <1>1 DEF Exit, ShmTypes
<1>4. /\ code'[p] = c /\ failedKey'[p] = k /\ DOMAIN code' = Processes
      /\ DOMAIN failedKey' = Processes
      /\ \A q \in Processes : q # p => code'[q] = code[q] /\ failedKey'[q] = failedKey[q]
  BY <1>3
<1>5. ShmTypes'
  BY <1>1, <1>2, <1>4 DEF ShmTypes
<1>6. ASSUME NEW id \in DOMAIN segments, NEW q \in Processes, Valid(id)', LeftBy(q, id)
      PROVE  LeftBy(q, id)'
  <2>1. segments'[id].key = segments[id].key
    BY <1>2
  <2>2. CASE q # p
    BY <1>4, <1>6, <2>1, <2>2 DEF LeftBy
  <2>3. CASE q = p
    <3>1. ids[p][segments[id].key] = id
      BY <1>6, <2>3 DEF LeftBy
    <3>2. ~(c \in {2, 3} /\ segments[id].key = k /\ shmProgram[p] # "test1")
      <4>1. CASE c \notin {2, 3} \/ shmProgram[p] = "test1"
        BY <4>1
      <4>2. CASE Destroy(ids[p][k])
        <5>1. id # ids[p][k]
          BY <1>1, <1>6, <4>2, DestroyOne
        <5>2. QED
          BY <3>1, <5>1
      <4>3. QED
        BY <4>1, <4>2
    <3>3. QED
      BY <1>4, <2>1, <2>3, <3>1, <3>2 DEF LeftBy
  <2>4. QED
    BY <2>2, <2>3
<1>7. \A q, d : Past(q, d)' <=> Past(q, d)
  BY PastStays
<1>8. QED
  BY <1>2, <1>5, <1>6, <1>7, NothingTaken

\* shmctl(IPC_RMID) of a process that goes on.
LEMMA RmidInv ==
  ASSUME ShmInv, NEW p \in Processes, NEW k \in Keys, Rmid(p, k)
  PROVE  ShmInv'
<1>1. ShmTypes
  BY DEF ShmInv
<1>2. /\ At(p, "rmid", k) /\ Destroy(ids[p][k]) /\ Go(p)
      /\ UNCHANGED <<shmProgram, ids, code, failedKey>>
  BY DEF Rmid
<1>3. /\ segments' \in Seq(Segment) /\ DOMAIN segments' = DOMAIN segments
      /\ \A id \in DOMAIN segments : segments'[id].key = segments[id].key
      /\ \A id \in DOMAIN segments : Valid(id)' => Valid(id) /\ id # ids[p][k]
  BY <1>1, <1>2, DestroyOne
<1>4. /\ step' \in [Processes -> Nat \ {0}]
      /\ \A q \in Processes : \A c :
           Past(q, c)' <=> (Past(q, c) \/ (q = p /\ c = <<"rmid", k>>))
  BY <1>1, <1>2, PastGo
<1>5. ShmTypes'
  BY <1>1, <1>2, <1>3, <1>4 DEF ShmTypes
<1>6. ~Valid(ids[p][k])'
  BY <1>2, <1>3 DEF Valid
<1>7. \A q \in Processes, l \in Keys :
        Past(q, <<"rmid", l>>)' => Past(q, <<"rmid", l>>) \/ ~Valid(ids[q][l])'
  BY <1>4, <1>6
<1>8. \A id \in DOMAIN segments, q \in Processes : LeftBy(q, id) => LeftBy(q, id)'
  BY <1>2, <1>3 DEF LeftBy
<1>9. QED
  BY <1>2, <1>3, <1>4, <1>5, <1>7, <1>8, NothingTaken

\* exit(0), past every IPC_RMID.
LEMMA Exit0Inv ==
  ASSUME ShmInv, NEW p \in Processes, Exit0(p)
  PROVE  ShmInv'
<1>1. ShmTypes /\ IdsOK
  BY DEF ShmInv
<1>2. /\ step[p] > Len(Script(p)) /\ Exit(p, 0, "none")
      /\ UNCHANGED <<shmProgram, step, ids, segments>>
  BY DEF Exit0
<1>3. /\ code' = [code EXCEPT ![p] = 0] /\ failedKey' = [failedKey EXCEPT ![p] = "none"]
      /\ DOMAIN code = Processes /\ DOMAIN failedKey = Processes
  BY <1>1, <1>2 DEF Exit, ShmTypes
<1>4. /\ DOMAIN code' = Processes /\ DOMAIN failedKey' = Processes
      /\ \A q \in Processes : q # p => code'[q] = code[q] /\ failedKey'[q] = failedKey[q]
  BY <1>3
<1>5. ShmTypes'
  BY <1>1, <1>2, <1>4 DEF ShmTypes
<1>6. ASSUME NEW k \in Keys, ids[p][k] # 0 PROVE ~Valid(ids[p][k])
  <2>1. Past(p, <<"shmget", k>>) /\ (Past(p, <<"rmid", k>>) => ~Valid(ids[p][k]))
    BY <1>1, <1>6 DEF IdsOK
  <2>2. Shape(Script(p))
    BY <1>1, ScriptShape
  <2>3. PICK j \in DOMAIN Script(p) : Script(p)[j] = <<"rmid", k>>
    BY <2>1, <2>2 DEF Past, Shape
  <2>4. j < step[p]
    BY <1>1, <1>2, <2>2, <2>3 DEF Shape, ShmTypes
  <2>5. QED
    BY <2>1, <2>3, <2>4 DEF Past
<1>7. \A id : Valid(id)' <=> Valid(id)
  BY <1>2 DEF Valid
<1>8. ASSUME NEW id \in DOMAIN segments, NEW q \in Processes, Valid(id)', LeftBy(q, id)
      PROVE  LeftBy(q, id)'
  <2>1. segments[id].key \in Keys /\ id # 0
    <3>1. segments \in Seq(Segment)
      BY <1>1 DEF ShmTypes
    <3>2. segments[id] \in Segment /\ id \in 1 .. Len(segments) /\ Len(segments) \in Nat
      BY <3>1
    <3>3. QED
      BY <3>2 DEF Segment
  <2>2. q # p
    BY <1>6, <1>7, <1>8, <2>1 DEF LeftBy
  <2>3. QED
    BY <1>2, <1>4, <1>8, <2>2 DEF LeftBy
<1>9. \A q, d : Past(q, d)' <=> Past(q, d)
  BY <1>2, PastStays
<1>10. QED
  BY <1>2, <1>5, <1>7, <1>8, <1>9, NothingTaken
\* shmget: the id is the first one of its key, and a new segment has an owner.
LEMMA ShmgetInv ==
  ASSUME ShmInv, NEW p \in Processes, NEW k \in Keys, Shmget(p, k)
  PROVE  ShmInv'
<1>1. ShmTypes /\ IdsOK /\ OwnedOK
  BY DEF ShmInv
<1>2. /\ At(p, "shmget", k) /\ Go(p) /\ UNCHANGED <<shmProgram, code, failedKey>>
      /\ code[p] = -1
  BY DEF Shmget, At
<1>3. /\ step' \in [Processes -> Nat \ {0}]
      /\ \A q \in Processes : \A c :
           Past(q, c)' <=> (Past(q, c) \/ (q = p /\ c = <<"shmget", k>>))
  BY <1>1, <1>2, PastGo
<1>4. Shape(Script(p)) /\ step[p] \in DOMAIN Script(p) /\ Script(p)[step[p]] = <<"shmget", k>>
  BY <1>1, <1>2, ScriptShape DEF ShmTypes, Shape, At
<1>5. ~Past(p, <<"shmget", k>>) /\ ~Past(p, <<"rmid", k>>)
  <2>1. \A i \in DOMAIN Script(p) :
          /\ Script(p)[i] = <<"shmget", k>> => i = step[p]
          /\ Script(p)[i] = <<"rmid", k>> => step[p] < i
    BY <1>4 DEF Shape
  <2>2. step[p] \in Int /\ \A i \in DOMAIN Script(p) : i \in Int
    BY <1>4 DEF Shape
  <2>3. QED
    BY <2>1, <2>2 DEF Past
<1>6. ids[p][k] = 0
  BY <1>1, <1>5 DEF IdsOK
<1>7. ~Past(p, <<"rmid", k>>)'
  BY <1>3, <1>5
<1>8. segments \in Seq(Segment) /\ DOMAIN segments = 1 .. Len(segments) /\ Len(segments) \in Nat
  BY <1>1 DEF ShmTypes
<1>9. PICK n \in Nat \ {0} :
        /\ ids' = [ids EXCEPT ![p] = [ids[p] EXCEPT ![k] = n]]
        /\ segments' \in Seq(Segment) /\ DOMAIN segments \subseteq DOMAIN segments'
        /\ \A id \in DOMAIN segments : segments'[id] = segments[id]
        /\ \A id \in DOMAIN segments' : id \in DOMAIN segments \/ id = n
        /\ n \in DOMAIN segments' /\ segments'[n].key = k
  <2>1. CASE \E id \in Current(k) : ids' = [ids EXCEPT ![p][k] = id] /\ UNCHANGED segments
    <3>1. PICK id \in Current(k) : ids' = [ids EXCEPT ![p][k] = id] /\ UNCHANGED segments
      BY <2>1
    <3>2. id \in DOMAIN segments /\ segments[id].key = k
      BY <3>1 DEF Current
    <3>3. id \in Nat \ {0}
      BY <1>8, <3>2
    <3>4. QED
      BY <1>8, <3>1, <3>2, <3>3
  <2>2. CASE /\ segments' = Append(segments, [key |-> k, blocks |-> SHM_SIZE(p), valid |-> TRUE])
             /\ ids' = [ids EXCEPT ![p][k] = Len(segments')]
    <3> DEFINE new == [key |-> k, blocks |-> SHM_SIZE(p), valid |-> TRUE]
               n == Len(segments) + 1
    <3>1. new \in Segment /\ new.key = k
      BY ShmAssumption DEF Segment, SHM_SIZE
    <3>2. segments' = Append(segments, new) /\ n \in Nat \ {0}
      BY <1>8, <2>2
    <3> HIDE DEF new
    <3>3. /\ segments' \in Seq(Segment) /\ Len(segments') = n
          /\ segments'[n] = new /\ \A id \in 1 .. Len(segments) : segments'[id] = segments[id]
      BY <1>8, <3>1, <3>2
    <3>4. DOMAIN segments' = 1 .. n
      BY <3>3
    <3>5. /\ \A id \in DOMAIN segments' : id \in DOMAIN segments \/ id = n
          /\ n \in DOMAIN segments' /\ DOMAIN segments \subseteq DOMAIN segments'
      BY <1>8, <3>4
    <3>6. ids' = [ids EXCEPT ![p] = [ids[p] EXCEPT ![k] = n]]
      BY <2>2, <3>3
    <3> HIDE DEF n
    <3>7. QED
      BY <1>8, <3>1, <3>2, <3>3, <3>5, <3>6
  <2>3. QED
    BY <2>1, <2>2 DEF Shmget
<1>10. /\ ids' \in [Processes -> [Keys -> Nat]] /\ ids'[p][k] = n
       /\ \A q \in Processes, l \in Keys : ~(q = p /\ l = k) => ids'[q][l] = ids[q][l]
  <2>1. ids \in [Processes -> [Keys -> Nat]]
    BY <1>1 DEF ShmTypes
  <2>2. [ids[p] EXCEPT ![k] = n] \in [Keys -> Nat]
    BY <2>1
  <2>3. QED
    BY <1>9, <2>1, <2>2
<1>11. ShmTypes'
  BY <1>1, <1>2, <1>3, <1>9, <1>10 DEF ShmTypes
<1>12. \A id \in DOMAIN segments : Valid(id)' <=> Valid(id)
  BY <1>9 DEF Valid
<1>13. IdsOK'
  <2>1. SUFFICES ASSUME NEW q \in Processes, NEW l \in Keys, ids'[q][l] # 0
                 PROVE  /\ ids'[q][l] \in DOMAIN segments' /\ segments'[ids'[q][l]].key = l
                        /\ Past(q, <<"shmget", l>>)'
                        /\ Past(q, <<"rmid", l>>)' => ~Valid(ids[q][l])'
    BY DEF IdsOK
  <2>2. CASE q = p /\ l = k
    BY <1>3, <1>7, <1>9, <1>10, <2>2
  <2>3. CASE ~(q = p /\ l = k)
    <3>1. ids'[q][l] = ids[q][l] /\ ids[q][l] # 0
      BY <1>10, <2>1, <2>3
    <3>2. /\ ids[q][l] \in DOMAIN segments /\ segments[ids[q][l]].key = l
          /\ Past(q, <<"shmget", l>>)
          /\ Past(q, <<"rmid", l>>) => ~Valid(ids[q][l])
      BY <1>1, <3>1 DEF IdsOK
    <3>3. Valid(ids[q][l])' => Valid(ids[q][l])
      BY <1>9, <3>1, <3>2 DEF Valid
    <3>4. Past(q, <<"rmid", l>>)' => Past(q, <<"rmid", l>>)
      BY <1>3
    <3>5. QED
      BY <1>3, <1>9, <3>1, <3>2, <3>3, <3>4
  <2>4. QED
    BY <2>2, <2>3
<1>14. OwnedOK'
  <2>1. SUFFICES ASSUME NEW id \in DOMAIN segments', Valid(id)'
                 PROVE  \E q \in Processes : LeftBy(q, id)'
    BY DEF OwnedOK
  <2>2. CASE id = n
    <3>1. LeftBy(p, id)'
      BY <1>2, <1>9, <1>10, <2>2 DEF LeftBy
    <3>2. QED
      BY <3>1
  <2>3. CASE id # n
    <3>1. id \in DOMAIN segments /\ segments'[id] = segments[id] /\ Valid(id)
      BY <1>9, <1>12, <2>1, <2>3
    <3>2. PICK q \in Processes : LeftBy(q, id)
      BY <1>1, <3>1 DEF OwnedOK
    <3>3. segments[id].key \in Keys /\ id # 0
      <4>1. segments[id] \in Segment
        BY <1>8, <3>1
      <4>2. QED
        BY <1>8, <3>1, <4>1 DEF Segment
    <3>4. ids'[q][segments[id].key] = ids[q][segments[id].key]
      BY <1>6, <1>10, <3>2, <3>3 DEF LeftBy
    <3>5. LeftBy(q, id)'
      BY <1>2, <3>1, <3>2, <3>4 DEF LeftBy
    <3>6. QED
      BY <3>5
  <2>4. QED
    BY <2>2, <2>3
<1>15. QED
  BY <1>11, <1>13, <1>14 DEF ShmInv

\* Every step of every process.
LEMMA ShmStep == ShmInv /\ [ShmNext]_shmVars => ShmInv'
<1> SUFFICES ASSUME ShmInv, [ShmNext]_shmVars PROVE ShmInv'
  OBVIOUS
<1>1. CASE UNCHANGED shmVars
  <2>1. UNCHANGED <<shmProgram, step, ids, code, failedKey, segments>>
    BY <1>1 DEF shmVars, procs
  <2>2. \A q, c : Past(q, c)' <=> Past(q, c)
    BY <2>1, PastStays
  <2>3. ShmTypes'
    BY <2>1 DEF ShmInv, ShmTypes
  <2>4. /\ \A id : Valid(id)' <=> Valid(id)
        /\ \A q, id : LeftBy(q, id)' <=> LeftBy(q, id)
    BY <2>1 DEF Valid, LeftBy
  <2>5. QED
    BY <2>1, <2>2, <2>3, <2>4, NothingTaken
<1>2. ASSUME NEW p \in Processes, Exit0(p) PROVE ShmInv'
  BY <1>2, Exit0Inv
<1>3. ASSUME NEW p \in Processes, NEW k \in Keys, Shmget(p, k) PROVE ShmInv'
  BY <1>3, ShmgetInv
<1>4. ASSUME NEW p \in Processes, NEW k \in Keys, Rmid(p, k) PROVE ShmInv'
  BY <1>4, RmidInv
<1>5. ASSUME NEW p \in Processes, NEW k \in Keys, ShmgetFails(p, k) PROVE ShmInv'
  BY <1>5, FailInv DEF ShmgetFails
<1>6. ASSUME NEW p \in Processes, NEW k \in Keys, ShmadvFails(p, k) PROVE ShmInv'
  BY <1>6, FailInv DEF ShmadvFails
<1>7. ASSUME NEW p \in Processes, NEW k \in Keys, ShmatFails(p, k) PROVE ShmInv'
  BY <1>7, FailInv DEF ShmatFails
<1>8. ASSUME NEW p \in Processes, NEW k \in Keys, NEW call, AccessKilled(p, call, k)
      PROVE  ShmInv'
  BY <1>8, FailInv DEF AccessKilled
<1>9. ASSUME NEW p \in Processes, NEW k \in Keys, Shmadv(p, k) PROVE ShmInv'
  BY <1>9, QuietInv DEF Shmadv
<1>10. ASSUME NEW p \in Processes, NEW k \in Keys, Shmat(p, k) PROVE ShmInv'
  BY <1>10, QuietInv DEF Shmat
<1>11. ASSUME NEW p \in Processes, NEW k \in Keys, Touch(p, k) PROVE ShmInv'
  BY <1>11, QuietInv DEF Touch
<1>12. ASSUME NEW p \in Processes, NEW k \in Keys, Shmdt(p, k) PROVE ShmInv'
  BY <1>12, QuietInv DEF Shmdt
<1>13. ASSUME NEW p \in Processes, NEW k \in Keys, NEW call \in {"memset", "memcpy"},
              AccessRow(p, call, k)
       PROVE  ShmInv'
  BY <1>13, QuietInv DEF AccessRow
<1>14. QED
  BY <1>1, <1>2, <1>3, <1>4, <1>5, <1>6, <1>7, <1>8, <1>9, <1>10, <1>11, <1>12, <1>13
     DEF ShmNext

\* A segment that is there when all processes have ended was left by one that
\* failed, for every number of processes and every interleaving of them.
THEOREM LeftoversExplained == ShmSpec => []LeftoverExplained
<1>1. ShmInit => ShmInv
  <2> SUFFICES ASSUME ShmInit PROVE ShmInv
    OBVIOUS
  <2>1. ShmTypes
    <3>1. shmProgram \in [Processes -> Programs] /\ segments \in Seq(Segment)
      <4>1. ShmSet \subseteq Programs /\ shmProgram \in [Processes -> ShmSet] /\ segments = <<>>
        BY ShmAssumption DEF ShmInit, Programs
      <4>2. shmProgram \in [Processes -> Programs]
        BY <4>1
      <4>3. segments \in Seq(Segment)
        BY <4>1
      <4>4. QED
        BY <4>2, <4>3
    <3>2. ids \in [Processes -> [Keys -> Nat]] /\ step \in [Processes -> Nat \ {0}]
      BY DEF ShmInit
    <3>3. DOMAIN code = Processes /\ DOMAIN failedKey = Processes
      BY DEF ShmInit
    <3>4. QED
      BY <3>1, <3>2, <3>3 DEF ShmTypes
  <2>2. IdsOK
    BY DEF ShmInit, IdsOK
  <2>3. OwnedOK
    BY DEF ShmInit, OwnedOK
  <2>4. QED
    BY <2>1, <2>2, <2>3 DEF ShmInv
<1>2. ShmInv => LeftoverExplained
  BY DEF ShmInv, OwnedOK, LeftoverExplained
<1>3. QED
  BY <1>1, <1>2, ShmStep, PTL DEF ShmSpec
=============================================================================
