---------------------------- MODULE QueueProofs ----------------------------
(***************************************************************************)
(* LocklessPipe implements PipeQueue, for every pipe: under the refinement *)
(* mapping of MCLocklessPipe, finishWrite's store of writeVPtr_ is Push,   *)
(* read's store of readVPtr_ is Pop, and every other step is a stutter.    *)
(***************************************************************************)
EXTENDS MCLocklessPipe, PipeProofs, SequenceTheorems

-----------------------------------------------------------------------------
(* Functions on 1 .. n as sequences.                                       *)

\* A function on 1 .. n is a sequence of length n.
LEMMA FunctionIsSeq ==
  ASSUME NEW S, NEW n \in Nat, NEW f \in [1 .. n -> S]
  PROVE  f \in Seq(S) /\ Len(f) = n
<1>1. f \in Seq(S)
  BY SeqDef
<1>2. DOMAIN f = 1 .. n /\ DOMAIN f = 1 .. Len(f) /\ Len(f) \in Nat
  BY <1>1, LenProperties
<1>3. QED
  BY <1>1, <1>2

\* One element more at the end is Append.
LEMMA AppendOfFunction ==
  ASSUME NEW S, NEW n \in Nat, NEW f \in [1 .. n -> S],
         NEW g \in [1 .. (n + 1) -> S], \A i \in 1 .. n : g[i] = f[i]
  PROVE  g = Append(f, g[n + 1])
<1>1. f \in Seq(S) /\ Len(f) = n
  BY FunctionIsSeq
<1>2. n + 1 \in Nat /\ n + 1 \in 1 .. (n + 1)
  OBVIOUS
<1>3. g \in Seq(S) /\ Len(g) = n + 1 /\ g[n + 1] \in S
  BY <1>2, FunctionIsSeq
<1>4. /\ Append(f, g[n + 1]) \in Seq(S)
      /\ Len(Append(f, g[n + 1])) = n + 1
      /\ \A i \in 1 .. n : Append(f, g[n + 1])[i] = f[i]
      /\ Append(f, g[n + 1])[n + 1] = g[n + 1]
  BY <1>1, <1>3, AppendProperties
<1>5. \A i \in 1 .. Len(g) : g[i] = Append(f, g[n + 1])[i]
  BY <1>3, <1>4
<1>6. QED
  BY <1>3, <1>4, <1>5, SeqEqual

\* One element less at the front is Tail.
LEMMA TailOfFunction ==
  ASSUME NEW S, NEW n \in Nat, NEW f \in [1 .. (n + 1) -> S],
         NEW g \in [1 .. n -> S], \A i \in 1 .. n : g[i] = f[i + 1]
  PROVE  f # <<>> /\ g = Tail(f) /\ Head(f) = f[1]
<1>1. n + 1 \in Nat
  OBVIOUS
<1>2. f \in Seq(S) /\ Len(f) = n + 1 /\ g \in Seq(S) /\ Len(g) = n
  BY <1>1, FunctionIsSeq
<1>3. f # <<>>
  BY <1>2, EmptySeq
<1>4. /\ Tail(f) \in Seq(S) /\ Len(Tail(f)) = n
      /\ \A i \in 1 .. n : Tail(f)[i] = f[i + 1]
  BY <1>2, <1>3, HeadTailProperties
<1>5. g = Tail(f)
  BY <1>2, <1>4, SeqEqual
<1>6. QED
  BY <1>3, <1>5

-----------------------------------------------------------------------------
(* Bytes.                                                                  *)

\* From the start of an element to its end: header, data, and what is
\* skipped at the end of buf_, which is nothing without a wrap.
LEMMA ElementDistance ==
  ASSUME NEW v \in Position, NEW length \in 0 .. MAX_PIPE_ELEMENT_SIZE
  PROVE  LET e == EndAt(v, length)
         IN  /\ e.lap = v.lap \/ e.lap = v.lap + 1
             /\ Distance(v, e) \in Int
             /\ Distance(v, e) >= SIZEOF_LENGTH + length
             /\ e.lap = v.lap => Distance(v, e) = SIZEOF_LENGTH + length
<1> DEFINE h == HeaderAt(v)
           d == DataAt(v, length)
           e == EndAt(v, length)
<1>1. /\ h = IF v.ptr + SIZEOF_LENGTH > PIPE_SIZE
             THEN [lap |-> v.lap + 1, ptr |-> 0] ELSE v
      /\ d = IF h.ptr + SIZEOF_LENGTH + length > PIPE_SIZE
             THEN [lap |-> h.lap + 1, ptr |-> 0]
             ELSE [lap |-> h.lap, ptr |-> h.ptr + SIZEOF_LENGTH]
      /\ e = [lap |-> d.lap, ptr |-> d.ptr + length]
      /\ h \in Position /\ d \in Position /\ e \in Position
  BY LayoutAt
<1>2. /\ length \in Nat /\ SIZEOF_LENGTH \in Nat /\ PIPE_SIZE \in Nat
      /\ 2 * (length + SIZEOF_LENGTH + 1) <= PIPE_SIZE
  BY MaxElement, GeometryAssumption
<1> HIDE DEF h, d, e
<1>3. CASE v.ptr + SIZEOF_LENGTH > PIPE_SIZE
  BY <1>1, <1>2, <1>3 DEF Distance, Position, e
<1>4. CASE ~(v.ptr + SIZEOF_LENGTH > PIPE_SIZE)
  BY <1>1, <1>2, <1>4 DEF Distance, Position, e
<1>5. QED
  BY <1>3, <1>4

\* Distances inside a window add up, and are at most PIPE_SIZE.
LEMMA DistanceAdds ==
  ASSUME NEW r \in Position, NEW v \in Position, NEW w \in Position,
         InWindow(r, w), Before(r, v), Before(v, w)
  PROVE  /\ Distance(r, w) = Distance(r, v) + Distance(v, w)
         /\ Distance(r, v) \in Int /\ Distance(v, w) \in Int
         /\ Distance(r, w) <= PIPE_SIZE
  BY GeometryAssumption DEF Distance, InWindow, Before, Position

\* At most one unread element goes around the end of buf_.
LEMMA OneWraps ==
  ASSUME ContentsOK, readVPtr \in Position, writeVPtr \in Position,
         NEW j \in Wrapping, NEW k \in Wrapping
  PROVE  j = k
<1>1. j \in Pending /\ k \in Pending /\ j \in Int /\ k \in Int
  BY DEF Wrapping, Pending, ContentsOK, LogShape
<1>2. \A i \in Wrapping :
        /\ log[i].start.lap \in Nat /\ log[i].end.lap \in Nat
        /\ log[i].start.lap < log[i].end.lap
        /\ readVPtr.lap <= log[i].start.lap /\ log[i].end.lap <= writeVPtr.lap
  <2>1. TAKE i \in Wrapping
  <2>2. i \in Pending /\ log[i].start.lap # log[i].end.lap
    BY DEF Wrapping
  <2>3. /\ log[i].start \in Position /\ log[i].end \in Position
        /\ Before(log[i].start, log[i].end)
    BY <2>2, LogEntry
  <2>4. Before(readVPtr, log[i].start) /\ Before(log[i].end, writeVPtr)
    BY <2>2 DEF ContentsOK, Order
  <2>5. QED
    BY <2>2, <2>3, <2>4 DEF Before, Position
<1>3. writeVPtr.lap <= readVPtr.lap + 1 /\ writeVPtr.lap \in Nat /\ readVPtr.lap \in Nat
  BY DEF ContentsOK, InWindow, Position
<1>4. ASSUME NEW a \in Wrapping, NEW b \in Wrapping, a < b
      PROVE  FALSE
  <2>1. Before(log[a].end, log[b].start)
    BY <1>4 DEF ContentsOK, Order, Wrapping
  <2>2. log[a].end.lap <= log[b].start.lap
    BY <1>2, <2>1 DEF Before
  <2>3. QED
    BY <1>2, <1>3, <2>2
<1>5. QED
  BY <1>1, <1>4

\* What the elements in the pipe skip at the end of buf_.
Skipped == IF Wrapping = {} THEN 0 ELSE Waste(log[CHOOSE k \in Wrapping : TRUE])

\* It is the waste of the one that goes around.
SkippedOK ==
  /\ Skipped \in Int /\ Skipped >= 0
  /\ \A k \in Wrapping : Skipped = Waste(log[k])
  /\ Wrapping = {} => Skipped = 0

\* There is at most one such element, so the choice does not matter.
LEMMA SkippedIs == PipeInv => SkippedOK
<1> SUFFICES ASSUME ContentsOK, readVPtr \in Position, writeVPtr \in Position
             PROVE  SkippedOK
  BY DEF PipeInv, TypeOK
<1>1. ASSUME NEW k \in Wrapping
      PROVE  Skipped = Waste(log[k])
  <2>1. (CHOOSE j \in Wrapping : TRUE) \in Wrapping
    BY <1>1
  <2>2. (CHOOSE j \in Wrapping : TRUE) = k
    BY <2>1, OneWraps
  <2>3. QED
    BY <2>2 DEF Skipped
<1>2. ASSUME NEW k \in Wrapping
      PROVE  Waste(log[k]) \in Int /\ Waste(log[k]) >= 0
  <2>1. /\ log[k].start \in Position /\ log[k].len \in 0 .. MAX_PIPE_ELEMENT_SIZE
        /\ log[k].end = EndAt(log[k].start, log[k].len)
    BY LogEntry DEF Wrapping
  <2>2. /\ Distance(log[k].start, log[k].end) \in Int
        /\ Distance(log[k].start, log[k].end) >= SIZEOF_LENGTH + log[k].len
        /\ log[k].len \in Nat /\ SIZEOF_LENGTH \in Nat
    BY <2>1, ElementDistance, MaxElement, GeometryAssumption
  <2>3. QED
    BY <2>2 DEF Waste
<1>3. Wrapping = {} => Skipped = 0
  BY DEF Skipped
<1>4. QED
  BY <1>1, <1>2, <1>3 DEF SkippedOK

\* Both pointers on one lap: no element goes around.
LEMMA NoneWraps ==
  ASSUME ContentsOK, readVPtr \in Position, writeVPtr \in Position,
         readVPtr.lap = writeVPtr.lap
  PROVE  Wrapping = {}
<1>1. ASSUME NEW i \in Wrapping
      PROVE  FALSE
  <2>1. i \in Pending /\ log[i].start.lap # log[i].end.lap
    BY DEF Wrapping
  <2>2. /\ log[i].start \in Position /\ log[i].end \in Position
        /\ Before(log[i].start, log[i].end)
    BY <2>1, LogEntry
  <2>3. Before(readVPtr, log[i].start) /\ Before(log[i].end, writeVPtr)
    BY <2>1 DEF ContentsOK, Order
  <2>4. QED
    BY <2>1, <2>2, <2>3 DEF Before, Position
<1>2. QED
  BY <1>1

-----------------------------------------------------------------------------
(* The queue in the pipe.                                                  *)

Elements == [item : Nat, len : Nat]

\* The headers in buf_ are those of the elements consumed + 1, consumed + 2,
\* ..., in this order.
InOrder ==
  /\ published - consumed \in Nat
  /\ Contents \in [1 .. (published - consumed) -> Elements]
  /\ \A i \in 1 .. (published - consumed) :
       /\ consumed + i \in Pending
       /\ Contents[i] = [item |-> consumed + i, len |-> log[consumed + i].len]

\* What buf_ holds is that queue: the oldest byte of every header is intact.
LEMMA ContentsAre == PipeInv => InOrder
<1> SUFFICES ASSUME PipeInv PROVE InOrder
  OBVIOUS
<1>1. consumed \in Nat /\ published \in Nat /\ consumed <= published
  BY DEF PipeInv, ContentsOK, LogShape
<1>2. ASSUME NEW i \in 1 .. (published - consumed)
      PROVE  /\ consumed + i \in Pending
             /\ log[consumed + i].len \in Nat
             /\ HeaderFields(buf[getPointer(log[consumed + i].hdr)])
                  = [item |-> consumed + i, len |-> log[consumed + i].len]
  <2> DEFINE k == consumed + i
  <2>1. k \in Pending
    BY <1>1 DEF Pending
  <2>2. /\ log[k].len \in Nat /\ log[k] = Layout(log[k].start, log[k].len)
        /\ log[k].hdr \in Position
    <3>1. /\ log[k].start \in Position /\ log[k].len \in 0 .. MAX_PIPE_ELEMENT_SIZE
          /\ log[k] = Layout(log[k].start, log[k].len)
      BY <2>1, LogEntry DEF PipeInv
    <3>2. HeaderAt(log[k].start) \in Position
      BY <3>1, LayoutAt
    <3>3. log[k].hdr = HeaderAt(log[k].start)
      BY <3>1 DEF Layout
    <3>4. QED
      BY <3>1, <3>2, <3>3, MaxElement
  <2>3. 0 \in AllBytes(log[k].len) /\ ByteAt(log[k], 0) = getPointer(log[k].hdr)
    BY <2>2, GeometryAssumption DEF AllBytes, ByteAt, getPointer, Position
  <2>4. buf[getPointer(log[k].hdr)] = Cell(k, 0, log[k].len)
    BY <2>1, <2>3 DEF PipeInv, ContentsOK, UnreadIntact, Holds
  <2>5. QED
    BY <2>1, <2>2, <2>4 DEF HeaderFields, Cell
<1>3. QED
  <2>1. published - consumed \in Nat
    BY <1>1
  <2>2. Contents = [i \in 1 .. (published - consumed) |->
                      [item |-> consumed + i, len |-> log[consumed + i].len]]
    BY <1>2 DEF Contents
  <2>3. ASSUME NEW i \in 1 .. (published - consumed)
        PROVE  [item |-> consumed + i, len |-> log[consumed + i].len] \in Elements
    <3>1. consumed + i \in Nat
      BY <1>1
    <3>2. log[consumed + i].len \in Nat
      BY <1>2
    <3>3. QED
      BY <3>1, <3>2 DEF Elements
  <2>4. QED
    BY <1>2, <2>1, <2>2, <2>3 DEF InOrder

\* What the mapping's variables depend on.
mapped == <<Contents, published, Used, HeaderFields(IF rpc = "count" THEN got[0] ELSE popped)>>

\* The mapping does not look at the rest of the state.
LEMMA MappedFrame ==
  ASSUME UNCHANGED <<readVPtr, writeVPtr, log, consumed, published>>,
         Contents' = Contents,
         UNCHANGED (IF rpc = "count" THEN got[0] ELSE popped)
  PROVE  UNCHANGED mapped
  BY DEF mapped, Used, Wrapping, Waste, Distance, Pending, HeaderFields

\* Both hold in the next state too.
LEMMA ContentsNext == PipeInv' => InOrder' /\ SkippedOK'
  BY ContentsAre, SkippedIs, PTL

\* Elements whose layout stays as it is stay in the queue.
LEMMA ContentsStay ==
  ASSUME PipeInv, PipeInv', UNCHANGED <<log, consumed, published>>
  PROVE  Contents' = Contents
<1>1. InOrder /\ InOrder'
  BY ContentsAre, ContentsNext
<1>2. QED
  BY <1>1 DEF InOrder

-----------------------------------------------------------------------------
(* The two steps the queue sees.                                           *)

\* finishWrite's store of writeVPtr_ pushes the element.
LEMMA PublishPushes ==
  ASSUME PipeInv, PipeInv', wlen \in Lengths, WritePublish
  PROVE  Queue!Push(wlen)
<1> USE DEF pointers, counters, flags, call, writer, copy, reader
<1> DEFINE n   == published + 1
           w2  == EndAt(writeVPtr, wlen)
           new == Layout(writeVPtr, wlen)
<1>1. /\ consumed' = consumed /\ published' = n /\ numWritten = n
      /\ consumed \in Nat /\ published \in Nat /\ consumed <= published
  <2>1. consumed \in Nat /\ published \in Nat /\ consumed <= published /\ numWritten \in Nat
    BY DEF PipeInv, TypeOK, ContentsOK, LogShape
  <2>2. wpc = "publish" /\ wpc' = "idle" /\ UNCHANGED <<rpc, numRead, numWritten>>
    BY DEF WritePublish
  <2>3. published = numWritten - 1 /\ published' = numWritten /\ consumed' = consumed
    BY <2>2 DEF consumed, published
  <2>4. QED
    BY <2>1, <2>3
<1>2. Pending' = Pending \cup {n} /\ n \notin Pending
  BY <1>1 DEF Pending
<1>3. /\ wlen \in 0 .. MAX_PIPE_ELEMENT_SIZE /\ ~isFull(readVPtr, writeVPtr, wlen)
      /\ readVPtr \in Position /\ writeVPtr \in Position
      /\ InWindow(readVPtr, writeVPtr) /\ writeVPtr' = w2 /\ readVPtr' = readVPtr
  BY DEF PipeInv, TypeOK, WriterOK, WritesOnlyIfRoom, WritePublish, ContentsOK
<1>4. w2 \in Position /\ Before(writeVPtr, w2) /\ InWindow(readVPtr, w2)
  BY <1>3, LayoutAt, LayoutOrder, RoomIsOffArc
<1>5. /\ log'[n] = new
      /\ \A k \in Pending : log'[k] = log[k]
  BY <1>1, <1>2 DEF WritePublish, PipeInv, ContentsOK, LogShape
<1>6. new.start = writeVPtr /\ new.len = wlen /\ new.end = w2
  BY DEF Layout
<1> HIDE DEF n, w2, new
<1>7. Contents' = Append(Contents, [item |-> published + 1, len |-> wlen])
  <2> DEFINE m == published - consumed
  <2>1. InOrder /\ InOrder'
    BY ContentsAre, ContentsNext
  <2>2. m \in Nat /\ published' - consumed' = m + 1 /\ consumed' + (m + 1) = n
    BY <1>1 DEF n
  <2>3. Contents \in [1 .. m -> Elements] /\ Contents' \in [1 .. (m + 1) -> Elements]
    BY <2>1, <2>2 DEF InOrder
  <2>4. \A i \in 1 .. m : Contents'[i] = Contents[i]
    <3>1. TAKE i \in 1 .. m
    <3>2. i \in 1 .. (m + 1) /\ consumed + i \in Pending
      BY <2>1, <2>2 DEF InOrder
    <3>3. Contents[i] = [item |-> consumed + i, len |-> log[consumed + i].len]
      BY <2>1 DEF InOrder
    <3>4. Contents'[i] = [item |-> consumed' + i, len |-> log'[consumed' + i].len]
      BY <2>1, <2>2, <3>2 DEF InOrder
    <3>5. QED
      BY <1>1, <1>5, <3>2, <3>3, <3>4
  <2>5. Contents'[m + 1] = [item |-> published + 1, len |-> wlen]
    <3>1. m + 1 \in 1 .. (m + 1)
      BY <2>2
    <3>2. Contents'[m + 1] = [item |-> consumed' + (m + 1), len |-> log'[consumed' + (m + 1)].len]
      BY <2>1, <2>2, <3>1 DEF InOrder
    <3>3. QED
      BY <1>5, <1>6, <2>2, <3>2 DEF n
  <2> HIDE DEF m
  <2>6. QED
    BY <2>2, <2>3, <2>4, <2>5, AppendOfFunction
<1>8. Used' = Used + SIZEOF_LENGTH + wlen /\ Used' <= PIPE_SIZE
  <2>1. /\ Distance(readVPtr, w2) = Distance(readVPtr, writeVPtr) + Distance(writeVPtr, w2)
        /\ Distance(readVPtr, w2) \in Int /\ Distance(readVPtr, writeVPtr) \in Int
        /\ Distance(writeVPtr, w2) \in Int
        /\ Distance(readVPtr, w2) <= PIPE_SIZE
    <3>1. Before(readVPtr, writeVPtr)
      BY <1>3 DEF InWindow, Before, Position
    <3>2. QED
      BY <1>3, <1>4, <3>1, DistanceAdds DEF Distance, Position
  <2>2. /\ w2.lap = writeVPtr.lap => Distance(writeVPtr, w2) = SIZEOF_LENGTH + wlen
        /\ wlen \in Nat /\ SIZEOF_LENGTH \in Nat /\ PIPE_SIZE \in Nat
    BY <1>3, ElementDistance, MaxElement, GeometryAssumption DEF w2
  <2>3. /\ Skipped \in Int /\ Skipped >= 0
        /\ \A k \in Wrapping : Skipped = Waste(log[k])
        /\ Wrapping = {} => Skipped = 0
    BY SkippedIs DEF SkippedOK
  <2>4. /\ Skipped' \in Int /\ Skipped' >= 0
        /\ \A k \in Wrapping' : Skipped' = Waste(log'[k])
        /\ Wrapping' = {} => Skipped' = 0
    BY ContentsNext DEF SkippedOK
  <2>5. Used = Distance(readVPtr, writeVPtr) - Skipped
    BY DEF Used, Skipped
  <2>6. Used' = Distance(readVPtr, w2) - Skipped'
    BY <1>3 DEF Used, Skipped, Distance
  <2>7. CASE w2.lap = writeVPtr.lap
    <3>1. Wrapping' = Wrapping
      BY <1>2, <1>5, <1>6, <2>7 DEF Wrapping
    <3>2. Skipped' = Skipped
      BY <1>5, <2>3, <2>4, <3>1 DEF Wrapping
    <3>3. QED
      BY <2>1, <2>2, <2>3, <2>5, <2>6, <2>7, <3>2
  <2>8. CASE w2.lap # writeVPtr.lap
    <3>1. Wrapping = {}
      BY <1>3, <1>4, <2>8, NoneWraps DEF PipeInv, InWindow, Before, Position
    <3>2. n \in Wrapping'
      BY <1>2, <1>5, <1>6, <2>8 DEF Wrapping
    <3>3. Skipped' = Distance(writeVPtr, w2) - (SIZEOF_LENGTH + wlen)
      BY <1>5, <1>6, <2>4, <3>2 DEF Waste
    <3>4. QED
      BY <2>1, <2>2, <2>3, <2>4, <2>5, <2>6, <3>1, <3>3
  <2>9. QED
    BY <2>7, <2>8
<1>9. UNCHANGED HeaderFields(IF rpc = "count" THEN got[0] ELSE popped)
  BY DEF WritePublish, HeaderFields
<1>10. QED
  BY <1>1, <1>7, <1>8, <1>9 DEF Queue!Push, n

\* read's store of readVPtr_ pops the oldest element, the one it has copied.
LEMMA ReleasePops ==
  ASSUME PipeInv, PipeInv', ReadRelease
  PROVE  Queue!Pop
<1> USE DEF pointers, counters, flags, call, writer, copy, reader
<1> DEFINE k  == consumed + 1
           r2 == log[k].end
<1>1. /\ consumed' = k /\ published' = published /\ consumed = numRead
      /\ consumed \in Nat /\ published \in Nat
  <2>1. rpc = "release" /\ rpc' = "count" /\ UNCHANGED <<numRead, numWritten, wpc>>
    BY DEF ReadRelease
  <2>2. QED
    BY <2>1 DEF consumed, published, PipeInv, ContentsOK, LogShape
<1>2. consumed < published /\ rlen = log[k].len
  BY DEF PipeInv, ReaderOK, ReadRelease
<1>3. /\ k \in Pending /\ log[k].start = readVPtr /\ r2 \in Position
      /\ r2 = EndAt(readVPtr, rlen) /\ Before(readVPtr, r2)
      /\ rlen \in 0 .. MAX_PIPE_ELEMENT_SIZE
  BY <1>2, OldestEntry, LogEntry DEF PipeInv
<1>4. /\ readVPtr \in Position /\ writeVPtr \in Position
      /\ InWindow(readVPtr, writeVPtr) /\ Before(r2, writeVPtr)
  BY <1>3 DEF PipeInv, TypeOK, ContentsOK, Order
<1>5. readVPtr' = r2 /\ writeVPtr' = writeVPtr
  BY <1>3 DEF ReadRelease
<1>6. Pending' = Pending \ {k}
  BY <1>1, <1>2 DEF Pending
<1>7. log' = [j \in Pending' |-> log[j]]
  BY <1>1, <1>6 DEF ReadRelease, PipeInv, ContentsOK, LogShape
<1> HIDE DEF k, r2
<1>8. /\ Contents # <<>> /\ Contents' = Tail(Contents)
      /\ Head(Contents) = [item |-> k, len |-> rlen]
  <2> DEFINE m == published - k
  <2>1. InOrder /\ InOrder'
    BY ContentsAre, ContentsNext
  <2>2. m \in Nat /\ published - consumed = m + 1 /\ published' - consumed' = m
    BY <1>1, <1>2 DEF k
  <2>3. Contents \in [1 .. (m + 1) -> Elements] /\ Contents' \in [1 .. m -> Elements]
    BY <2>1, <2>2 DEF InOrder
  <2>4. \A i \in 1 .. m : Contents'[i] = Contents[i + 1]
    <3>1. TAKE i \in 1 .. m
    <3>2. i + 1 \in 1 .. (m + 1) /\ consumed + (i + 1) = consumed' + i
      BY <1>1, <2>2 DEF k
    <3>3. Contents[i + 1] = [item |-> consumed + (i + 1), len |-> log[consumed + (i + 1)].len]
      BY <2>1, <2>2, <3>2 DEF InOrder
    <3>4. /\ consumed' + i \in Pending'
          /\ Contents'[i] = [item |-> consumed' + i, len |-> log'[consumed' + i].len]
      BY <2>1, <2>2 DEF InOrder
    <3>5. QED
      BY <1>7, <3>2, <3>3, <3>4
  <2>5. Contents[1] = [item |-> k, len |-> rlen]
    <3>1. 1 \in 1 .. (m + 1)
      BY <2>2
    <3>2. Contents[1] = [item |-> consumed + 1, len |-> log[consumed + 1].len]
      BY <2>1, <2>2, <3>1 DEF InOrder
    <3>3. QED
      BY <1>2, <3>2 DEF k
  <2> HIDE DEF m
  <2>6. QED
    BY <2>2, <2>3, <2>4, <2>5, TailOfFunction
<1>9. Used' = Used - (SIZEOF_LENGTH + rlen)
  <2>1. /\ Distance(readVPtr, writeVPtr) = Distance(readVPtr, r2) + Distance(r2, writeVPtr)
        /\ Distance(readVPtr, r2) \in Int /\ Distance(r2, writeVPtr) \in Int
    BY <1>3, <1>4, DistanceAdds
  <2>2. /\ r2.lap = readVPtr.lap => Distance(readVPtr, r2) = SIZEOF_LENGTH + rlen
        /\ r2.lap = readVPtr.lap \/ r2.lap = readVPtr.lap + 1
        /\ rlen \in Nat /\ SIZEOF_LENGTH \in Nat
    BY <1>3, <1>4, ElementDistance, MaxElement, GeometryAssumption
  <2>3. /\ Skipped \in Int
        /\ \A j \in Wrapping : Skipped = Waste(log[j])
        /\ Wrapping = {} => Skipped = 0
    BY SkippedIs DEF SkippedOK
  <2>4. /\ Skipped' \in Int
        /\ \A j \in Wrapping' : Skipped' = Waste(log'[j])
        /\ Wrapping' = {} => Skipped' = 0
    BY ContentsNext DEF SkippedOK
  <2>5. Used = Distance(readVPtr, writeVPtr) - Skipped
    BY DEF Used, Skipped
  <2>6. Used' = Distance(r2, writeVPtr) - Skipped'
    BY <1>5 DEF Used, Skipped, Distance
  <2>7. CASE r2.lap = readVPtr.lap
    <3>1. k \notin Wrapping
      BY <1>3, <2>7 DEF Wrapping, r2
    <3>2. Wrapping' = Wrapping
      BY <1>6, <1>7, <3>1 DEF Wrapping
    <3>3. Skipped' = Skipped
      BY <1>7, <2>3, <2>4, <3>2 DEF Wrapping
    <3>4. QED
      BY <2>1, <2>2, <2>3, <2>5, <2>6, <2>7, <3>3
  <2>8. CASE r2.lap # readVPtr.lap
    <3>1. k \in Wrapping
      BY <1>3, <2>8 DEF Wrapping, r2
    <3>2. Wrapping' = {}
      <4>1. ASSUME NEW j \in Wrapping' PROVE FALSE
        <5>1. j \in Wrapping /\ j # k
          BY <1>6, <1>7 DEF Wrapping
        <5>2. QED
          BY <1>4, <3>1, <5>1, OneWraps DEF PipeInv
      <4>2. QED
        BY <4>1
    <3>3. Skipped = Distance(readVPtr, r2) - (SIZEOF_LENGTH + rlen)
      BY <1>2, <1>3, <2>3, <3>1 DEF Waste, r2
    <3>4. QED
      BY <2>1, <2>2, <2>4, <2>5, <2>6, <3>2, <3>3
  <2>9. QED
    BY <2>7, <2>8
<1>10. HeaderFields(IF rpc = "count" THEN got[0] ELSE popped)' = [item |-> k, len |-> rlen]
  <2>1. rpc = "release" /\ rpc' = "count" /\ got' = got
    BY DEF ReadRelease
  <2>2. got = [i \in AllBytes(rlen) |-> Cell(k, i, rlen)]
    BY <1>1, <2>1 DEF PipeInv, ReaderOK, PopIntact, k
  <2>3. 0 \in AllBytes(rlen)
    BY <1>3, MaxElement, GeometryAssumption DEF AllBytes
  <2>4. QED
    BY <2>1, <2>2, <2>3 DEF HeaderFields, Cell
<1>11. QED
  BY <1>1, <1>8, <1>9, <1>10 DEF Queue!Pop

-----------------------------------------------------------------------------
(* Every other step leaves the queue alone.                                *)

\* Steps that move neither pointer and publish or consume nothing.
QuietStep ==
  \/ WriterCall
  \/ WriteIsFull \/ WriteIsRunning \/ WriteInterrupted \/ WriteWouldBlock
  \/ WriteReserve \/ WriteHeader \/ WriteData \/ WriteCount
  \/ Pop \/ WaitIsEmpty \/ WaitIsRunning
  \/ ReadHeader \/ ReadData \/ ReadCount
  \/ ControlStep

\* The bytes a push is writing and the bytes a pop is copying do not show.
LEMMA QuietStutters ==
  ASSUME PipeInv, PipeInv', QuietStep
  PROVE  UNCHANGED mapped
<1> USE DEF pointers, counters, flags, call, writer, copy, reader
<1>1. UNCHANGED <<readVPtr, writeVPtr, log>>
  BY DEF QuietStep, WriterCall, ControlStep, Push, PushTooLarge, WriteIsFull, WriteIsRunning,
    WriteInterrupted, WriteWouldBlock, WriteReserve, WriteHeader, WriteData, WriteCount, Pop,
    WaitIsEmpty, WaitIsRunning, ReadHeader, ReadData,
    ReadCount, StopWriter, StartWriter, StartReader
<1>2. UNCHANGED <<consumed, published>>
  <2>1. numRead \in Nat /\ numWritten \in Nat
    BY DEF PipeInv, TypeOK
  <2>2. UNCHANGED published
    <3>1. CASE WriteCount
      <4>1. wpc = "count" /\ wpc' = "publish" /\ numWritten' = numWritten + 1
        BY <3>1 DEF WriteCount
      <4>2. QED
        BY <2>1, <4>1 DEF published
    <3>2. CASE ~WriteCount
      <4>1. /\ numWritten' = numWritten
            /\ wpc' = wpc \/ (wpc # "publish" /\ wpc' # "publish")
        BY <3>2 DEF QuietStep, WriterCall, ControlStep, Push, PushTooLarge, WriteIsFull,
          WriteIsRunning, WriteInterrupted, WriteWouldBlock, WriteReserve, WriteHeader,
          WriteData, Pop, WaitIsEmpty, WaitIsRunning,
          ReadHeader, ReadData, ReadCount, StopWriter, StartWriter, StartReader
      <4>2. QED
        BY <4>1 DEF published
    <3>3. QED
      BY <3>1, <3>2
  <2>3. UNCHANGED consumed
    BY <2>1 DEF consumed, QuietStep, WriterCall, ControlStep, Push, PushTooLarge, WriteIsFull,
      WriteIsRunning, WriteInterrupted, WriteWouldBlock, WriteReserve, WriteHeader, WriteData,
      WriteCount, Pop, WaitIsEmpty, WaitIsRunning, ReadHeader,
      ReadData, ReadCount, StopWriter, StartWriter, StartReader
  <2>4. QED
    BY <2>2, <2>3
<1>3. UNCHANGED (IF rpc = "count" THEN got[0] ELSE popped)
  BY DEF QuietStep, WriterCall, ControlStep, Push, PushTooLarge, WriteIsFull,
    WriteIsRunning, WriteInterrupted, WriteWouldBlock, WriteReserve, WriteHeader, WriteData,
    WriteCount, Pop, WaitIsEmpty, WaitIsRunning, ReadHeader,
    ReadData, ReadCount, StopWriter, StartWriter, StartReader
<1>4. Contents' = Contents
  BY <1>1, <1>2, ContentsStay
<1>5. QED
  BY <1>1, <1>2, <1>3, <1>4, MappedFrame

-----------------------------------------------------------------------------
(* The refinement.                                                         *)

\* A push works on a length that the application asked for.
AskedFor == wpc # "idle" => wlen \in Lengths

\* startWrite keeps its argument until it returns.
LEMMA AskedForStep == AskedFor /\ [Next]_vars => AskedFor'
  BY DEF AskedFor, Next, vars, pointers, counters, flags, call, writer, copy, reader,
    WriterCall, WriterStep, ReaderStep, ControlStep, Push,
    PushTooLarge, WriteIsFull, WriteIsRunning, WriteInterrupted, WriteWouldBlock,
    WriteReserve, WriteHeader, WriteData, WriteCount, WritePublish, Pop, WaitIsEmpty,
    WaitIsRunning, ReadHeader, ReadData, ReadRelease,
    ReadCount, StopWriter, StartWriter, StartReader

\* A new pipe is an empty queue.
LEMMA InitRefines == Init => Queue!Init
<1> SUFFICES ASSUME Init PROVE Queue!Init
  OBVIOUS
<1>1. PipeInv
  BY InitInv
<1>2. published = 0 /\ consumed = 0 /\ readVPtr = writeVPtr
  BY DEF Init, clear, published, consumed
<1>3. Contents = <<>>
  <2>1. Contents \in [1 .. 0 -> Elements]
    BY <1>1, <1>2, ContentsAre DEF InOrder
  <2>2. Contents \in Seq(Elements) /\ Len(Contents) = 0
    BY <2>1, FunctionIsSeq
  <2>3. QED
    BY <2>2, EmptySeq
<1>4. Used = 0
  <2>1. Pending = {} /\ Wrapping = {}
    BY <1>2 DEF Pending, Wrapping
  <2>2. readVPtr \in Position
    BY <1>1 DEF PipeInv, TypeOK
  <2>3. readVPtr.ptr \in Int /\ readVPtr.ptr - readVPtr.ptr = 0
    BY <2>2, GeometryAssumption DEF Position
  <2>4. QED
    BY <1>2, <2>1, <2>3 DEF Used, Distance
<1>5. HeaderFields(IF rpc = "count" THEN got[0] ELSE popped) = [item |-> 0, len |-> 0]
  BY DEF Init, HeaderFields, Cell
<1>6. QED
  BY <1>2, <1>3, <1>4, <1>5 DEF Queue!Init

\* Every step of every thread is a step of the queue or a stutter.
LEMMA StepRefines ==
  PipeInv /\ PipeInv' /\ AskedFor /\ [Next]_vars =>
    [Queue!Next]_<<Contents, published, Used,
                   HeaderFields(IF rpc = "count" THEN got[0] ELSE popped)>>
<1> SUFFICES ASSUME PipeInv, PipeInv', AskedFor, [Next]_vars
             PROVE  Queue!Next \/ UNCHANGED mapped
  BY DEF mapped
<1>1. CASE WritePublish
  <2>1. wlen \in Lengths
    BY <1>1 DEF AskedFor, WritePublish
  <2>2. QED
    BY <1>1, <2>1, PublishPushes DEF Queue!Next
<1>2. CASE ReadRelease
  BY <1>2, ReleasePops DEF Queue!Next
<1>3. CASE QuietStep
  BY <1>3, QuietStutters
<1>4. CASE UNCHANGED vars
  <2>1. /\ UNCHANGED <<readVPtr, writeVPtr, numRead, numWritten, buf, wpc>>
        /\ UNCHANGED <<rpc, got, popped, log>>
    BY <1>4, Zenon DEF vars, pointers, counters, flags, call, writer, copy, reader
  <2>2. UNCHANGED <<consumed, published>>
    BY <2>1 DEF consumed, published
  <2>3. QED
    BY <2>1, <2>2, ContentsStay, MappedFrame
<1>5. QED
  BY <1>1, <1>2, <1>3, <1>4 DEF Next, WriterStep, ReaderStep, QuietStep

\* The pipe is a bounded first-in first-out queue: two threads that share
\* LocklessPipe see what they would see of PipeQueue.
THEOREM PipeRefinesQueue == Spec => RefinesQueue
<1>1. Init => AskedFor
  BY DEF Init, AskedFor
<1>2. Spec => []AskedFor
  BY <1>1, AskedForStep, PTL DEF Spec
<1>3. QED
  BY <1>2, InitRefines, StepRefines, PipeInvariance, PTL DEF Spec, RefinesQueue, Queue!Spec
=============================================================================
