----------------------------- MODULE PipeProofs -----------------------------
(***************************************************************************)
(* LocklessPipe is correct for every pipe size, header size, word width,   *)
(* set of lengths and number of writes: the proofs of PipeInv and of the   *)
(* safety properties it implies.                                           *)
(***************************************************************************)
EXTENDS PipeInvariant, TLAPS

-----------------------------------------------------------------------------
(* The arithmetic of PipeGeometry never leaves a uint32_t.                 *)

\* The largest element, with its header and one byte more, takes half of the
\* pipe at most.
LEMMA MaxElement ==
  /\ MAX_PIPE_ELEMENT_SIZE \in Nat
  /\ 2 * (MAX_PIPE_ELEMENT_SIZE + SIZEOF_LENGTH + 1) <= PIPE_SIZE
  /\ PIPE_SIZE + MAX_PIPE_ELEMENT_SIZE + SIZEOF_LENGTH < WORD
<1> DEFINE half == PIPE_SIZE \div 2
           max  == half - (SIZEOF_LENGTH + 1)
<1>1. half \in Nat /\ 2 * half <= PIPE_SIZE /\ PIPE_SIZE + half <= WORD /\ SIZEOF_LENGTH + 1 <= half
  BY GeometryAssumption
<1>2. max \in Nat /\ max < WORD
  BY <1>1, GeometryAssumption
<1>3. max % WORD = max
  BY <1>2, GeometryAssumption
<1>4. MAX_PIPE_ELEMENT_SIZE = max
  BY <1>3 DEF MAX_PIPE_ELEMENT_SIZE
<1> HIDE DEF half
<1>5. QED
  BY <1>1, <1>4, GeometryAssumption

\* uint32_t addition does not overflow.
LEMMA PlusIsSum ==
  ASSUME NEW a \in Nat, NEW b \in Nat, a + b < WORD
  PROVE  Plus(a, b) = a + b
  BY GeometryAssumption DEF Plus

\* Where startWrite puts header, data and end, in plain arithmetic.
LEMMA LayoutAt ==
  ASSUME NEW v \in Position, NEW length \in 0 .. MAX_PIPE_ELEMENT_SIZE
  PROVE  LET h == HeaderAt(v)
             d == DataAt(v, length)
             e == EndAt(v, length)
         IN  /\ h = IF v.ptr + SIZEOF_LENGTH > PIPE_SIZE
                    THEN [lap |-> v.lap + 1, ptr |-> 0] ELSE v
             /\ d = IF h.ptr + SIZEOF_LENGTH + length > PIPE_SIZE
                    THEN [lap |-> h.lap + 1, ptr |-> 0]
                    ELSE [lap |-> h.lap, ptr |-> h.ptr + SIZEOF_LENGTH]
             /\ e = [lap |-> d.lap, ptr |-> d.ptr + length]
             /\ h \in Position /\ d \in Position /\ e \in Position
             /\ h.ptr + SIZEOF_LENGTH <= PIPE_SIZE
             /\ d.ptr + length <= PIPE_SIZE
<1> DEFINE S == SIZEOF_LENGTH
           h == HeaderAt(v)
           d == DataAt(v, length)
           e == EndAt(v, length)
<1>0. /\ v.lap \in Nat /\ v.ptr \in 0 .. PIPE_SIZE /\ S \in Nat /\ length \in Nat
      /\ PIPE_SIZE \in Nat /\ WORD \in Nat
      /\ PIPE_SIZE + length + S < WORD /\ 2 * (length + S + 1) <= PIPE_SIZE
  BY MaxElement, GeometryAssumption DEF Position
<1>1. h = IF v.ptr + S > PIPE_SIZE THEN [lap |-> v.lap + 1, ptr |-> 0] ELSE v
  <2>1. Plus(v.ptr, S) = v.ptr + S
    <3>1. v.ptr \in Nat /\ S \in Nat /\ v.ptr + S < WORD
      BY <1>0
    <3>2. QED
      BY <3>1, PlusIsSum
  <2>2. QED
    BY <2>1 DEF HeaderAt, isWrap, getPointer, getVersionedPointer
<1>2. h \in Position /\ h.ptr + S <= PIPE_SIZE
  BY <1>0, <1>1 DEF Position
<1>3. d = IF h.ptr + S + length > PIPE_SIZE
          THEN [lap |-> h.lap + 1, ptr |-> 0]
          ELSE [lap |-> h.lap, ptr |-> h.ptr + S]
  <2>1. h.ptr \in 0 .. PIPE_SIZE
    BY <1>2 DEF Position
  <2>2. Plus(h.ptr, S) = h.ptr + S
    <3>1. h.ptr \in Nat /\ S \in Nat /\ h.ptr + S < WORD
      BY <1>0, <2>1
    <3>2. QED
      BY <3>1, PlusIsSum
  <2>3. Plus(h.ptr + S, length) = h.ptr + S + length
    <3>1. h.ptr + S \in Nat /\ length \in Nat /\ h.ptr + S + length < WORD
      BY <1>0, <1>2, <2>1
    <3>2. QED
      BY <3>1, PlusIsSum
  <2>4. QED
    BY <2>2, <2>3 DEF DataAt, isWrap, getPointer, getVersionedPointer
<1>4. d \in Position /\ d.ptr + length <= PIPE_SIZE
  <2>1. h.lap \in Nat /\ h.ptr \in 0 .. PIPE_SIZE
    BY <1>2 DEF Position
  <2> HIDE DEF h, d
  <2>2. QED
    BY <1>0, <1>2, <1>3, <2>1 DEF Position
<1>5. e = [lap |-> d.lap, ptr |-> d.ptr + length]
  <2>1. d.ptr \in 0 .. PIPE_SIZE
    BY <1>4 DEF Position
  <2>2. Plus(d.ptr, length) = d.ptr + length
    <3>1. d.ptr \in Nat /\ length \in Nat /\ d.ptr + length < WORD
      BY <1>0, <2>1
    <3>2. QED
      BY <3>1, PlusIsSum
  <2>3. QED
    BY <2>2 DEF EndAt, getPointer, getVersionedPointer
<1>6. e \in Position
  <2>1. d.lap \in Nat /\ d.ptr \in 0 .. PIPE_SIZE
    BY <1>4 DEF Position
  <2> HIDE DEF h, d, e
  <2>2. QED
    BY <1>0, <1>4, <1>5, <2>1 DEF Position
<1>7. QED
  BY <1>1, <1>2, <1>3, <1>4, <1>5, <1>6

-----------------------------------------------------------------------------
(* Which bytes an element takes.                                           *)

\* isFull in plain arithmetic.
LEMMA IsFullAt ==
  ASSUME NEW r \in Position, NEW w \in Position,
         NEW length \in 0 .. MAX_PIPE_ELEMENT_SIZE
  PROVE  isFull(r, w, length) <=>
           ~ IF r.ptr > w.ptr
             THEN w.ptr + length + SIZEOF_LENGTH < r.ptr
             ELSE IF w.ptr + SIZEOF_LENGTH > PIPE_SIZE
                  THEN length + SIZEOF_LENGTH < r.ptr
                  ELSE w.ptr + SIZEOF_LENGTH + length > PIPE_SIZE => length < r.ptr
<1>0. /\ w.ptr \in 0 .. PIPE_SIZE /\ SIZEOF_LENGTH \in Nat /\ length \in Nat
      /\ PIPE_SIZE \in Nat /\ WORD \in Nat /\ PIPE_SIZE + length + SIZEOF_LENGTH < WORD
  BY MaxElement, GeometryAssumption DEF Position
<1>1. Plus(length, SIZEOF_LENGTH) = length + SIZEOF_LENGTH
  <2>1. length + SIZEOF_LENGTH < WORD
    BY <1>0
  <2>2. QED
    BY <1>0, <2>1, PlusIsSum
<1>2. Plus(w.ptr, length + SIZEOF_LENGTH) = w.ptr + length + SIZEOF_LENGTH
  <2>1. /\ w.ptr \in Nat /\ length + SIZEOF_LENGTH \in Nat
        /\ w.ptr + (length + SIZEOF_LENGTH) < WORD
        /\ w.ptr + (length + SIZEOF_LENGTH) = w.ptr + length + SIZEOF_LENGTH
    BY <1>0
  <2>2. QED
    BY <2>1, PlusIsSum
<1>3. Plus(w.ptr, SIZEOF_LENGTH) = w.ptr + SIZEOF_LENGTH
  <2>1. w.ptr \in Nat /\ w.ptr + SIZEOF_LENGTH < WORD
    BY <1>0
  <2>2. QED
    BY <1>0, <2>1, PlusIsSum
<1>4. Plus(w.ptr + SIZEOF_LENGTH, length) = w.ptr + SIZEOF_LENGTH + length
  <2>1. w.ptr + SIZEOF_LENGTH \in Nat /\ w.ptr + SIZEOF_LENGTH + length < WORD
    BY <1>0
  <2>2. QED
    BY <1>0, <2>1, PlusIsSum
<1>5. QED
  BY <1>1, <1>2, <1>3, <1>4 DEF isFull, isWrap, getPointer

\* An element ends after it starts, at most one lap later.
LEMMA LayoutOrder ==
  ASSUME NEW v \in Position, NEW length \in 0 .. MAX_PIPE_ELEMENT_SIZE
  PROVE  LET h == HeaderAt(v)
             d == DataAt(v, length)
             e == EndAt(v, length)
         IN  /\ Before(v, h) /\ Before(h, d) /\ Before(d, e) /\ Before(v, e)
             /\ \/ d.lap = h.lap /\ d.ptr = h.ptr + SIZEOF_LENGTH
                \/ d.lap = h.lap + 1 /\ d.ptr = 0
             /\ h.lap = v.lap => h.ptr = v.ptr
             /\ h.lap # v.lap => h.ptr = 0
             /\ e.lap = d.lap /\ e.ptr = d.ptr + length
<1> DEFINE h == HeaderAt(v)
           d == DataAt(v, length)
           e == EndAt(v, length)
<1>1. /\ h = IF v.ptr + SIZEOF_LENGTH > PIPE_SIZE
             THEN [lap |-> v.lap + 1, ptr |-> 0] ELSE v
      /\ d = IF h.ptr + SIZEOF_LENGTH + length > PIPE_SIZE
             THEN [lap |-> h.lap + 1, ptr |-> 0]
             ELSE [lap |-> h.lap, ptr |-> h.ptr + SIZEOF_LENGTH]
      /\ e = [lap |-> d.lap, ptr |-> d.ptr + length]
      /\ h \in Position /\ d \in Position /\ e \in Position
  BY LayoutAt
<1>2. length \in Nat /\ SIZEOF_LENGTH \in Nat /\ PIPE_SIZE \in Nat
  BY MaxElement, GeometryAssumption
<1> HIDE DEF h, d, e
<1>3. /\ Before(v, h)
      /\ h.lap = v.lap => h.ptr = v.ptr
      /\ h.lap # v.lap => h.ptr = 0
  BY <1>1, <1>2 DEF Before, Position
<1>4. /\ Before(h, d)
      /\ \/ d.lap = h.lap /\ d.ptr = h.ptr + SIZEOF_LENGTH
         \/ d.lap = h.lap + 1 /\ d.ptr = 0
  BY <1>1, <1>2 DEF Before, Position
<1>5. Before(d, e) /\ e.lap = d.lap /\ e.ptr = d.ptr + length
  BY <1>1, <1>2 DEF Before, Position
<1>6. Before(v, e)
  BY <1>1, <1>3, <1>4, <1>5 DEF Before, Position
<1>7. QED
  BY <1>3, <1>4, <1>5, <1>6 DEF h, d, e

\* The n bytes from x are unread, if the pointers are r and w.
InArc(r, w, x, n) ==
  IF r.lap = w.lap THEN r.ptr <= x /\ x + n <= w.ptr
                   ELSE r.ptr <= x \/ x + n <= w.ptr

\* The n bytes from x are free.
OffArc(r, w, x, n) ==
  IF r.lap = w.lap THEN w.ptr <= x \/ x + n <= r.ptr
                   ELSE w.ptr <= x /\ x + n <= r.ptr

\* An element laid out between the pointers takes unread bytes only.
LEMMA UnreadInArc ==
  ASSUME NEW r \in Position, NEW w \in Position, InWindow(r, w),
         NEW v \in Position, NEW length \in 0 .. MAX_PIPE_ELEMENT_SIZE,
         Before(r, v), Before(EndAt(v, length), w)
  PROVE  /\ InArc(r, w, HeaderAt(v).ptr, SIZEOF_LENGTH)
         /\ InArc(r, w, DataAt(v, length).ptr, length)
<1> DEFINE h == HeaderAt(v)
           d == DataAt(v, length)
           e == EndAt(v, length)
<1>1. /\ Before(v, h) /\ Before(h, d) /\ Before(d, e)
      /\ \/ d.lap = h.lap /\ d.ptr = h.ptr + SIZEOF_LENGTH
         \/ d.lap = h.lap + 1 /\ d.ptr = 0
      /\ e.lap = d.lap /\ e.ptr = d.ptr + length
  BY LayoutOrder
<1>2. h \in Position /\ d \in Position /\ e \in Position
  BY LayoutAt
<1>3. length \in Nat /\ SIZEOF_LENGTH \in Nat /\ PIPE_SIZE \in Nat
  BY MaxElement, GeometryAssumption
<1> HIDE DEF h, d, e
<1>4. Before(e, w)
  BY DEF e
<1>5. QED
  BY <1>1, <1>2, <1>3, <1>4 DEF InWindow, Before, InArc, Position, h, d

\* If isFull says no, a new element takes free bytes only and the write
\* pointer stays less than a lap ahead.
LEMMA RoomIsOffArc ==
  ASSUME NEW r \in Position, NEW w \in Position, InWindow(r, w),
         NEW length \in 0 .. MAX_PIPE_ELEMENT_SIZE, ~isFull(r, w, length)
  PROVE  /\ OffArc(r, w, HeaderAt(w).ptr, SIZEOF_LENGTH)
         /\ OffArc(r, w, DataAt(w, length).ptr, length)
         /\ InWindow(r, EndAt(w, length))
<1> DEFINE h == HeaderAt(w)
           d == DataAt(w, length)
           e == EndAt(w, length)
<1>1. /\ h = IF w.ptr + SIZEOF_LENGTH > PIPE_SIZE
             THEN [lap |-> w.lap + 1, ptr |-> 0] ELSE w
      /\ d = IF h.ptr + SIZEOF_LENGTH + length > PIPE_SIZE
             THEN [lap |-> h.lap + 1, ptr |-> 0]
             ELSE [lap |-> h.lap, ptr |-> h.ptr + SIZEOF_LENGTH]
      /\ e = [lap |-> d.lap, ptr |-> d.ptr + length]
      /\ h \in Position /\ d \in Position /\ e \in Position
  BY LayoutAt
<1>2. /\ length \in Nat /\ SIZEOF_LENGTH \in Nat /\ PIPE_SIZE \in Nat
      /\ 2 * (length + SIZEOF_LENGTH + 1) <= PIPE_SIZE
  BY MaxElement, GeometryAssumption
<1>3. IF r.ptr > w.ptr
      THEN w.ptr + length + SIZEOF_LENGTH < r.ptr
      ELSE IF w.ptr + SIZEOF_LENGTH > PIPE_SIZE
           THEN length + SIZEOF_LENGTH < r.ptr
           ELSE w.ptr + SIZEOF_LENGTH + length > PIPE_SIZE => length < r.ptr
  BY IsFullAt
<1> HIDE DEF h, d, e
<1>4. /\ OffArc(r, w, h.ptr, SIZEOF_LENGTH)
      /\ OffArc(r, w, d.ptr, length)
      /\ InWindow(r, e)
  <2>1. CASE r.ptr > w.ptr
    BY <1>1, <1>2, <1>3, <2>1 DEF InWindow, OffArc, Position
  <2>2. CASE r.ptr <= w.ptr /\ w.ptr + SIZEOF_LENGTH > PIPE_SIZE
    BY <1>1, <1>2, <1>3, <2>2 DEF InWindow, OffArc, Position
  <2>3. CASE r.ptr <= w.ptr /\ w.ptr + SIZEOF_LENGTH <= PIPE_SIZE
    BY <1>1, <1>2, <1>3, <2>3 DEF InWindow, OffArc, Position
  <2>4. QED
    BY <1>2, <2>1, <2>2, <2>3 DEF Position
<1>5. QED
  BY <1>4 DEF h, d, e

\* Room does not go away when the reader moves on.
LEMMA RoomStable ==
  ASSUME NEW r \in Position, NEW w \in Position, InWindow(r, w),
         NEW length \in 0 .. MAX_PIPE_ELEMENT_SIZE, ~isFull(r, w, length),
         NEW r2 \in Position, Before(r, r2), Before(r2, w), InWindow(r2, w)
  PROVE  ~isFull(r2, w, length)
  BY IsFullAt, MaxElement, GeometryAssumption DEF InWindow, Before, Position

\* A read pointer that moves forward, but not past the write pointer, stays
\* less than a lap behind.
LEMMA WindowShrinks ==
  ASSUME NEW r \in Position, NEW w \in Position, InWindow(r, w),
         NEW r2 \in Position, Before(r, r2), Before(r2, w)
  PROVE  InWindow(r2, w)
  BY GeometryAssumption DEF InWindow, Before, Position

\* An element up to the maximum always fits into an empty pipe, wherever its
\* pointers stand: the reason for MAX_PIPE_ELEMENT_SIZE.
THEOREM EmptyIsNeverFull ==
  ASSUME NEW v \in Position, NEW length \in 0 .. MAX_PIPE_ELEMENT_SIZE
  PROVE  ~isFull(v, v, length)
  BY IsFullAt, MaxElement, GeometryAssumption DEF Position

-----------------------------------------------------------------------------
(* isFull and startWrite against sets of bytes.                            *)

\* The bytes startWrite lets push fill are announced by nextWriteVPtr_.
LEMMA FootprintAnnounced ==
  ASSUME NEW w \in Position, NEW length \in 0 .. MAX_PIPE_ELEMENT_SIZE
  PROVE  Footprint(w, length) \subseteq Between(w, EndAt(w, length))
<1> DEFINE h == HeaderAt(w)
           d == DataAt(w, length)
           e == EndAt(w, length)
<1>1. /\ h = IF w.ptr + SIZEOF_LENGTH > PIPE_SIZE
             THEN [lap |-> w.lap + 1, ptr |-> 0] ELSE w
      /\ d = IF h.ptr + SIZEOF_LENGTH + length > PIPE_SIZE
             THEN [lap |-> h.lap + 1, ptr |-> 0]
             ELSE [lap |-> h.lap, ptr |-> h.ptr + SIZEOF_LENGTH]
      /\ e = [lap |-> d.lap, ptr |-> d.ptr + length]
      /\ h \in Position /\ d \in Position /\ e \in Position
      /\ h.ptr + SIZEOF_LENGTH <= PIPE_SIZE
      /\ d.ptr + length <= PIPE_SIZE
  BY LayoutAt
<1>2. /\ length \in Nat /\ SIZEOF_LENGTH \in Nat \ {0} /\ PIPE_SIZE \in Nat
      /\ 2 * (length + SIZEOF_LENGTH + 1) <= PIPE_SIZE
  BY MaxElement, GeometryAssumption
<1>3. Footprint(w, length) =
        h.ptr .. (h.ptr + SIZEOF_LENGTH - 1) \cup d.ptr .. (d.ptr + length - 1)
  BY DEF Footprint, getPointer
<1>4. Between(w, e) = IF w.lap = e.lap THEN w.ptr .. (e.ptr - 1)
                      ELSE w.ptr .. (PIPE_SIZE - 1) \cup 0 .. (e.ptr - 1)
  BY DEF Between
<1> HIDE DEF h, d, e
<1>5. CASE w.ptr + SIZEOF_LENGTH > PIPE_SIZE
  BY <1>1, <1>2, <1>3, <1>4, <1>5 DEF Position, e
<1>6. CASE ~(w.ptr + SIZEOF_LENGTH > PIPE_SIZE)
  BY <1>1, <1>2, <1>3, <1>4, <1>6 DEF Position, e
<1>7. QED
  BY <1>5, <1>6

\* isFull agrees with the definition of room from sets of bytes.
LEMMA FullMeansNoFit ==
  ASSUME NEW r \in Position, NEW w \in Position, InWindow(r, w),
         NEW length \in 0 .. MAX_PIPE_ELEMENT_SIZE
  PROVE  isFull(r, w, length) <=> ~Fits(r, w, length)
<1> DEFINE S == SIZEOF_LENGTH
           P == PIPE_SIZE
           h == HeaderAt(w)
           d == DataAt(w, length)
           e == EndAt(w, length)
<1>1. /\ h = IF w.ptr + S > P THEN [lap |-> w.lap + 1, ptr |-> 0] ELSE w
      /\ d = IF h.ptr + S + length > P
             THEN [lap |-> h.lap + 1, ptr |-> 0]
             ELSE [lap |-> h.lap, ptr |-> h.ptr + S]
      /\ e = [lap |-> d.lap, ptr |-> d.ptr + length]
      /\ h \in Position /\ d \in Position /\ e \in Position
      /\ h.ptr + S <= P /\ d.ptr + length <= P
  BY LayoutAt
<1>2. length \in Nat /\ S \in Nat \ {0} /\ P \in Nat /\ 2 * (length + S + 1) <= P
  BY MaxElement, GeometryAssumption
<1>3. isFull(r, w, length) <=>
        ~ IF r.ptr > w.ptr
          THEN w.ptr + length + S < r.ptr
          ELSE IF w.ptr + S > P
               THEN length + S < r.ptr
               ELSE w.ptr + S + length > P => length < r.ptr
  BY IsFullAt
<1>4. /\ r.lap \in Nat /\ r.ptr \in 0 .. P /\ w.lap \in Nat /\ w.ptr \in 0 .. P
      /\ \/ w.lap = r.lap /\ r.ptr <= w.ptr
         \/ w.lap = r.lap + 1 /\ w.ptr < r.ptr
  BY DEF Position, InWindow
<1>5. /\ h.ptr = IF w.ptr + S > P THEN 0 ELSE w.ptr
      /\ d.ptr = IF h.ptr + S + length > P THEN 0 ELSE h.ptr + S
      /\ e.ptr = d.ptr + length
  BY <1>1
<1> DEFINE foot    == h.ptr .. (h.ptr + S - 1) \cup d.ptr .. (d.ptr + length - 1)
           unread  == IF r.lap = w.lap THEN r.ptr .. (w.ptr - 1)
                      ELSE r.ptr .. (P - 1) \cup 0 .. (w.ptr - 1)
<1>6. /\ Footprint(w, length) = foot /\ Between(r, w) = unread
      /\ getPointer(e) = e.ptr /\ getPointer(r) = r.ptr
  BY DEF Footprint, Between, getPointer
<1>7. foot \subseteq 0 .. (P - 1)
  BY <1>1, <1>2, <1>4, <1>5
<1>8. Fits(r, w, length) <=> foot \cap unread = {} /\ e.ptr # r.ptr
  BY <1>6, <1>7 DEF Fits
<1> HIDE DEF S, P, h, d, e
<1>9. ASSUME ~isFull(r, w, length)
      PROVE  foot \cap unread = {} /\ e.ptr # r.ptr
  <2>1. CASE r.ptr > w.ptr
    BY <1>2, <1>3, <1>4, <1>5, <1>9, <2>1
  <2>2. CASE r.ptr <= w.ptr /\ w.ptr + S > P
    BY <1>2, <1>3, <1>4, <1>5, <1>9, <2>2
  <2>3. CASE r.ptr <= w.ptr /\ w.ptr + S <= P
    BY <1>2, <1>3, <1>4, <1>5, <1>9, <2>3
  <2>4. QED
    BY <1>2, <1>4, <2>1, <2>2, <2>3
<1>10. ASSUME isFull(r, w, length), e.ptr # r.ptr
       PROVE  \E x \in foot : x \in unread
  <2>1. CASE r.ptr > w.ptr /\ (w.ptr + S > P \/ w.ptr + S + length > P)
    <3>1. CASE w.ptr + S > r.ptr /\ w.ptr + S <= P
      <4>1. r.ptr \in foot /\ r.ptr \in unread
        BY <1>2, <1>4, <1>5, <2>1, <3>1
      <4>2. QED
        BY <4>1
    <3>2. CASE ~(w.ptr + S > r.ptr /\ w.ptr + S <= P)
      <4>1. 0 \in foot /\ 0 \in unread
        BY <1>2, <1>4, <1>5, <2>1, <3>2
      <4>2. QED
        BY <4>1
    <3>3. QED
      BY <3>1, <3>2
  <2>2. CASE r.ptr > w.ptr /\ w.ptr + S <= P /\ w.ptr + S + length <= P
    <3>1. h.ptr = w.ptr /\ d.ptr = w.ptr + S /\ e.ptr = w.ptr + S + length
      BY <1>2, <1>4, <1>5, <2>2
    <3>2. ~(w.ptr + length + S < r.ptr)
      BY <1>3, <1>10, <2>2
    <3>3. w.ptr + S + length > r.ptr
      BY <1>2, <1>4, <1>10, <3>1, <3>2
    <3>4. r.ptr \in w.ptr .. (w.ptr + S - 1) \/ r.ptr \in (w.ptr + S) .. (w.ptr + S + length - 1)
      BY <1>2, <1>4, <2>2, <3>3
    <3>5. r.ptr \in foot
      BY <3>1, <3>4
    <3>6. r.lap # w.lap /\ r.ptr \in r.ptr .. (P - 1)
      BY <1>2, <1>4, <2>2, <3>3
    <3>7. QED
      BY <3>5, <3>6
  <2>3. CASE r.ptr <= w.ptr
    <3>1. r.ptr \in foot /\ r.ptr \in unread
      BY <1>2, <1>3, <1>4, <1>5, <1>10, <2>3
    <3>2. QED
      BY <3>1
  <2>4. QED
    BY <1>2, <1>4, <2>1, <2>2, <2>3
<1>11. QED
  BY <1>8, <1>9, <1>10

-----------------------------------------------------------------------------
(* The initial state, and what a step leaves alone.                        *)

\* The constructor leaves an empty pipe that satisfies the invariant.
LEMMA InitInv == Init => PipeInv
<1> SUFFICES ASSUME Init PROVE PipeInv
  OBVIOUS
<1>1. TypeOK
  <2>1. getVersionedPointer(0, 0) \in Position /\ Cell(0, 0, 0) \in CellType
    BY GeometryAssumption DEF Position, CellType, Cell, getVersionedPointer
  <2>2. buf \in [0 .. (PIPE_SIZE - 1) -> CellType]
    BY <2>1 DEF Init, clear
  <2>3. QED
    BY <2>1, <2>2 DEF Init, clear, TypeOK
<1>2. consumed = 0 /\ published = 0 /\ Pending = {}
  BY DEF Init, clear, consumed, published, Pending
<1>3. ContentsOK
  BY <1>1, <1>2
  DEF Init, clear, ContentsOK, InWindow, LogShape, Chain, Order, UnreadIntact, getVersionedPointer
<1>4. WriterOK
  BY DEF Init, clear, WriterOK, WritesOnlyIfRoom
<1>5. ReaderOK
  BY DEF Init, clear, ReaderOK, PopIntact
<1>6. QED
  BY <1>1, <1>3, <1>4, <1>5 DEF PipeInv

\* ContentsOK is about the pointers, the log and the bytes only.
LEMMA ContentsFrame ==
  ASSUME ContentsOK,
         UNCHANGED <<readVPtr, writeVPtr, log, buf, consumed, published>>
  PROVE  ContentsOK'
<1>1. Pending' = Pending
  BY DEF Pending
<1>2. InWindow(readVPtr, writeVPtr)'
  BY DEF ContentsOK, InWindow
<1>3. LogShape'
  BY <1>1 DEF ContentsOK, LogShape
<1>4. Chain'
  BY <1>1 DEF ContentsOK, Chain
<1>5. Order'
  BY <1>1 DEF ContentsOK, Order
<1>6. UnreadIntact'
  BY <1>1 DEF ContentsOK, UnreadIntact, Holds
<1>7. QED
  BY <1>2, <1>3, <1>4, <1>5, <1>6 DEF ContentsOK

\* The reader's steps that keep readVPtr_ do not disturb the writer.
LEMMA WriterFrame ==
  ASSUME WriterOK,
         UNCHANGED <<readVPtr, writeVPtr, nextWriteVPtr, buf, published, wpc, wlen, wblock,
                     wfull, isWriterRunning>>
  PROVE  WriterOK'
  BY DEF WriterOK, WritesOnlyIfRoom, Holds

\* The writer's steps that publish nothing do not disturb the reader.
LEMMA ReaderFrame ==
  ASSUME ReaderOK,
         UNCHANGED <<rpc, rlen, got, numRead, consumed, published, log>>
  PROVE  ReaderOK'
  BY DEF ReaderOK, PopIntact

-----------------------------------------------------------------------------
(* The writer's steps.                                                     *)

\* push enters startWrite.
LEMMA EnterInv ==
  ASSUME PipeInv, NEW length \in Nat, NEW block \in BOOLEAN, Push(length, block)
  PROVE  PipeInv'
<1> USE DEF pointers, counters, flags, call, writer, copy, reader
<1>1. UNCHANGED <<consumed, published>>
  BY DEF Push, consumed, published
<1>2. TypeOK'
  BY DEF PipeInv, TypeOK, Push
<1>3. ContentsOK'
  BY <1>1, ContentsFrame DEF PipeInv, Push
<1>4. WriterOK'
  BY MaxElement DEF Push, WriterOK, WritesOnlyIfRoom
<1>5. ReaderOK'
  BY <1>1, ReaderFrame DEF PipeInv, Push
<1>6. QED
  BY <1>2, <1>3, <1>4, <1>5 DEF PipeInv

\* push enters startWrite, or leaves it at the size check.
LEMMA PushInv ==
  ASSUME PipeInv, WriterCall PROVE PipeInv'
<1>1. PICK length \in Lengths, block \in BlockModes :
        Push(length, block) \/ PushTooLarge(length, block)
  BY DEF WriterCall
<1>2. length \in Nat /\ block \in BOOLEAN
  BY PipeAssumption
<1> USE DEF pointers, counters, flags, call, writer, copy, reader
<1>3. CASE Push(length, block)
  BY <1>2, <1>3, EnterInv
<1>4. CASE PushTooLarge(length, block)
  <2>1. UNCHANGED <<consumed, published>>
    BY <1>4 DEF PushTooLarge, consumed, published
  <2>2. TypeOK'
    BY <1>2, <1>4 DEF PipeInv, TypeOK, PushTooLarge
  <2>3. ContentsOK'
    BY <1>4, <2>1, ContentsFrame DEF PipeInv, PushTooLarge
  <2>4. WriterOK'
    BY <1>4 DEF PushTooLarge, WriterOK, WritesOnlyIfRoom
  <2>5. ReaderOK'
    BY <1>4, <2>1, ReaderFrame DEF PipeInv, PushTooLarge
  <2>6. QED
    BY <2>2, <2>3, <2>4, <2>5 DEF PipeInv
<1>5. QED
  BY <1>1, <1>3, <1>4

\* The steps of startWrite that only look.
LEMMA LookInv ==
  ASSUME PipeInv,
         WriteIsFull \/ WriteIsRunning \/ WriteInterrupted \/ WriteWouldBlock
  PROVE  PipeInv'
<1> USE DEF pointers, counters, flags, call, writer, copy, reader
<1>1. UNCHANGED <<pointers, counters, flags, buf, rpc, rlen, got, popped, log>>
  BY DEF WriteIsFull, WriteIsRunning, WriteInterrupted, WriteWouldBlock
<1>2. UNCHANGED <<consumed, published>>
  BY <1>1
  DEF WriteIsFull, WriteIsRunning, WriteInterrupted, WriteWouldBlock, consumed, published
<1>3. ContentsOK' /\ ReaderOK'
  BY <1>1, <1>2, ContentsFrame, ReaderFrame DEF PipeInv
<1>4. CASE WriteIsFull
  <2>1. wfull' = isFull(readVPtr, writeVPtr, wlen) /\ wfull' \in BOOLEAN
    BY <1>4 DEF WriteIsFull, isFull
  <2>2. TypeOK'
    BY <1>4, <2>1 DEF PipeInv, TypeOK, WriteIsFull
  <2>3. WriterOK'
    <3>1. wlen' \in 0 .. MAX_PIPE_ELEMENT_SIZE
      BY <1>4 DEF PipeInv, WriteIsFull, WriterOK
    <3>2. CASE wfull'
      <4>1. wpc' = "isRunning"
        BY <1>4, <3>2 DEF WriteIsFull
      <4>2. QED
        BY <3>1, <3>2, <4>1 DEF WriterOK, WritesOnlyIfRoom
    <3>3. CASE ~wfull'
      <4>1. wpc' = "check" /\ ~isFull(readVPtr', writeVPtr', wlen')
        BY <1>1, <1>4, <2>1, <3>3 DEF WriteIsFull
      <4>2. QED
        BY <3>1, <3>3, <4>1 DEF WriterOK, WritesOnlyIfRoom
    <3>4. QED
      BY <3>2, <3>3
  <2>4. QED
    BY <1>3, <2>2, <2>3 DEF PipeInv
<1>5. CASE WriteIsRunning
  <2>1. TypeOK'
    BY <1>5 DEF PipeInv, TypeOK, WriteIsRunning
  <2>2. WriterOK'
    BY <1>5 DEF PipeInv, TypeOK, WriteIsRunning, WriterOK, WritesOnlyIfRoom
  <2>3. QED
    BY <1>3, <2>1, <2>2 DEF PipeInv
<1>6. CASE WriteInterrupted \/ WriteWouldBlock
  <2>1. TypeOK'
    BY <1>6 DEF PipeInv, TypeOK, WriteInterrupted, WriteWouldBlock
  <2>2. WriterOK'
    BY <1>6 DEF WriteInterrupted, WriteWouldBlock, WriterOK, WritesOnlyIfRoom
  <2>3. QED
    BY <1>3, <2>1, <2>2 DEF PipeInv
<1>7. QED
  BY <1>4, <1>5, <1>6

\* startWrite stores nextWriteVPtr_ only where isFull has promised room.
LEMMA ReserveInv ==
  ASSUME PipeInv, WriteReserve PROVE PipeInv'
<1> USE DEF pointers, counters, flags, call, writer, copy, reader
<1>1. UNCHANGED <<consumed, published>>
  BY DEF WriteReserve, consumed, published
<1>2. wlen \in 0 .. MAX_PIPE_ELEMENT_SIZE /\ writeVPtr \in Position
  BY DEF PipeInv, TypeOK, WriterOK, WriteReserve
<1>3. TypeOK'
  <2>1. EndAt(writeVPtr, wlen) \in Position
    BY <1>2, LayoutAt
  <2>2. QED
    BY <2>1 DEF PipeInv, TypeOK, WriteReserve
<1>4. ContentsOK' /\ ReaderOK'
  BY <1>1, ContentsFrame, ReaderFrame DEF PipeInv, WriteReserve
<1>5. WriterOK'
  <2>1. ~wfull
    BY DEF PipeInv, WriterOK, WriteReserve
  <2>2. ~isFull(readVPtr, writeVPtr, wlen)
    BY <2>1 DEF PipeInv, WriterOK, WriteReserve
  <2>3. QED
    BY <1>2, <2>2 DEF WriteReserve, WriterOK, WritesOnlyIfRoom
<1>6. QED
  BY <1>3, <1>4, <1>5 DEF PipeInv

\* Byte i of an unread element is in buf_ and not among n free bytes from y.
LEMMA ByteNotFree ==
  ASSUME NEW r \in Position, NEW w \in Position, InWindow(r, w),
         NEW v \in Position, NEW length \in 0 .. MAX_PIPE_ELEMENT_SIZE,
         Before(r, v), Before(EndAt(v, length), w),
         NEW y \in Nat, NEW n \in Nat, OffArc(r, w, y, n),
         NEW i \in AllBytes(length)
  PROVE  /\ ByteAt(Layout(v, length), i) \in 0 .. (PIPE_SIZE - 1)
         /\ ByteAt(Layout(v, length), i) \notin y .. (y + n - 1)
<1> DEFINE h == HeaderAt(v)
           d == DataAt(v, length)
<1>1. /\ h \in Position /\ h.ptr + SIZEOF_LENGTH <= PIPE_SIZE
      /\ d \in Position /\ d.ptr + length <= PIPE_SIZE
  BY LayoutAt
<1>2. InArc(r, w, h.ptr, SIZEOF_LENGTH) /\ InArc(r, w, d.ptr, length)
  BY UnreadInArc
<1>3. length \in Nat /\ SIZEOF_LENGTH \in Nat /\ PIPE_SIZE \in Nat
  BY MaxElement, GeometryAssumption
<1>4. ByteAt(Layout(v, length), i) =
        IF i < SIZEOF_LENGTH THEN h.ptr + i ELSE d.ptr + (i - SIZEOF_LENGTH)
  BY DEF ByteAt, Layout, getPointer
<1> HIDE DEF h, d
<1>5. CASE i < SIZEOF_LENGTH
  BY <1>1, <1>2, <1>3, <1>4, <1>5 DEF AllBytes, InArc, OffArc, InWindow, Position
<1>6. CASE i >= SIZEOF_LENGTH
  BY <1>1, <1>2, <1>3, <1>4, <1>6 DEF AllBytes, InArc, OffArc, InWindow, Position
<1>7. QED
  BY <1>3, <1>5, <1>6 DEF AllBytes

\* Writing free bytes leaves every unread element as it is.
LEMMA FreeWriteKeepsContents ==
  ASSUME TypeOK, ContentsOK,
         UNCHANGED <<readVPtr, writeVPtr, log, consumed, published>>,
         NEW y \in Nat, NEW n \in Nat, OffArc(readVPtr, writeVPtr, y, n),
         \A p \in (0 .. (PIPE_SIZE - 1)) \ (y .. (y + n - 1)) : buf'[p] = buf[p]
  PROVE  ContentsOK'
<1>1. Pending' = Pending
  BY DEF Pending
<1>2. InWindow(readVPtr, writeVPtr)' /\ LogShape' /\ Chain' /\ Order'
  BY <1>1 DEF ContentsOK, InWindow, LogShape, Chain, Order
<1>3. UnreadIntact'
  <2>1. SUFFICES ASSUME NEW k \in Pending, NEW i \in AllBytes(log[k].len)
                 PROVE  buf'[ByteAt(log[k], i)] = Cell(k, i, log[k].len)
    BY <1>1 DEF UnreadIntact, Holds
  <2> DEFINE v == log[k].start
             len == log[k].len
  <2>2. /\ v \in Position /\ len \in 0 .. MAX_PIPE_ELEMENT_SIZE
        /\ log[k] = Layout(v, len)
    BY DEF ContentsOK, LogShape
  <2>3. Before(readVPtr, v) /\ Before(EndAt(v, len), writeVPtr)
    <3>1. log[k].end = EndAt(v, len)
      BY <2>2 DEF Layout
    <3>2. QED
      BY <3>1 DEF ContentsOK, Order
  <2>4. /\ readVPtr \in Position /\ writeVPtr \in Position
        /\ InWindow(readVPtr, writeVPtr)
    BY DEF TypeOK, ContentsOK
  <2>5. /\ ByteAt(Layout(v, len), i) \in 0 .. (PIPE_SIZE - 1)
        /\ ByteAt(Layout(v, len), i) \notin y .. (y + n - 1)
    BY <2>2, <2>3, <2>4, ByteNotFree
  <2>6. buf'[ByteAt(log[k], i)] = buf[ByteAt(log[k], i)]
    BY <2>2, <2>5
  <2>7. QED
    BY <2>6 DEF ContentsOK, UnreadIntact, Holds
<1>4. QED
  BY <1>2, <1>3 DEF ContentsOK

\* The data of an element do not overlap its own header.
LEMMA DataOffHeader ==
  ASSUME NEW v \in Position, NEW length \in 0 .. MAX_PIPE_ELEMENT_SIZE
  PROVE  LET h == HeaderAt(v)
             d == DataAt(v, length)
         IN  d.ptr = h.ptr + SIZEOF_LENGTH \/ d.ptr + length <= h.ptr
<1> DEFINE h == HeaderAt(v)
           d == DataAt(v, length)
<1>1. /\ d = IF h.ptr + SIZEOF_LENGTH + length > PIPE_SIZE
             THEN [lap |-> h.lap + 1, ptr |-> 0]
             ELSE [lap |-> h.lap, ptr |-> h.ptr + SIZEOF_LENGTH]
      /\ h \in Position
  BY LayoutAt
<1>2. /\ length \in Nat /\ SIZEOF_LENGTH \in Nat /\ PIPE_SIZE \in Nat
      /\ 2 * (length + SIZEOF_LENGTH + 1) <= PIPE_SIZE
  BY MaxElement, GeometryAssumption
<1> HIDE DEF h, d
<1>3. d.ptr = h.ptr + SIZEOF_LENGTH \/ d.ptr + length <= h.ptr
  BY <1>1, <1>2 DEF Position
<1>4. QED
  BY <1>3 DEF h, d

\* The header is copied to free bytes: no unread byte changes.
LEMMA HeaderInv ==
  ASSUME PipeInv, WriteHeader PROVE PipeInv'
<1> USE DEF pointers, counters, flags, call, writer, copy, reader
<1> DEFINE h == HeaderAt(writeVPtr).ptr
           l == Layout(writeVPtr, wlen)
<1>1. UNCHANGED <<consumed, published>> /\ published = numWritten
  BY DEF WriteHeader, consumed, published
<1>2. /\ wlen \in 0 .. MAX_PIPE_ELEMENT_SIZE /\ ~isFull(readVPtr, writeVPtr, wlen)
      /\ readVPtr \in Position /\ writeVPtr \in Position
      /\ InWindow(readVPtr, writeVPtr) /\ numWritten \in Nat
  BY DEF PipeInv, TypeOK, WriterOK, WritesOnlyIfRoom, WriteHeader, ContentsOK
<1>3. h \in Nat /\ h + SIZEOF_LENGTH <= PIPE_SIZE /\ SIZEOF_LENGTH \in Nat /\ PIPE_SIZE \in Nat
  BY <1>2, LayoutAt, GeometryAssumption DEF Position
<1>4. OffArc(readVPtr, writeVPtr, h, SIZEOF_LENGTH)
  BY <1>2, RoomIsOffArc
<1>5. buf' = [p \in 0 .. (PIPE_SIZE - 1) |->
                IF p \in h .. (h + SIZEOF_LENGTH - 1)
                THEN Cell(numWritten + 1, p - h, wlen) ELSE buf[p]]
  BY DEF WriteHeader, getPointer, PipeInv, TypeOK
<1> HIDE DEF h
<1>6. TypeOK'
  <2>1. \A p \in h .. (h + SIZEOF_LENGTH - 1) : Cell(numWritten + 1, p - h, wlen) \in CellType
    BY <1>2, <1>3, MaxElement DEF Cell, CellType
  <2>2. buf' \in [0 .. (PIPE_SIZE - 1) -> CellType]
    BY <1>5, <2>1 DEF PipeInv, TypeOK
  <2>3. QED
    BY <2>2 DEF PipeInv, TypeOK, WriteHeader
<1>7. ContentsOK'
  <2>1. \A p \in (0 .. (PIPE_SIZE - 1)) \ (h .. (h + SIZEOF_LENGTH - 1)) : buf'[p] = buf[p]
    BY <1>5
  <2>2. UNCHANGED <<readVPtr, writeVPtr, log>>
    BY DEF WriteHeader
  <2>3. QED
    BY <1>1, <1>3, <1>4, <2>1, <2>2, FreeWriteKeepsContents DEF PipeInv
<1>8. WriterOK'
  <2>1. ASSUME NEW i \in HeaderBytes
        PROVE  buf'[ByteAt(l, i)] = Cell(published + 1, i, l.len)
    <3>1. ByteAt(l, i) = h + i /\ l.len = wlen
      BY <1>3 DEF ByteAt, Layout, HeaderBytes, getPointer, h
    <3>2. h + i \in h .. (h + SIZEOF_LENGTH - 1) /\ h + i \in 0 .. (PIPE_SIZE - 1)
          /\ (h + i) - h = i
      BY <1>3 DEF HeaderBytes
    <3>3. QED
      BY <1>1, <1>5, <3>1, <3>2
  <2>2. Holds(published + 1, l, HeaderBytes)'
    BY <1>1, <2>1 DEF Holds, WriteHeader
  <2>3. QED
    BY <2>2 DEF PipeInv, WriterOK, WritesOnlyIfRoom, WriteHeader
<1>9. ReaderOK'
  BY <1>1, ReaderFrame DEF PipeInv, WriteHeader
<1>10. QED
  BY <1>6, <1>7, <1>8, <1>9 DEF PipeInv

\* The data are copied to free bytes: no unread byte changes.
LEMMA DataInv ==
  ASSUME PipeInv, WriteData PROVE PipeInv'
<1> USE DEF pointers, counters, flags, call, writer, copy, reader
<1> DEFINE h == HeaderAt(writeVPtr).ptr
           d == DataAt(writeVPtr, wlen).ptr
           l == Layout(writeVPtr, wlen)
<1>1. UNCHANGED <<consumed, published>> /\ published = numWritten
  BY DEF WriteData, consumed, published
<1>2. /\ wlen \in 0 .. MAX_PIPE_ELEMENT_SIZE /\ ~isFull(readVPtr, writeVPtr, wlen)
      /\ readVPtr \in Position /\ writeVPtr \in Position
      /\ InWindow(readVPtr, writeVPtr) /\ numWritten \in Nat
  BY DEF PipeInv, TypeOK, WriterOK, WritesOnlyIfRoom, WriteData, ContentsOK
<1>3. /\ h \in Nat /\ h + SIZEOF_LENGTH <= PIPE_SIZE
      /\ d \in Nat /\ d + wlen <= PIPE_SIZE
      /\ SIZEOF_LENGTH \in Nat /\ PIPE_SIZE \in Nat /\ wlen \in Nat
  BY <1>2, LayoutAt, MaxElement, GeometryAssumption DEF Position
<1>4. OffArc(readVPtr, writeVPtr, d, wlen)
  BY <1>2, RoomIsOffArc
<1>5. buf' = [p \in 0 .. (PIPE_SIZE - 1) |->
                IF p \in d .. (d + wlen - 1)
                THEN Cell(numWritten + 1, SIZEOF_LENGTH + (p - d), wlen) ELSE buf[p]]
  BY DEF WriteData, getPointer, PipeInv, TypeOK
<1>6. d = h + SIZEOF_LENGTH \/ d + wlen <= h
  BY <1>2, DataOffHeader
<1>7. TypeOK'
  <2>1. \A p \in d .. (d + wlen - 1) :
          Cell(numWritten + 1, SIZEOF_LENGTH + (p - d), wlen) \in CellType
    BY <1>2, <1>3 DEF Cell, CellType
  <2>2. buf' \in [0 .. (PIPE_SIZE - 1) -> CellType]
    BY <1>5, <2>1 DEF PipeInv, TypeOK
  <2>3. QED
    BY <2>2 DEF PipeInv, TypeOK, WriteData
<1>8. ContentsOK'
  <2>1. \A p \in (0 .. (PIPE_SIZE - 1)) \ (d .. (d + wlen - 1)) : buf'[p] = buf[p]
    BY <1>5
  <2>2. UNCHANGED <<readVPtr, writeVPtr, log>>
    BY DEF WriteData
  <2>3. QED
    BY <1>1, <1>3, <1>4, <2>1, <2>2, FreeWriteKeepsContents DEF PipeInv
<1>9. WriterOK'
  <2> HIDE DEF h, d
  <2>1. ASSUME NEW i \in HeaderBytes
        PROVE  buf'[ByteAt(l, i)] = Cell(published + 1, i, l.len)
    <3>1. ByteAt(l, i) = h + i
      BY <1>3 DEF ByteAt, Layout, HeaderBytes, getPointer, h
    <3>2. h + i \notin d .. (d + wlen - 1) /\ h + i \in 0 .. (PIPE_SIZE - 1)
      BY <1>3, <1>6 DEF HeaderBytes
    <3>3. buf[ByteAt(l, i)] = Cell(published + 1, i, l.len)
      BY DEF PipeInv, WriterOK, WriteData, Holds
    <3>4. QED
      BY <1>5, <3>1, <3>2, <3>3
  <2>2. ASSUME NEW i \in DataBytes(wlen)
        PROVE  buf'[ByteAt(l, i)] = Cell(published + 1, i, l.len)
    <3>1. ByteAt(l, i) = d + (i - SIZEOF_LENGTH) /\ l.len = wlen
      BY <1>3 DEF ByteAt, Layout, DataBytes, getPointer, d
    <3>2. /\ d + (i - SIZEOF_LENGTH) \in d .. (d + wlen - 1)
          /\ d + (i - SIZEOF_LENGTH) \in 0 .. (PIPE_SIZE - 1)
          /\ SIZEOF_LENGTH + ((d + (i - SIZEOF_LENGTH)) - d) = i
      BY <1>3 DEF DataBytes
    <3>3. QED
      BY <1>1, <1>5, <3>1, <3>2
  <2>3. Holds(published + 1, l, HeaderBytes)' /\ Holds(published + 1, l, DataBytes(wlen))'
    BY <1>1, <2>1, <2>2 DEF Holds, WriteData
  <2>4. QED
    BY <2>3 DEF PipeInv, WriterOK, WritesOnlyIfRoom, WriteData
<1>10. ReaderOK'
  BY <1>1, ReaderFrame DEF PipeInv, WriteData
<1>11. QED
  BY <1>7, <1>8, <1>9, <1>10 DEF PipeInv

\* numWritten_++ publishes nothing yet.
LEMMA CountInv ==
  ASSUME PipeInv, WriteCount PROVE PipeInv'
<1> USE DEF pointers, counters, flags, call, writer, copy, reader
<1>0. numWritten \in Nat /\ numWritten' = numWritten + 1 /\ numWritten' \in Nat
  <2>1. numWritten \in Nat /\ numWritten' = numWritten + 1
    BY DEF WriteCount, PipeInv, TypeOK
  <2>2. QED
    BY <2>1
<1>1. UNCHANGED <<consumed, published>>
  <2>1. wpc = "count" /\ wpc' = "publish" /\ UNCHANGED <<rpc, numRead>>
    BY DEF WriteCount
  <2>2. QED
    BY <1>0, <2>1 DEF consumed, published
<1>2. TypeOK'
  <2>1. wpc' = "publish" /\ UNCHANGED <<pointers, numRead, numFailedWrites, flags, buf, call,
                                         wfull, reader, log>>
    BY DEF WriteCount
  <2>2. QED
    BY <1>0, <2>1 DEF PipeInv, TypeOK
<1>3. ContentsOK'
  BY <1>1, ContentsFrame DEF PipeInv, WriteCount
<1>4. WriterOK'
  BY <1>1 DEF PipeInv, WriterOK, WritesOnlyIfRoom, WriteCount, Holds
<1>5. ReaderOK'
  BY <1>1, ReaderFrame DEF PipeInv, WriteCount
<1>6. QED
  BY <1>2, <1>3, <1>4, <1>5 DEF PipeInv

\* The order of positions is transitive.
LEMMA BeforeTransitive ==
  ASSUME NEW u \in Position, NEW v \in Position, NEW w \in Position,
         Before(u, v), Before(v, w)
  PROVE  Before(u, w)
  BY DEF Before, Position

\* What an unread element's log entry is.
LEMMA LogEntry ==
  ASSUME ContentsOK, NEW k \in Pending
  PROVE  /\ log[k].start \in Position
         /\ log[k].len \in 0 .. MAX_PIPE_ELEMENT_SIZE
         /\ log[k] = Layout(log[k].start, log[k].len)
         /\ log[k].end = EndAt(log[k].start, log[k].len)
         /\ log[k].end \in Position
         /\ Before(log[k].start, log[k].end)
<1>1. /\ log[k].start \in Position
      /\ log[k].len \in 0 .. MAX_PIPE_ELEMENT_SIZE
      /\ log[k] = Layout(log[k].start, log[k].len)
  BY DEF ContentsOK, LogShape
<1>2. log[k].end = EndAt(log[k].start, log[k].len)
  BY <1>1 DEF Layout
<1>3. QED
  BY <1>1, <1>2, LayoutAt, LayoutOrder

\* finishWrite appends one whole element to the chain.
LEMMA PublishInv ==
  ASSUME PipeInv, WritePublish PROVE PipeInv'
<1> USE DEF pointers, counters, flags, call, writer, copy, reader
<1> DEFINE new == Layout(writeVPtr, wlen)
           w2  == EndAt(writeVPtr, wlen)
           n   == published + 1
<1>1. /\ consumed' = consumed /\ published' = n /\ numWritten = n
      /\ consumed \in Nat /\ published \in Nat /\ consumed <= published
  <2>1. consumed \in Nat /\ published \in Nat /\ consumed <= published /\ numWritten \in Nat
    BY DEF PipeInv, TypeOK, ContentsOK, LogShape
  <2>2. wpc = "publish" /\ wpc' = "idle" /\ UNCHANGED <<rpc, numRead, numWritten>>
    BY DEF WritePublish
  <2>3. published = numWritten - 1 /\ published' = numWritten /\ consumed' = consumed
    BY <2>2 DEF consumed, published
  <2>4. QED
    BY <2>1, <2>3
<1>2. Pending' = Pending \cup {n} /\ n \notin Pending /\ \A k \in Pending : k < n
  BY <1>1 DEF Pending
<1>3. /\ wlen \in 0 .. MAX_PIPE_ELEMENT_SIZE /\ ~isFull(readVPtr, writeVPtr, wlen)
      /\ readVPtr \in Position /\ writeVPtr \in Position
      /\ InWindow(readVPtr, writeVPtr) /\ writeVPtr' = w2 /\ readVPtr' = readVPtr
  BY DEF PipeInv, TypeOK, WriterOK, WritesOnlyIfRoom, WritePublish, ContentsOK
<1>4. w2 \in Position /\ Before(writeVPtr, w2) /\ InWindow(readVPtr, w2)
  BY <1>3, LayoutAt, LayoutOrder, RoomIsOffArc
<1>5. Before(readVPtr, writeVPtr)
  BY <1>3 DEF InWindow, Before, Position
<1>6. /\ log' = [k \in Pending' |-> IF k = n THEN new ELSE log[k]]
      /\ log'[n] = new
      /\ \A k \in Pending : log'[k] = log[k]
  BY <1>1, <1>2 DEF WritePublish, PipeInv, ContentsOK, LogShape
<1>7. new.start = writeVPtr /\ new.len = wlen /\ new.end = w2
  BY DEF Layout
<1>8. TypeOK'
  BY <1>3, <1>4 DEF PipeInv, TypeOK, WritePublish
<1> HIDE DEF new, w2, n
<1>9. ContentsOK'
  <2>1. InWindow(readVPtr, writeVPtr)'
    BY <1>3, <1>4
  <2>2. LogShape'
    <3>1. DOMAIN log' = Pending'
      BY <1>6
    <3>2. consumed' \in Nat /\ published' \in Nat /\ consumed' <= published'
      BY <1>1 DEF n
    <3>3. ASSUME NEW k \in Pending'
          PROVE  /\ log'[k].start \in Position
                 /\ log'[k].len \in 0 .. MAX_PIPE_ELEMENT_SIZE
                 /\ log'[k] = Layout(log'[k].start, log'[k].len)
      <4>1. CASE k \in Pending
        BY <1>6, <4>1, LogEntry DEF PipeInv
      <4>2. CASE k = n
        BY <1>3, <1>6, <1>7, <4>2 DEF new
      <4>3. QED
        BY <1>2, <4>1, <4>2
    <3>4. QED
      BY <3>1, <3>2, <3>3 DEF LogShape
  <2>3. Chain'
    <3>1. log'[published'].end = writeVPtr'
      BY <1>1, <1>3, <1>6, <1>7
    <3>2. consumed' < published' /\ log'[consumed' + 1].start = readVPtr'
      <4>1. CASE consumed = published
        BY <1>1, <1>3, <1>6, <1>7, <4>1 DEF PipeInv, ContentsOK, Chain, n
      <4>2. CASE consumed < published
        <5>1. consumed + 1 \in Pending
          BY <1>1, <4>2 DEF Pending
        <5>2. QED
          BY <1>1, <1>3, <1>6, <4>2, <5>1 DEF PipeInv, ContentsOK, Chain, n
      <4>3. QED
        BY <1>1, <4>1, <4>2
    <3>3. ASSUME NEW k \in Pending', k + 1 \in Pending'
          PROVE  log'[k + 1].start = log'[k].end
      <4>1. k \in Pending
        BY <1>1, <3>3 DEF Pending, n
      <4>2. CASE k + 1 \in Pending
        BY <1>6, <4>1, <4>2 DEF PipeInv, ContentsOK, Chain
      <4>3. CASE k + 1 = n
        <5>1. k = published /\ consumed < published
          BY <1>1, <4>1, <4>3 DEF Pending, n
        <5>2. QED
          BY <1>6, <1>7, <4>1, <4>3, <5>1 DEF PipeInv, ContentsOK, Chain
      <4>4. QED
        BY <1>2, <3>3, <4>2, <4>3
    <3>4. QED
      <4>1. consumed' # published'
        BY <1>1, <3>2 DEF n
      <4>2. QED
        BY <3>1, <3>2, <3>3, <4>1 DEF Chain
  <2>4. Order'
    <3>1. ASSUME NEW k \in Pending'
          PROVE  Before(readVPtr', log'[k].start) /\ Before(log'[k].end, writeVPtr')
      <4>1. CASE k \in Pending
        <5>1. Before(readVPtr, log[k].start) /\ Before(log[k].end, writeVPtr)
          BY <4>1 DEF PipeInv, ContentsOK, Order
        <5>2. Before(log[k].end, w2)
          BY <1>3, <1>4, <4>1, <5>1, LogEntry, BeforeTransitive DEF PipeInv
        <5>3. QED
          BY <1>3, <1>6, <4>1, <5>1, <5>2
      <4>2. CASE k = n
        <5>1. Before(w2, w2)
          BY <1>4 DEF Before, Position
        <5>2. QED
          BY <1>3, <1>5, <1>6, <1>7, <4>2, <5>1
      <4>3. QED
        BY <1>2, <4>1, <4>2
    <3>2. ASSUME NEW j \in Pending', NEW k \in Pending', j < k
          PROVE  Before(log'[j].end, log'[k].start)
      <4>1. j \in Pending
        BY <1>1, <3>2 DEF Pending, n
      <4>2. CASE k \in Pending
        BY <1>6, <3>2, <4>1, <4>2 DEF PipeInv, ContentsOK, Order
      <4>3. CASE k = n
        BY <1>6, <1>7, <4>1, <4>3 DEF PipeInv, ContentsOK, Order
      <4>4. QED
        BY <1>2, <4>2, <4>3
    <3>3. QED
      BY <3>1, <3>2 DEF Order
  <2>5. UnreadIntact'
    <3>1. ASSUME NEW k \in Pending', NEW i \in AllBytes(log'[k].len)
          PROVE  buf[ByteAt(log'[k], i)] = Cell(k, i, log'[k].len)
      <4>1. CASE k \in Pending
        BY <1>6, <3>1, <4>1 DEF PipeInv, ContentsOK, UnreadIntact, Holds
      <4>2. CASE k = n
        <5>1. i \in HeaderBytes \/ i \in DataBytes(wlen)
          BY <1>3, <1>6, <1>7, <3>1, <4>2, MaxElement, GeometryAssumption
          DEF AllBytes, HeaderBytes, DataBytes
        <5>2. buf[ByteAt(new, i)] = Cell(n, i, new.len)
          BY <5>1 DEF PipeInv, WriterOK, WritePublish, Holds, new, n
        <5>3. QED
          BY <1>6, <4>2, <5>2
      <4>3. QED
        BY <1>2, <4>1, <4>2
    <3>2. buf' = buf
      BY DEF WritePublish
    <3>3. QED
      BY <3>1, <3>2 DEF UnreadIntact, Holds
  <2>6. QED
    BY <2>1, <2>2, <2>3, <2>4, <2>5 DEF ContentsOK
<1>10. WriterOK'
  BY DEF WritePublish, WriterOK, WritesOnlyIfRoom
<1>11. ReaderOK'
  <2>1. UNCHANGED <<rpc, rlen, got, numRead>>
    BY DEF WritePublish
  <2>2. PopIntact'
    BY <2>1 DEF PipeInv, ReaderOK, PopIntact
  <2>3. rpc \in {"data", "release"} =>
          consumed' < published' /\ rlen' = log'[consumed' + 1].len
    <3>1. SUFFICES ASSUME rpc \in {"data", "release"}
                   PROVE  consumed' < published' /\ rlen' = log'[consumed' + 1].len
      OBVIOUS
    <3>2. consumed < published /\ rlen = log[consumed + 1].len
      BY <3>1 DEF PipeInv, ReaderOK
    <3>3. consumed + 1 \in Pending /\ consumed < n
      BY <1>1, <3>2 DEF Pending, n
    <3>4. QED
      BY <1>1, <1>6, <2>1, <3>2, <3>3
  <2>4. QED
    BY <2>1, <2>2, <2>3 DEF PipeInv, ReaderOK
<1>12. QED
  BY <1>8, <1>9, <1>10, <1>11 DEF PipeInv

-----------------------------------------------------------------------------
(* The reader's steps.                                                     *)

\* The steps of pop, wait and read that only look.
LEMMA WaitInv ==
  ASSUME PipeInv,
         Pop \/ WaitIsEmpty \/ WaitIsRunning
  PROVE  PipeInv'
<1> USE DEF pointers, counters, flags, call, writer, copy, reader
<1>1. /\ UNCHANGED <<pointers, counters, flags, buf, writer, copy, log>>
      /\ rpc \in {"idle", "isEmpty", "isRunning", "check"}
      /\ rpc' \in {"idle", "isEmpty", "isRunning", "check"}
  BY DEF Pop, WaitIsEmpty, WaitIsRunning
<1>2. UNCHANGED <<consumed, published>>
  BY <1>1 DEF consumed, published
<1>3. TypeOK'
  BY <1>1 DEF PipeInv, TypeOK
<1>4. ContentsOK' /\ WriterOK'
  BY <1>1, <1>2, ContentsFrame, WriterFrame DEF PipeInv
<1>5. ReaderOK'
  BY <1>1 DEF ReaderOK, PopIntact
<1>6. QED
  BY <1>3, <1>4, <1>5 DEF PipeInv

\* The oldest unread element, when there is one.
LEMMA OldestEntry ==
  ASSUME ContentsOK, consumed < published
  PROVE  /\ consumed + 1 \in Pending
         /\ log[consumed + 1].start = readVPtr
         /\ log[consumed + 1] = Layout(readVPtr, log[consumed + 1].len)
<1>1. consumed + 1 \in Pending
  BY DEF ContentsOK, LogShape, Pending
<1>2. log[consumed + 1].start = readVPtr
  BY DEF ContentsOK, Chain
<1>3. QED
  BY <1>1, <1>2, LogEntry

\* read finds the header of the oldest unread element.
LEMMA ReadHeaderInv ==
  ASSUME PipeInv, ReadHeader PROVE PipeInv'
<1> USE DEF pointers, counters, flags, call, writer, copy, reader
<1> DEFINE k   == consumed + 1
           len == log[k].len
           h   == HeaderAt(readVPtr).ptr
<1>1. /\ UNCHANGED <<consumed, published>> /\ consumed = numRead
      /\ consumed \in Nat /\ published \in Nat /\ consumed <= published
  BY DEF ReadHeader, consumed, published, PipeInv, ContentsOK, LogShape
<1>2. consumed < published
  <2>1. readVPtr # writeVPtr
    BY DEF ReadHeader, isEmpty, SameVPtr
  <2>2. QED
    BY <1>1, <2>1 DEF PipeInv, ContentsOK, Chain
<1>3. k \in Pending /\ log[k] = Layout(readVPtr, len) /\ len \in 0 .. MAX_PIPE_ELEMENT_SIZE
  BY <1>2, OldestEntry, LogEntry DEF PipeInv
<1>4. readVPtr \in Position /\ len \in Nat /\ SIZEOF_LENGTH \in Nat \ {0}
  <2>1. readVPtr \in Position
    BY DEF PipeInv, TypeOK
  <2>2. len \in Nat
    BY <1>3, MaxElement
  <2>3. QED
    BY <2>1, <2>2, GeometryAssumption
<1>5. h \in Nat
  BY <1>3, <1>4, LayoutAt DEF Position
<1>6. ASSUME NEW i \in HeaderBytes
      PROVE  buf[h + i] = Cell(k, i, len)
  <2>1. ByteAt(log[k], i) = h + i
    BY <1>3, <1>4 DEF ByteAt, Layout, HeaderBytes, getPointer
  <2>2. i \in AllBytes(len)
    BY <1>4 DEF HeaderBytes, AllBytes
  <2>3. QED
    BY <1>3, <2>1, <2>2 DEF PipeInv, ContentsOK, UnreadIntact, Holds
<1>7. rlen' = len
  <2>1. 0 \in HeaderBytes /\ h + 0 = h
    BY <1>4, <1>5 DEF HeaderBytes
  <2>2. buf[h] = Cell(k, 0, len)
    BY <1>6, <2>1
  <2>3. QED
    BY <2>2 DEF ReadHeader, getPointer, Cell
<1>8. got' = [i \in HeaderBytes |-> Cell(numRead + 1, i, len)]
  <2>1. got' = [i \in HeaderBytes |-> buf[h + i]]
    BY DEF ReadHeader, getPointer
  <2>2. QED
    BY <1>1, <1>6, <2>1
<1> HIDE DEF k, len, h
<1>9. TypeOK'
  BY <1>4, <1>7 DEF PipeInv, TypeOK, ReadHeader
<1>10. ContentsOK' /\ WriterOK'
  BY <1>1, ContentsFrame, WriterFrame DEF PipeInv, ReadHeader
<1>11. ReaderOK'
  <2>1. rpc' = "data" /\ UNCHANGED <<numRead, log>>
    BY DEF ReadHeader
  <2>2. QED
    BY <1>1, <1>2, <1>7, <1>8, <2>1 DEF ReaderOK, PopIntact, k, len
<1>12. QED
  BY <1>9, <1>10, <1>11 DEF PipeInv

\* read copies the data of that element and of no other.
LEMMA ReadDataInv ==
  ASSUME PipeInv, ReadData PROVE PipeInv'
<1> USE DEF pointers, counters, flags, call, writer, copy, reader
<1> DEFINE k == consumed + 1
<1>1. UNCHANGED <<consumed, published>> /\ consumed = numRead
  BY DEF ReadData, consumed, published
<1>2. /\ consumed < published /\ rlen = log[k].len
      /\ got = [i \in HeaderBytes |-> Cell(k, i, rlen)]
  BY <1>1 DEF PipeInv, ReaderOK, ReadData
<1>3. k \in Pending /\ log[k] = Layout(readVPtr, rlen)
  BY <1>2, OldestEntry DEF PipeInv
<1>4. \A i \in AllBytes(rlen) : buf[ByteAt(log[k], i)] = Cell(k, i, rlen)
  BY <1>2, <1>3 DEF PipeInv, ContentsOK, UnreadIntact, Holds
<1>5. got' = [i \in AllBytes(rlen) |-> Cell(numRead + 1, i, rlen)]
  <2>1. got' = [i \in AllBytes(rlen) |->
                  IF i \in HeaderBytes THEN got[i] ELSE buf[ByteAt(log[k], i)]]
    BY <1>3 DEF ReadData
  <2>2. ASSUME NEW i \in AllBytes(rlen)
        PROVE  (IF i \in HeaderBytes THEN got[i] ELSE buf[ByteAt(log[k], i)])
                 = Cell(numRead + 1, i, rlen)
    BY <1>1, <1>2, <1>4
  <2>3. QED
    BY <2>1, <2>2
<1>6. TypeOK'
  BY DEF PipeInv, TypeOK, ReadData
<1>7. ContentsOK' /\ WriterOK'
  BY <1>1, ContentsFrame, WriterFrame DEF PipeInv, ReadData
<1>8. ReaderOK'
  <2>1. rpc' = "release" /\ UNCHANGED <<numRead, log, rlen>>
    BY DEF ReadData
  <2>2. QED
    BY <1>1, <1>2, <1>5, <2>1 DEF ReaderOK, PopIntact
<1>9. QED
  BY <1>6, <1>7, <1>8 DEF PipeInv

\* read takes the oldest element off the chain; the writer's room stays.
LEMMA ReleaseInv ==
  ASSUME PipeInv, ReadRelease PROVE PipeInv'
<1> USE DEF pointers, counters, flags, call, writer, copy, reader
<1> DEFINE k  == consumed + 1
           r2 == log[k].end
<1>1. /\ consumed' = k /\ published' = published /\ consumed = numRead
      /\ consumed \in Nat /\ published \in Nat
  <2>1. rpc = "release" /\ rpc' = "count" /\ UNCHANGED <<numRead, numWritten, wpc>>
    BY DEF ReadRelease
  <2>2. QED
    BY <2>1 DEF consumed, published, PipeInv, ContentsOK, LogShape
<1>2. consumed < published /\ rlen = log[k].len
  BY DEF PipeInv, ReaderOK, ReadRelease
<1>3. /\ k \in Pending /\ log[k].start = readVPtr /\ r2 \in Position
      /\ r2 = EndAt(readVPtr, rlen) /\ Before(readVPtr, r2)
  BY <1>2, OldestEntry, LogEntry DEF PipeInv
<1>4. /\ readVPtr \in Position /\ writeVPtr \in Position
      /\ InWindow(readVPtr, writeVPtr) /\ Before(r2, writeVPtr)
  BY <1>3 DEF PipeInv, TypeOK, ContentsOK, Order
<1>5. InWindow(r2, writeVPtr)
  BY <1>3, <1>4, WindowShrinks
<1>6. readVPtr' = r2 /\ writeVPtr' = writeVPtr /\ buf' = buf
  BY <1>3 DEF ReadRelease
<1>7. Pending' = Pending \ {k} /\ \A j \in Pending' : j \in Pending /\ k < j
  BY <1>1, <1>2 DEF Pending
<1>8. log' = [j \in Pending' |-> log[j]]
  BY <1>1, <1>7 DEF ReadRelease, PipeInv, ContentsOK, LogShape
<1>9. TypeOK'
  BY <1>3, <1>6 DEF PipeInv, TypeOK, ReadRelease
<1> HIDE DEF k, r2
<1>10. ContentsOK'
  <2>1. InWindow(readVPtr, writeVPtr)'
    BY <1>5, <1>6
  <2>2. LogShape'
    <3>1. consumed' \in Nat /\ published' \in Nat /\ consumed' <= published'
      BY <1>1, <1>2 DEF k
    <3>2. DOMAIN log' = Pending'
      BY <1>8
    <3>3. ASSUME NEW j \in Pending'
          PROVE  /\ log'[j].start \in Position
                 /\ log'[j].len \in 0 .. MAX_PIPE_ELEMENT_SIZE
                 /\ log'[j] = Layout(log'[j].start, log'[j].len)
      BY <1>7, <1>8, LogEntry DEF PipeInv
    <3>4. QED
      BY <3>1, <3>2, <3>3 DEF LogShape
  <2>3. Chain'
    <3>1. consumed' = published' => readVPtr' = writeVPtr'
      BY <1>1, <1>2, <1>6 DEF PipeInv, ContentsOK, Chain, r2
    <3>2. ASSUME consumed' < published'
          PROVE  /\ log'[consumed' + 1].start = readVPtr'
                 /\ log'[published'].end = writeVPtr'
      <4>1. k + 1 \in Pending' /\ published \in Pending' /\ k + 1 \in Pending
        BY <1>1, <3>2 DEF Pending, k
      <4>2. log[k + 1].start = r2
        BY <1>3, <4>1 DEF PipeInv, ContentsOK, Chain, r2
      <4>3. QED
        BY <1>1, <1>2, <1>6, <1>8, <4>1, <4>2 DEF PipeInv, ContentsOK, Chain
    <3>3. ASSUME NEW j \in Pending', j + 1 \in Pending'
          PROVE  log'[j + 1].start = log'[j].end
      BY <1>7, <1>8, <3>3 DEF PipeInv, ContentsOK, Chain
    <3>4. QED
      BY <3>1, <3>2, <3>3 DEF Chain
  <2>4. Order'
    <3>1. ASSUME NEW j \in Pending'
          PROVE  Before(readVPtr', log'[j].start) /\ Before(log'[j].end, writeVPtr')
      BY <1>3, <1>6, <1>7, <1>8 DEF PipeInv, ContentsOK, Order, r2
    <3>2. ASSUME NEW i \in Pending', NEW j \in Pending', i < j
          PROVE  Before(log'[i].end, log'[j].start)
      BY <1>7, <1>8, <3>2 DEF PipeInv, ContentsOK, Order
    <3>3. QED
      BY <3>1, <3>2 DEF Order
  <2>5. UnreadIntact'
    BY <1>6, <1>7, <1>8 DEF PipeInv, ContentsOK, UnreadIntact, Holds
  <2>6. QED
    BY <2>1, <2>2, <2>3, <2>4, <2>5 DEF ContentsOK
<1>11. WriterOK'
  <2>1. UNCHANGED <<wpc, wlen, wblock, wfull, isWriterRunning, nextWriteVPtr>>
    BY DEF ReadRelease
  <2>2. ASSUME wlen \in 0 .. MAX_PIPE_ELEMENT_SIZE, ~isFull(readVPtr, writeVPtr, wlen)
        PROVE  ~isFull(r2, writeVPtr, wlen)
    BY <1>3, <1>4, <1>5, <2>2, RoomStable
  <2>3. (wpc = "check" /\ ~wfull) => ~isFull(r2, writeVPtr, wlen)
    BY <2>2 DEF PipeInv, WriterOK
  <2>4. wpc \in {"header", "data", "count", "publish"} => ~isFull(r2, writeVPtr, wlen)
    BY <2>2 DEF PipeInv, WriterOK, WritesOnlyIfRoom
  <2>5. QED
    BY <1>1, <1>6, <2>1, <2>3, <2>4 DEF PipeInv, WriterOK, WritesOnlyIfRoom, Holds
<1>12. ReaderOK'
  <2>1. rpc = "release" /\ rpc' = "count" /\ UNCHANGED <<numRead, rlen, got>>
    BY DEF ReadRelease
  <2>2. QED
    BY <2>1 DEF PipeInv, ReaderOK, PopIntact
<1>13. QED
  BY <1>9, <1>10, <1>11, <1>12 DEF PipeInv

\* numRead_++ releases nothing more.
LEMMA ReadCountInv ==
  ASSUME PipeInv, ReadCount PROVE PipeInv'
<1> USE DEF pointers, counters, flags, call, writer, copy, reader
<1>1. numRead \in Nat /\ numRead' = numRead + 1 /\ numRead' \in Nat /\ rlen \in Nat
  <2>1. numRead \in Nat /\ numRead' = numRead + 1 /\ rlen \in Nat
    BY DEF ReadCount, PipeInv, TypeOK
  <2>2. QED
    BY <2>1
<1>2. rpc = "count" /\ rpc' = "idle" /\ UNCHANGED <<wpc, numWritten>>
  BY DEF ReadCount
<1>3. UNCHANGED <<consumed, published>>
  BY <1>1, <1>2 DEF consumed, published
<1>4. popped' \in CellType
  <2>1. got = [i \in AllBytes(rlen) |-> Cell(numRead + 1, i, rlen)]
    BY <1>2 DEF PipeInv, ReaderOK, PopIntact
  <2>2. 0 \in AllBytes(rlen)
    BY <1>1, GeometryAssumption DEF AllBytes
  <2>3. got[0] = Cell(numRead + 1, 0, rlen)
    BY <2>1, <2>2
  <2>4. QED
    BY <1>1, <2>3 DEF ReadCount, Cell, CellType
<1>5. TypeOK'
  <2>1. UNCHANGED <<pointers, numWritten, numFailedWrites, flags, buf, writer, rlen, log>>
    BY DEF ReadCount
  <2>2. QED
    BY <1>1, <1>2, <1>4, <2>1 DEF PipeInv, TypeOK
<1>6. ContentsOK' /\ WriterOK'
  BY <1>3, ContentsFrame, WriterFrame DEF PipeInv, ReadCount
<1>7. ReaderOK'
  BY <1>2 DEF ReaderOK, PopIntact
<1>8. QED
  BY <1>5, <1>6, <1>7 DEF PipeInv

-----------------------------------------------------------------------------
(* The control thread's steps.                                             *)

\* Starting and stopping the two sides moves no pointer and no byte.
LEMMA ControlInv ==
  ASSUME PipeInv, ControlStep PROVE PipeInv'
<1> USE DEF pointers, counters, flags, call, writer, copy, reader
<1>1. UNCHANGED <<pointers, counters, buf, writer, reader, log>>
  BY DEF ControlStep, StopWriter, StartWriter, StartReader
<1>2. UNCHANGED <<consumed, published>>
  BY <1>1 DEF consumed, published
<1>3. isReaderRunning' \in BOOLEAN /\ isWriterRunning' \in BOOLEAN
  BY DEF ControlStep, StopWriter, StartWriter, StartReader, PipeInv, TypeOK
<1>4. TypeOK'
  BY <1>1, <1>3 DEF PipeInv, TypeOK
<1>5. ContentsOK' /\ ReaderOK'
  BY <1>1, <1>2, ContentsFrame, ReaderFrame DEF PipeInv
<1>6. WriterOK'
  <2>1. (wpc = "check" /\ wfull /\ wblock) => ~isWriterRunning'
    BY DEF ControlStep, StopWriter, StartWriter, StartReader, PipeInv, WriterOK
  <2>2. QED
    BY <1>1, <1>2, <2>1 DEF PipeInv, WriterOK, WritesOnlyIfRoom, Holds
<1>7. QED
  BY <1>4, <1>5, <1>6 DEF PipeInv

-----------------------------------------------------------------------------
(* The theorems.                                                           *)

\* Every step of every thread preserves the invariant.
LEMMA StepInv == PipeInv /\ [Next]_vars => PipeInv'
<1> SUFFICES ASSUME PipeInv, [Next]_vars PROVE PipeInv'
  OBVIOUS
<1>1. CASE WriterCall
  BY <1>1, PushInv
<1>2. CASE WriterStep
  BY <1>2, LookInv, ReserveInv, HeaderInv, DataInv, CountInv, PublishInv DEF WriterStep
<1>3. CASE ReaderStep
  BY <1>3, WaitInv, ReadHeaderInv, ReadDataInv, ReleaseInv, ReadCountInv DEF ReaderStep
<1>4. CASE ControlStep
  BY <1>4, ControlInv
<1>5. CASE UNCHANGED vars
  <2>a. /\ UNCHANGED <<readVPtr, writeVPtr, nextWriteVPtr, numRead, numWritten, numFailedWrites>>
        /\ UNCHANGED <<isReaderRunning, isWriterRunning, buf, wpc, wlen, wblock, wfull, wret>>
        /\ UNCHANGED <<rpc, rlen, got, popped, log>>
    BY <1>5, Zenon DEF vars, pointers, counters, flags, call, writer, copy, reader
  <2>1. UNCHANGED <<consumed, published>>
    BY <2>a DEF consumed, published
  <2>2. TypeOK'
    BY <2>a DEF PipeInv, TypeOK
  <2>3. ContentsOK' /\ WriterOK' /\ ReaderOK'
    BY <2>a, <2>1, ContentsFrame, WriterFrame, ReaderFrame DEF PipeInv
  <2>4. QED
    BY <2>2, <2>3 DEF PipeInv
<1>6. QED
  BY <1>1, <1>2, <1>3, <1>4, <1>5 DEF Next

\* The inductive invariant holds in every reachable state.
THEOREM PipeInvariance == Spec => []PipeInv
  BY InitInv, StepInv, PTL DEF Spec

\* Types, and no pointer outside the buffer.
THEOREM TypeCorrect == Spec => []TypeOK
<1>1. PipeInv => TypeOK
  BY DEF PipeInv
<1>2. QED
  BY <1>1, PipeInvariance, PTL

\* A push never overwrites unread data.
THEOREM UnreadDataSafe == Spec => []UnreadIntact
<1>1. PipeInv => UnreadIntact
  BY DEF PipeInv, ContentsOK
<1>2. QED
  BY <1>1, PipeInvariance, PTL

\* A pop hands out whole elements, in order, none lost or repeated.
THEOREM PopSafe == Spec => []PopIntact
<1>1. PipeInv => PopIntact
  BY DEF PipeInv, ReaderOK
<1>2. QED
  BY <1>1, PipeInvariance, PTL

\* While a push writes, what it writes has room.
THEOREM RoomForWrites == Spec => []WritesOnlyIfRoom
<1>1. PipeInv => WritesOnlyIfRoom
  BY DEF PipeInv, WriterOK
<1>2. QED
  BY <1>1, PipeInvariance, PTL

\* isFull says no exactly when there is room, in every reachable state.
THEOREM FullIsExact == Spec => []IsFullExact
<1>1. PipeInv => IsFullExact
  BY FullMeansNoFit DEF PipeInv, TypeOK, ContentsOK, IsFullExact
<1>2. QED
  BY <1>1, PipeInvariance, PTL

\* A push changes only bytes that nextWriteVPtr_ has announced.
THEOREM WritesAreAnnounced == Spec => WritesAnnounced
<1> DEFINE Announced ==
      \A p \in DOMAIN buf : buf'[p] # buf[p] => p \in Between(writeVPtr, nextWriteVPtr)
<1>1. ASSUME PipeInv, [Next]_vars PROVE [Announced]_vars
  <2> USE DEF pointers, counters, flags, call, writer, copy, reader
  <2>1. CASE WriteHeader \/ WriteData
    <3>1. /\ writeVPtr \in Position /\ wlen \in 0 .. MAX_PIPE_ELEMENT_SIZE
          /\ nextWriteVPtr = EndAt(writeVPtr, wlen)
      BY <1>1, <2>1 DEF PipeInv, TypeOK, WriterOK, WriteHeader, WriteData
    <3>2. ASSUME NEW p \in DOMAIN buf, buf'[p] # buf[p]
          PROVE  p \in Footprint(writeVPtr, wlen)
      BY <2>1, <3>2 DEF WriteHeader, WriteData, Footprint
    <3>3. QED
      BY <3>1, <3>2, FootprintAnnounced
  <2>2. CASE ~(WriteHeader \/ WriteData)
    <3>1. buf' = buf
      BY <1>1, <2>2 DEF Next, vars, WriterCall, WriterStep, ReaderStep, ControlStep, Push,
           PushTooLarge, WriteIsFull, WriteIsRunning, WriteInterrupted, WriteWouldBlock,
           WriteReserve, WriteCount, WritePublish, Pop, WaitIsEmpty, WaitIsRunning,
           ReadHeader, ReadData, ReadRelease, ReadCount,
           StopWriter, StartWriter, StartReader
    <3>2. QED
      BY <3>1
  <2>3. QED
    BY <2>1, <2>2
<1>2. QED
  BY <1>1, PipeInvariance, PTL DEF Spec, WritesAnnounced
=============================================================================
