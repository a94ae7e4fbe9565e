---------------------------- MODULE PipeGeometry ----------------------------
(***************************************************************************)
(* Where LocklessPipe puts an element: the arithmetic on pointers that     *)
(* isFull, isWrap and startWrite share.  Everything here is a function of  *)
(* its arguments; LocklessPipe.tla has the state.                          *)
(*                                                                         *)
(* A position in the pipe is the 64-bit VersionedPointerType: the upper    *)
(* half counts how often the pointer went back to 0, the lower half is the *)
(* index into buf_.  It is modelled as a record [lap, ptr] whose lap never *)
(* wraps; all the program sees of the lap is getVersion, lap modulo the    *)
(* number of versions.                                                     *)
(***************************************************************************)
EXTENDS Integers

CONSTANTS
  PIPE_SIZE,      \* template parameter: bytes in buf_
  SIZEOF_LENGTH,  \* sizeof(uint32_t): the header in front of every element
  WORD,           \* 2^32: the values of a uint32_t pointer or length
  VERSIONS        \* 2^32: the values of the version half of a pointer

\* What the template parameter must satisfy: MAX_PIPE_ELEMENT_SIZE does not
\* go below 0, and the sum of a pointer, a header and the longest element is
\* still a uint32_t.  The code checks neither.
ASSUME GeometryAssumption ==
  /\ PIPE_SIZE \in Nat
  /\ SIZEOF_LENGTH \in Nat \ {0}
  /\ WORD \in Nat
  /\ VERSIONS \in Nat \ {0, 1}
  /\ SIZEOF_LENGTH + 1 <= PIPE_SIZE \div 2
  /\ PIPE_SIZE + PIPE_SIZE \div 2 <= WORD

-----------------------------------------------------------------------------
\* uint32_t addition.
Plus(a, b) == (a + b) % WORD

\* Mutant: an element may take the whole pipe, not half of it.
WholePipeElementSize == (PIPE_SIZE - (SIZEOF_LENGTH + 1)) % WORD

MAX_PIPE_ELEMENT_SIZE == (PIPE_SIZE \div 2 - (SIZEOF_LENGTH + 1)) % WORD

getVersionedPointer(version, pointer) == [lap |-> version, ptr |-> pointer]

getVersion(v) == v.lap % VERSIONS

getPointer(v) == v.ptr

\* Equality of two 64-bit versioned pointers.
SameVPtr(v1, v2) ==
  getVersion(v1) = getVersion(v2) /\ getPointer(v1) = getPointer(v2)

\* Mutant: a pointer may end up one byte past the end of the buffer.
isWrapLate(length, ptr) == Plus(ptr, length) > PIPE_SIZE + 1

isWrap(length, ptr) == Plus(ptr, length) > PIPE_SIZE

-----------------------------------------------------------------------------
(* startWrite: the header goes to the pointer, or to 0 if it would not fit *)
(* before the end; the data follow the header, or go to 0 likewise.        *)

HeaderAt(v) ==
  IF isWrap(SIZEOF_LENGTH, getPointer(v))
  THEN getVersionedPointer(v.lap + 1, 0)
  ELSE v

DataAt(v, length) ==
  LET h == HeaderAt(v)
      p == Plus(getPointer(h), SIZEOF_LENGTH)
  IN  IF isWrap(length, p)
      THEN getVersionedPointer(h.lap + 1, 0)
      ELSE getVersionedPointer(h.lap, p)

EndAt(v, length) ==
  LET d == DataAt(v, length)
  IN  getVersionedPointer(d.lap, Plus(getPointer(d), length))

\* Mutant: the strict comparison that keeps a wrapped write pointer from
\* catching up with the read pointer is weakened.
isFullNotStrict(r, w, length) ==
  LET need == Plus(length, SIZEOF_LENGTH)
  IN  ~ IF getPointer(r) > getPointer(w)
        THEN Plus(getPointer(w), need) <= getPointer(r)
        ELSE IF isWrap(SIZEOF_LENGTH, getPointer(w))
             THEN need <= getPointer(r)
             ELSE isWrap(length, Plus(getPointer(w), SIZEOF_LENGTH))
                    => length <= getPointer(r)

\* Mutant: the header is not counted when the writer is behind the reader.
isFullNoHeader(r, w, length) ==
  LET need == Plus(length, SIZEOF_LENGTH)
  IN  ~ IF getPointer(r) > getPointer(w)
        THEN Plus(getPointer(w), length) < getPointer(r)
        ELSE IF isWrap(SIZEOF_LENGTH, getPointer(w))
             THEN need < getPointer(r)
             ELSE isWrap(length, Plus(getPointer(w), SIZEOF_LENGTH))
                    => length < getPointer(r)

\* Mutant: one byte too much is asked for when the writer is behind the reader.
isFullSlack(r, w, length) ==
  LET need == Plus(length, SIZEOF_LENGTH)
  IN  ~ IF getPointer(r) > getPointer(w)
        THEN Plus(getPointer(w), need) < getPointer(r) - 1
        ELSE IF isWrap(SIZEOF_LENGTH, getPointer(w))
             THEN need < getPointer(r)
             ELSE isWrap(length, Plus(getPointer(w), SIZEOF_LENGTH))
                    => length < getPointer(r)

\* isFull(length) when readVPtr_ is r and writeVPtr_ is w.
isFull(r, w, length) ==
  LET need == Plus(length, SIZEOF_LENGTH)
  IN  ~ IF getPointer(r) > getPointer(w)
        THEN Plus(getPointer(w), need) < getPointer(r)
        ELSE IF isWrap(SIZEOF_LENGTH, getPointer(w))
             THEN need < getPointer(r)
             ELSE isWrap(length, Plus(getPointer(w), SIZEOF_LENGTH))
                    => length < getPointer(r)

isEmpty(r, w) == SameVPtr(r, w)

-----------------------------------------------------------------------------
(* A reference definition of "there is no room", from the bytes alone.     *)

\* The bytes of buf_ between two positions at most one lap apart.
Between(v1, v2) ==
  IF v1.lap = v2.lap
  THEN v1.ptr .. (v2.ptr - 1)
  ELSE v1.ptr .. (PIPE_SIZE - 1) \cup 0 .. (v2.ptr - 1)

\* The bytes an element of this length takes when the write pointer is w.
Footprint(w, length) ==
  LET h == getPointer(HeaderAt(w))
      d == getPointer(DataAt(w, length))
  IN  h .. (h + SIZEOF_LENGTH - 1) \cup d .. (d + length - 1)

\* The element lands inside the buffer, on no unread byte, and does not make
\* a pipe with data look empty.
Fits(r, w, length) ==
  /\ Footprint(w, length) \subseteq 0 .. (PIPE_SIZE - 1)
  /\ Footprint(w, length) \cap Between(r, w) = {}
  /\ getPointer(EndAt(w, length)) # getPointer(r)
=============================================================================
