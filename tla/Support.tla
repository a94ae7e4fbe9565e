------------------------------ MODULE Support ------------------------------
(***************************************************************************)
(* Helpers of lockless_pipe: the bit functions of Utility.h, the           *)
(* bounded message of StreamingException.h and the text Errno.hh puts      *)
(* into it.                                                                *)
(***************************************************************************)
EXTENDS Integers, Sequences

CONSTANTS
  BitNumbers,  \* bits the bit functions are called with
  Bytes,       \* bytes of the bitmap
  SIZE,        \* sizeof(message_)
  Texts,       \* texts given to operator<<; characters are numbers, 0 is NUL
  MaxAppends   \* bound: calls of operator<<

ASSUME SupportAssumption ==
  /\ Bytes \in Nat /\ BitNumbers \subseteq 0 .. (8 * Bytes - 1)
  /\ MaxAppends \in Nat
  /\ SIZE \in Nat \ {0} /\ Texts \subseteq Seq(Nat \ {0})

VARIABLES
  bytes, bits,        \* the memory; ghost: the set of bits set in it
  message,            \* message_
  has_extra,          \* Errno: has_extra_
  said, appends       \* ghost: all that was appended; how often

bitmap      == <<bytes, bits>>
exception   == <<message, has_extra, said, appends>>
supportVars == <<bitmap, exception>>

-----------------------------------------------------------------------------
(* Bits, left to right.                                                    *)

Mask(nr)      == 128 \div 2^(nr % 8)
Has(b, m)     == (b \div m) % 2 = 1
Or(b, m)      == IF Has(b, m) THEN b ELSE b + m
AndNot(b, m)  == IF Has(b, m) THEN b - m ELSE b

test_bit(nr) == Has(bytes[nr \div 8], Mask(nr))

\* Mutant: bits are counted from the right.
set_bit_right(nr) ==
  /\ bytes' = [bytes EXCEPT ![nr \div 8] = Or(@, 2^(nr % 8))]
  /\ bits' = bits \cup {nr}
  /\ UNCHANGED exception

set_bit(nr) ==
  /\ bytes' = [bytes EXCEPT ![nr \div 8] = Or(@, Mask(nr))]
  /\ bits' = bits \cup {nr}
  /\ UNCHANGED exception

\* *p = (*p & ~mask) | (-set & mask)
set_bit_to(nr, set) ==
  /\ bytes' = [bytes EXCEPT ![nr \div 8] =
                 IF set THEN Or(AndNot(@, Mask(nr)), Mask(nr)) ELSE AndNot(@, Mask(nr))]
  /\ bits' = IF set THEN bits \cup {nr} ELSE bits \ {nr}
  /\ UNCHANGED exception

clr_bit(nr) ==
  /\ bytes' = [bytes EXCEPT ![nr \div 8] = AndNot(@, Mask(nr))]
  /\ bits' = bits \ {nr}
  /\ UNCHANGED exception

-----------------------------------------------------------------------------
(* The message.  message_ is a function on 0 .. SIZE - 1.                  *)

strlen(m) == CHOOSE n \in DOMAIN m : m[n] = 0 /\ \A j \in 0 .. (n - 1) : m[j] # 0

\* strncpy(m + from, text, SIZE - from): pads with NULs.
strncpy(m, from, text) ==
  [j \in DOMAIN m |-> IF j < from THEN m[j]
                      ELSE IF j - from < Len(text) THEN text[j - from + 1] ELSE 0]

\* Mutant: the last byte is not set.
StreamUnterminated(m, text) == strncpy(m, strlen(m), text)

\* StreamingException::operator<<
Stream(m, text) == [strncpy(m, strlen(m), text) EXCEPT ![SIZE - 1] = 0]

NoMessage  == [j \in 0 .. (SIZE - 1) |-> 0]
when       == <<1, 2>>   \* " when "
unexpected == <<3, 4, 5>> \* what the catch block appends
strerror   == <<6>>

\* A formatting that throws is replaced by the text of the catch block.
Formatted(text) == {text, unexpected}

\* Errno(v): strerror(errno_), then *this << v.  has_extra_ is set before the
\* inner *this << " when ", which would recur otherwise.
Append1(text) ==
  /\ appends < MaxAppends
  /\ \E w \in IF has_extra THEN {<<>>} ELSE Formatted(when), v \in Formatted(text) :
       /\ message' = Stream(Stream(message, w), v)
       /\ said' = said \o w \o v
  /\ has_extra' = TRUE /\ appends' = appends + 1
  /\ UNCHANGED bitmap

SupportInit ==
  /\ bytes = [b \in 0 .. (Bytes - 1) |-> 0] /\ bits = {}
  /\ message = Stream(NoMessage, strerror) /\ said = strerror
  /\ has_extra = FALSE /\ appends = 0

BitNext ==
  \E nr \in BitNumbers :
    set_bit(nr) \/ clr_bit(nr) \/ \E set \in BOOLEAN : set_bit_to(nr, set)

MessageNext == \E text \in Texts : Append1(text)

SupportSpec == SupportInit /\ [][BitNext \/ MessageNext]_supportVars

-----------------------------------------------------------------------------
\* "Network-endian bit-set (left to right)": after any calls, bit nr of the
\* memory is set if it was set last and clear if not, for every bit, those
\* the calls did not name included; read as a number, byte 0 holds bit 0 in
\* its most significant place.
BitmapIsSet ==
  /\ \A nr \in 0 .. (8 * Bytes - 1) : test_bit(nr) <=> nr \in bits
  /\ 0 \in bits => bytes[0] >= 128

\* what() is the beginning of all that was appended, as much of it as fits,
\* with " when " once, and it always ends with a NUL.
MessageIsPrefix ==
  /\ message[SIZE - 1] = 0
  /\ [j \in 1 .. strlen(message) |-> message[j - 1]] =
       SubSeq(said, 1, IF Len(said) < SIZE THEN Len(said) ELSE SIZE - 1)
=============================================================================
