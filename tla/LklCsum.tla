------------------------------ MODULE LklCsum -------------------------------
(***************************************************************************)
(* arch/lkl/lib/checksum.c and include/asm/checksum.h: the Internet        *)
(* checksum.  The widths are parameters, as the number of values a type    *)
(* has: Byte (256), for a u16 its square Half, for an int and a __wsum     *)
(* the square of that, Word, and for an unsigned long the same or, where   *)
(* BITS_PER_LONG is 64, Word * Word.  A block of memory is a sequence of   *)
(* bytes, little endian.                                                   *)
(***************************************************************************)
EXTENDS Integers, Sequences

CONSTANTS Byte, Long,
          MaxBytes     \* bound: the length of a block

VARIABLES buff, sum    \* what csum_partial is called with

args == <<buff, sum>>

Half == Byte * Byte                   \* 0x10000
Word == Half * Half                   \* 2^32
Bytes == 0 .. Byte - 1

\* With its checksum a block has at most 64 kB: IP counts lengths in 16 bits.
ASSUME WidthAssumption ==
    /\ Byte \in Nat \ {0} /\ Byte % 2 = 0
    /\ Long \in {Word, Word * Word}
    /\ MaxBytes \in Nat /\ MaxBytes + 2 <= Half

\* Conversion to int and to unsigned long
Int32(x) == ((x + Word \div 2) % Word) - Word \div 2
ULong(x) == x % Long

\* Mutant: the carry of the first addition is not added up.
FoldOnce(x) == ((x % Half) + (x \div Half)) % Half

\* from32to16: two rounds, then truncated to unsigned short
from32to16(x) ==
    LET y == (x % Half) + (x \div Half)
        z == (y % Half) + (y \div Half)
    IN  z % Half

\* Mutant: the odd byte at the end is not added.
EvenWord(b, i) == IF i < Len(b) THEN b[i] + Byte * b[i + 1] ELSE 0

\* *(u16*)buff, or the last byte of an odd length, at offset i - 1
u16(b, i) == IF i < Len(b) THEN b[i] + Byte * b[i + 1] ELSE b[i]

\* The sums of the first k elements of q, and of all of them
Partial(q) ==
    LET t[k \in 0 .. Len(q)] == IF k = 0 THEN 0 ELSE t[k - 1] + q[k] IN t
SumOf(q) == Partial(q)[Len(q)]

\* What the loop of csum_partial adds: one u16 for every second offset.
Words(b) == [k \in 1 .. (Len(b) + 1) \div 2 |-> u16(b, 2 * k - 1)]
Total(b) == SumOf(Words(b))

\* csum_partial: `int sum' is passed on as unsigned long.
csum_partial(b, s) == from32to16(ULong(Int32(s + Total(b))))

\* csum_fold: the same two rounds on a u32, complemented
csum_fold(s) == Half - 1 - from32to16(s)

ip_compute_csum(b) == Half - 1 - csum_partial(b, 0)
ip_fast_csum(iph) == csum_fold(csum_partial(iph, 0))

-----------------------------------------------------------------------------
(* The calls: a block that grows byte by byte, from one of the sums in S.  *)

CallInit(S) == buff = <<>> /\ sum \in S

CallNext ==
    /\ Len(buff) < MaxBytes
    /\ \E b \in Bytes : buff' = Append(buff, b)
    /\ UNCHANGED sum

-----------------------------------------------------------------------------
(* Properties. *)

\* The number the bytes of a block stand for in the sum.
Weights(b) == [i \in 1 .. Len(b) |-> IF i % 2 = 1 THEN b[i] ELSE Byte * b[i]]
Value(b) == SumOf(Weights(b))

\* `int sum' does not overflow.
Fits == sum + Value(buff) < Word \div 2

(* RFC 1071 for checksum.c: what the sender stores makes the receiver's    *)
(* sum over the block and the checksum come out as zero, whatever carries  *)
(* the words produce, and ip_compute_csum agrees with ip_fast_csum.        *)
ChecksumVerifies ==
    Len(buff) % 2 = 0 =>
        LET c == ip_fast_csum(buff) IN
        /\ ip_fast_csum(buff \o <<c % Byte, c \div Byte>>) = 0
        /\ ip_compute_csum(buff) = c

(* checksum.c: "returns a 32-bit number suitable for feeding into itself". *)
(* A block cut at any even length gives the sum of the whole block, odd    *)
(* last byte included, and the result is the ones' complement sum, up to   *)
(* the sums that just fit an int.                                          *)
CsumFeeds ==
    Fits =>
        LET r == csum_partial(buff, sum) IN
        /\ r % (Half - 1) = (sum + Value(buff)) % (Half - 1)
        /\ \A n \in {k \in 0 .. Len(buff) : k % 2 = 0} :
               csum_partial(SubSeq(buff, n + 1, Len(buff)),
                            csum_partial(SubSeq(buff, 1, n), sum)) = r

(* checksum.c: csum_partial "computes the checksum of a memory block at    *)
(* buff, length len, and adds in "sum" (32-bit)", for every 32-bit sum.    *)
AddsInSum ==
    buff # <<>> =>
    csum_partial(buff, sum) % (Half - 1) = (sum + Value(buff)) % (Half - 1)
=============================================================================
