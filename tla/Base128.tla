------------------------------ MODULE Base128 ------------------------------
(***************************************************************************)
(* The numbers of a packfile (packfile/base128.go) and its object headers  *)
(* (packfile/object.go).  A number is a string of bytes of GroupBits bits  *)
(* each and a bit that says whether more follow: little-endian, which is   *)
(* left to encoding/binary, or "modified big-endian".  A word has WordBits *)
(* bits, one more than some number of groups hold.                         *)
(***************************************************************************)
EXTENDS Integers, Sequences, FiniteSetsExt

CONSTANTS
    WordBits,     \* 64
    GroupBits,    \* 7
    TypeBits,     \* bits for the type in an object header, 3
    LowBits       \* bits of the size that come before the type, 4

ASSUME Base128Assumption ==
    /\ GroupBits \in Nat \ {0}
    /\ WordBits \in Nat /\ WordBits > GroupBits
    /\ TypeBits \in Nat /\ LowBits \in Nat /\ TypeBits + LowBits < WordBits

Power[k \in Nat] == IF k = 0 THEN 1 ELSE 2 * Power[k - 1]

Words == Power[WordBits]
Groups == Power[GroupBits]

MaxLen == (WordBits + GroupBits - 1) \div GroupBits    \* MaxVarintLen64

Byte == [low : 0..(Groups - 1), more : BOOLEAN]

-----------------------------------------------------------------------------
(* Writing.                                                                *)

WithMore(lows) ==
    [k \in DOMAIN lows |-> [low |-> lows[k], more |-> k < Len(lows)]]

LEGroups[y \in Nat] ==
    IF y < Groups THEN <<y>> ELSE <<y % Groups>> \o LEGroups[y \div Groups]

(* The bytes are made from the last one; one is subtracted at each of the  *)
(* others.                                                                 *)
MBEGroups[y \in Nat] ==
    IF y < Groups THEN <<y>> ELSE Append(MBEGroups[y \div Groups - 1], y % Groups)

WriteLE(y) == WithMore(LEGroups[y])

WriteMBE(y) == WithMore(MBEGroups[y])

-----------------------------------------------------------------------------
(* Reading the number at the front of the bytes s: its value, how many     *)
(* bytes were read, and the error.                                         *)

Number(x, n, err) == [x |-> x, n |-> n, err |-> err]

(* binary.ReadUvarint: whether byte b fits when n were read before it.     *)
Fits(n, b) ==
    \/ n < MaxLen - 1
    \/ n = MaxLen - 1 /\ ~ b.more /\ b.low < Power[WordBits - GroupBits * n]

(* x[n] is the value of the first n bytes, and after the n-th no more are  *)
(* read unless they go on.                                                 *)
ReadLE(s) ==
    LET x[n \in 0..Len(s)] ==
          IF n = 0 THEN 0 ELSE x[n - 1] + s[n].low * Power[GroupBits * (n - 1)]
        last == Min({n \in 0..Len(s) :
                        n < Len(s) => ~ (Fits(n, s[n + 1]) /\ s[n + 1].more)})
    IN  IF last = Len(s) THEN Number(x[last], last, "EOF")
        ELSE IF ~ Fits(last, s[last + 1]) THEN Number(x[last], last + 1, "overflow")
        ELSE Number(x[last + 1], last + 1, "nil")

(* (As it would be if x were compared with 1<<57 and not with 1<<57-1.)    *)
TooLargeByOne(x) == x >= Words \div Groups

(* Whether no number that goes on after x fits, which is looked at before  *)
(* the next byte is read.                                                  *)
TooLarge(x) == x >= Words \div Groups - 1

ReadMBE(s) ==
    LET x[n \in 0..Len(s)] ==
          IF n = 0 THEN 0
          ELSE ((IF n = 1 THEN 0 ELSE x[n - 1] + 1) * Groups + s[n].low) % Words
        full(n) == n > 0 /\ TooLarge(x[n])
        last == Min({n \in 0..Len(s) : n < Len(s) => full(n) \/ ~ s[n + 1].more})
    IN  IF full(last) THEN Number(x[last], last, "overflow")
        ELSE IF last = Len(s) THEN Number(x[last], last, "EOF")
        ELSE Number(x[last + 1], last + 1, "nil")

-----------------------------------------------------------------------------
(* Object headers: the type lies between the low bits of the size and the  *)
(* others.                                                                 *)

Lows == Power[LowBits]
Types == Power[TypeBits]

(* writeObjHeader refuses larger sizes.                                    *)
MaxSize == Power[WordBits - TypeBits] - 1

Header(type, size) ==
    (size - (size % Lows)) * Types + type * Lows + (size % Lows)

HeaderType(h) == (h \div Lows) % Types

HeaderSize(h) == LET s == h \div Types IN (s - (s % Lows)) + (h % Lows)
=============================================================================
