------------------------------ MODULE Pktline ------------------------------
(***************************************************************************)
(* Package pktline.  A pkt-line is its length in Width digits, the digits  *)
(* themselves counted, and its payload; a flush-pkt has length zero.  A    *)
(* byte stands for the value that readLineLen takes it for as a digit (any *)
(* byte that is no hexadecimal digit counts as zero).                      *)
(***************************************************************************)
EXTENDS Integers, Sequences

CONSTANTS
    Base,            \* the number of digits, 16
    MaxPayloadLen    \* 65520

Width == 4

ASSUME PktlineAssumption ==
    /\ Base \in Nat \ {0, 1}
    /\ MaxPayloadLen \in Nat
    /\ MaxPayloadLen + Width < Base * Base * Base * Base

-----------------------------------------------------------------------------
(* The Writer.                                                             *)

Digits(x) ==
    <<(x \div (Base * Base * Base)) % Base, (x \div (Base * Base)) % Base,
      (x \div Base) % Base, x % Base>>

LenDigits(x) == Digits(x + Width)

FlushPkt == Digits(0)

(* (As it would be if a line of any length were written.)                  *)
WriteLineUnbounded(s) == LenDigits(Len(s)) \o s

(* WriteLine refuses a line that is too long and writes nothing of it.     *)
WriteLine(s) == IF Len(s) > MaxPayloadLen THEN << >> ELSE LenDigits(Len(s)) \o s

-----------------------------------------------------------------------------
(* The Reader: what one ReadLine returns from a stream and what it leaves. *)

LineLen(p) == ((p[1] * Base + p[2]) * Base + p[3]) * Base + p[4] - Width

Line(s, err, rest) == [line |-> s, err |-> err, rest |-> rest]

(* Lengths below Width are read as a flush-pkt.                            *)
ReadLine(stream) ==
    LET n == LineLen(SubSeq(stream, 1, Width))
        payload == SubSeq(stream, Width + 1, Width + n)
    IN  IF Len(stream) < Width
        THEN Line(<< >>, "ErrUnexpectedEOF", << >>)
        ELSE IF n < 0
        THEN Line(<< >>, "EOF", SubSeq(stream, Width + 1, Len(stream)))
        ELSE IF Len(stream) < Width + n
        THEN Line(SubSeq(stream, Width + 1, Len(stream)), "ErrUnexpectedEOF", << >>)
        ELSE Line(payload, "nil", SubSeq(stream, Width + n + 1, Len(stream)))
=============================================================================
