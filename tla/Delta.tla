------------------------------- MODULE Delta -------------------------------
(***************************************************************************)
(* Packfile deltas (packfile/delta.go): computeDelta describes one byte    *)
(* string as a change of another, and applyDelta undoes it.                *)
(*                                                                         *)
(* The two lengths at the head of a delta are kept as numbers, or as None  *)
(* where base128LE cannot read them (their encoding is that of Base128),   *)
(* and an instruction is a record: the bits of its opcode, which are its   *)
(* number for an insert and its mask for a copy, and the bytes that        *)
(* follow.  A delta that is received may break off in its last             *)
(* instruction and ask for anything.                                       *)
(*                                                                         *)
(* A run either computes a delta and applies it, or applies one received.  *)
(***************************************************************************)
EXTENDS Integers, Sequences, FiniteSetsExt

CONSTANTS
    Base,           \* the number of values of a byte, 256
    MaxCopyOff, MaxCopyLen, MaxInsertLen,
    MinCopyLen,     \* matches of this length are not copied, 6
    Junk,           \* a byte that belongs to neither base nor delta
    Strings,        \* the byte strings to compute deltas of
    Received        \* received: [base, baseLen, resultLen, delta]

Byte == 0..(Base - 1)

None == -1

Offsets == 4       \* bits of the mask for bytes of the offset
Lengths == 3       \* bits of the mask for bytes of the length

(* What a byte counts for at the place k of a number.                      *)
Weight[k \in 0..Offsets] == IF k = 0 THEN 1 ELSE Base * Weight[k - 1]

ASSUME DeltaAssumption ==
    /\ Base \in Nat \ {0, 1}
    /\ MaxInsertLen \in Nat \ {0, 1}
    /\ MinCopyLen \in 1..(MaxInsertLen - 1)
    /\ MaxCopyLen \in MaxInsertLen..(Weight[Lengths] - 1)
    /\ MaxCopyOff \in MaxInsertLen..(Weight[Offsets] - 1)
    /\ Junk \notin Byte
    /\ Strings \subseteq Seq(Byte)

Insert == [op : {"insert"}, n : Nat, bytes : Seq(Byte)]

Copy == [op : {"copy"}, mask : SUBSET (0..(Offsets + Lengths - 1)), bytes : Seq(Byte)]

Instruction == Insert \cup Copy

VARIABLES
    base, result,       \* the arguments of computeDelta
    pos, baseOff,       \* how much of result and base is done with
    delta,              \* the instructions
    baseLen, resultLen, \* what the head of the delta says
    at, out,            \* applyDelta: instructions run, bytes produced
    err,                \* what applyDelta returns
    pc                  \* "compute", "head", "apply", "done"

arguments == <<base, result>>
computing == <<pos, baseOff>>
head == <<baseLen, resultLen>>
applying == <<at, out>>
vars == <<arguments, computing, delta, head, applying, err, pc>>

Errors == {"nil", "ErrDelta", "ErrDeltaLength", "panic"}

TypeOK ==
    /\ base \in Seq(Byte)
    /\ result \in Seq(Byte)
    /\ pos \in 0..Len(result)
    /\ baseOff \in 0..Len(base)
    /\ delta \in Seq(Instruction)
    /\ baseLen \in Nat \cup {None}
    /\ resultLen \in Nat \cup {None}
    /\ at \in 0..Len(delta)
    /\ out \in Seq(Byte \cup {Junk})
    /\ err \in Errors
    /\ pc \in {"compute", "head", "apply", "done"}

Init ==
    /\ \/ /\ pc = "compute"
          /\ base \in Strings
          /\ result \in Strings
          /\ delta = << >>
          /\ baseLen = Len(base)
          /\ resultLen = Len(result)
       \/ /\ pc = "head"
          /\ \E r \in Received :
                /\ base = r.base
                /\ delta = r.delta
                /\ baseLen = r.baseLen
                /\ resultLen = r.resultLen
          /\ result = << >>
    /\ pos = 0
    /\ baseOff = 0
    /\ at = 0
    /\ out = << >>
    /\ err = "nil"

-----------------------------------------------------------------------------
(* (As it would be if a match were not carried on.)                        *)
SuffixesOfOne(a, b) ==
    [p \in (0..Len(b)) \X (0..Len(a)) |->
        IF p[1] = 0 \/ p[2] = 0 THEN 0 ELSE IF a[p[2]] = b[p[1]] THEN 1 ELSE 0]

(* longestCommonSubstring.  Suffixes(a, b)[<<j, i>>] is c[i] at the end of *)
(* the j-th round: how far a and b agree up to their i-th and j-th bytes.  *)

Suffixes(a, b) ==
    LET c[p \in (0..Len(b)) \X (0..Len(a))] ==
            IF p[1] = 0 \/ p[2] = 0 THEN 0
            ELSE IF a[p[2]] = b[p[1]] THEN c[<<p[1] - 1, p[2] - 1>>] + 1 ELSE 0
    IN  c

(* The first of the longest ones that the rounds come by is returned, with *)
(* starts counted from zero: 1, 1, 0 if there is none.                     *)
LongestCommonSubstring(a, b) ==
    LET c == Suffixes(a, b)
        best == CHOOSE p \in DOMAIN c : \A q \in DOMAIN c :
                    \/ c[q] < c[p]
                    \/ c[q] = c[p] /\ (p[1] < q[1] \/ (p[1] = q[1] /\ p[2] <= q[2]))
        From(p, n) == IF n = 0 THEN [i |-> 1, j |-> 1, n |-> 0]
                      ELSE [i |-> p[2] - n, j |-> p[1] - n, n |-> n]
    IN  From(best, c[best])

(* putUvarintMask and uvarintMask.  The mask of a copy has the offset's    *)
(* mask in its low bits and the length's above.                            *)
Digit(x, k) == (x \div Weight[k]) % Base

MaskOf(x, width) == {k \in 0..(width - 1) : Digit(x, k) # 0}

(* The k-th lowest bit of a mask, from 1.                                  *)
Bit(mask, k) == CHOOSE b \in mask : Cardinality({c \in mask : c < b}) = k - 1

BytesOf(x, width) ==
    LET m == MaskOf(x, width) IN [k \in 1..Cardinality(m) |-> Digit(x, Bit(m, k))]

CopyOf(off, n) ==
    [op    |-> "copy",
     mask  |-> MaskOf(off, Offsets) \cup {k + Offsets : k \in MaskOf(n, Lengths)},
     bytes |-> BytesOf(off, Offsets) \o BytesOf(n, Lengths)]

InsertOf(s) == [op |-> "insert", n |-> Len(s), bytes |-> s]

(* The number in the bytes of instr that belong to the bits of its mask    *)
(* in low..high; zero for none.                                            *)
Masked(instr, low, high) ==
    LET bits == instr.mask \cap low..high
        place(b) == Cardinality({c \in instr.mask : c <= b})
    IN  MapThenSumSet(LAMBDA b : instr.bytes[place(b)] * Weight[b - low], bits)

-----------------------------------------------------------------------------
(* computeDelta.                                                           *)

Rest(s, n) == SubSeq(s, n + 1, Len(s))

Looping ==
    /\ Len(result) - pos >= MaxInsertLen
    /\ Len(base) - baseOff >= MaxInsertLen
    /\ baseOff < MaxCopyOff - MaxInsertLen

Window(s, n) == SubSeq(s, n + 1, n + MaxInsertLen)

(* n bytes that both windows have, from i and from j on.                   *)
Matches == [i : Nat, j : Nat, n : Nat]

(* A match that ends with the window is extended as far as it goes.        *)
Extended[m \in Matches] ==
    IF /\ m.j + m.n >= MaxInsertLen
       /\ pos + m.i + m.n < Len(result)
       /\ baseOff + m.j + m.n < Len(base)
       /\ m.n < MaxCopyLen
       /\ result[pos + m.i + m.n + 1] = base[baseOff + m.j + m.n + 1]
    THEN Extended[[m EXCEPT !.n = @ + 1]]
    ELSE m

(* (As it would be if a copy could be of any length.)                      *)
ExtendedFurther[m \in Matches] ==
    IF /\ m.j + m.n >= MaxInsertLen
       /\ pos + m.i + m.n < Len(result)
       /\ baseOff + m.j + m.n < Len(base)
       /\ result[pos + m.i + m.n + 1] = base[baseOff + m.j + m.n + 1]
    THEN ExtendedFurther[[m EXCEPT !.n = @ + 1]]
    ELSE m

MatchOfAnyLength ==
    ExtendedFurther[LongestCommonSubstring(Window(result, pos), Window(base, baseOff))]

Match ==
    Extended[LongestCommonSubstring(Window(result, pos), Window(base, baseOff))]

Step(i, j, n, instrs) ==
    /\ delta' = delta \o instrs
    /\ pos' = pos + i + n
    /\ baseOff' = baseOff + j + n
    /\ UNCHANGED <<arguments, head, applying, err, pc>>

InsertUpTo(i) ==
    IF i > 0 THEN <<InsertOf(SubSeq(result, pos + 1, pos + i))>> ELSE << >>

(* (As it would be if offsets were counted from the window.)               *)
CopyMatchFromWindow ==
    /\ pc = "compute"
    /\ Looping
    /\ \E m \in {Match} :
          /\ m.n > MinCopyLen
          /\ Step(m.i, m.j, m.n, Append(InsertUpTo(m.i), CopyOf(m.j, m.n)))

(* (As it would be if every match were copied.)                            *)
CopyMatchOfAny ==
    /\ pc = "compute"
    /\ Looping
    /\ \E m \in {Match} :
          /\ m.n > 0
          /\ Step(m.i, m.j, m.n, Append(InsertUpTo(m.i), CopyOf(baseOff + m.j, m.n)))

CopyMatch ==
    /\ pc = "compute"
    /\ Looping
    /\ \E m \in {Match} :
          /\ m.n > MinCopyLen
          /\ Step(m.i, m.j, m.n, Append(InsertUpTo(m.i), CopyOf(baseOff + m.j, m.n)))

(* Without a match worth a copy the whole window is inserted.              *)
InsertWindow ==
    /\ pc = "compute"
    /\ Looping
    /\ Match.n <= MinCopyLen
    /\ Step(MaxInsertLen, MaxInsertLen, 0, InsertUpTo(MaxInsertLen))

InsertRest ==
    /\ pc = "compute"
    /\ ~ Looping
    /\ pos < Len(result)
    /\ LET n == Min({Len(result) - pos, MaxInsertLen}) IN Step(n, 0, 0, InsertUpTo(n))

Computed ==
    /\ pc = "compute"
    /\ pos = Len(result)
    /\ pc' = "head"
    /\ UNCHANGED <<arguments, computing, delta, head, applying, err>>

-----------------------------------------------------------------------------
(* applyDelta, whose result is zeros until an instruction fills them, and  *)
(* which produces no more than resultLen whatever the instructions say.    *)

HeadError ==
    IF baseLen # None /\ baseLen # Len(base) THEN "ErrDelta"
    ELSE IF None \in {baseLen, resultLen} THEN "ErrDeltaLength" ELSE "nil"

(* (The result is allocated here.  A length that there is no memory for,   *)
(* which would end the program, is in no delta here.)                      *)
ApplyHead ==
    /\ pc = "head"
    /\ err' = HeadError
    /\ pc' = IF HeadError = "nil" THEN "apply" ELSE "done"
    /\ UNCHANGED <<arguments, computing, delta, head, applying>>

Running == pc = "apply" /\ at < Len(delta)

Instr == delta[at + 1]

Fail(e) ==
    /\ err' = e
    /\ pc' = "done"
    /\ UNCHANGED <<arguments, computing, delta, head, applying>>

Produce(s) ==
    /\ out' = out \o SubSeq(s, 1, Min({Len(s), resultLen - Len(out)}))
    /\ at' = at + 1
    /\ UNCHANGED <<arguments, computing, delta, head, err, pc>>

(* Slicing beyond the end of a slice panics only beyond its capacity; up   *)
(* to there it gives what happens to be in the array, and what a read of   *)
(* it gives depends on what made the slice.                                *)
Beyond(s, n) == [k \in 1..n |-> IF k <= Len(s) THEN s[k] ELSE Junk]

ProduceBeyond(s, n) == Produce(Beyond(s, n)) \/ Fail("panic")

(* (As it would be if an insert of nothing were not passed over.)          *)
ApplyInsertStuck ==
    /\ Running
    /\ Instr.op = "insert"
    /\ IF Instr.n = 0 THEN UNCHANGED vars
       ELSE IF Len(Instr.bytes) = Instr.n THEN Produce(Instr.bytes)
       ELSE ProduceBeyond(Instr.bytes, Instr.n)

ApplyInsert ==
    /\ Running
    /\ Instr.op = "insert"
    /\ IF Len(Instr.bytes) = Instr.n THEN Produce(Instr.bytes)
       ELSE ProduceBeyond(Instr.bytes, Instr.n)

DefaultCopyLen == Weight[2]

(* uvarintMask finds a byte of the mask missing at the end of the delta.   *)
Truncated(instr) ==
    instr.op = "copy" /\ Len(instr.bytes) < Cardinality(instr.mask)

CopyOff(instr) == Masked(instr, 0, Offsets - 1)

CopyLen(instr) ==
    LET n == Masked(instr, Offsets, Offsets + Lengths - 1)
    IN  IF n = 0 THEN DefaultCopyLen ELSE n

ApplyCopy ==
    /\ Running
    /\ Instr.op = "copy"
    /\ IF Truncated(Instr) THEN Fail("ErrDeltaLength")
       ELSE LET off == CopyOff(Instr)
                n   == CopyLen(Instr)
            IN IF off + n <= Len(base) THEN Produce(SubSeq(base, off + 1, off + n))
               ELSE ProduceBeyond(Rest(base, off), n)

Applied ==
    /\ pc = "apply"
    /\ at = Len(delta)
    /\ err' = IF Len(out) = resultLen THEN "nil" ELSE "ErrDelta"
    /\ pc' = "done"
    /\ UNCHANGED <<arguments, computing, delta, head, applying>>

Next ==
    \/ CopyMatch \/ InsertWindow \/ InsertRest \/ Computed
    \/ ApplyHead \/ ApplyInsert \/ ApplyCopy \/ Applied

Spec == Init /\ [][Next]_vars

(* Both functions are loops that nothing blocks.                           *)
FairSpec == Spec /\ WF_vars(Next)

-----------------------------------------------------------------------------
(* Properties.                                                             *)

(* Whatever computeDelta is given, applyDelta makes the same bytes of it.  *)
RoundTrip ==
    pc = "done" /\ result # << >> => err = "nil" /\ out = result

(* How many bytes an instruction stands for.                               *)
Length(instr) == IF instr.op = "insert" THEN instr.n ELSE CopyLen(instr)

(* "computeDelta is responsible for not generating delta instructions that *)
(* exceed these values": the encoding of an instruction silently drops     *)
(* what does not fit, but the instructions as they are read again make up  *)
(* the part of result that is done with, out of the part of base that is.  *)
InstructionsFit ==
    pos > 0 =>
        /\ MapThenSumSet(LAMBDA k : Length(delta[k]), DOMAIN delta) = pos
        /\ \A k \in DOMAIN delta :
              IF delta[k].op = "insert" THEN delta[k].n \in 1..MaxInsertLen
              ELSE /\ ~ Truncated(delta[k])
                   /\ CopyOff(delta[k]) <= MaxCopyOff
                   /\ CopyLen(delta[k]) \in (MinCopyLen + 1)..MaxCopyLen
                   /\ CopyOff(delta[k]) + CopyLen(delta[k]) <= baseOff

(* What computeDelta is about to copy is the longest string common to both *)
(* windows, or more.                                                       *)
MatchIsLongest ==
    pc = "compute" /\ Looping =>
        LET longest == Match.n IN
        \A i, j \in 0..(MaxInsertLen - 1) :
            longest < MaxInsertLen - Max({i, j}) =>
                SubSeq(result, pos + i + 1, pos + i + longest + 1)
                    # SubSeq(base, baseOff + j + 1, baseOff + j + longest + 1)

(* "Both search windows move at least 6 bytes to the right every           *)
(* iteration", which keeps computeDelta linear.                            *)
WindowsMove ==
    [][pc = "compute" /\ Looping =>
          pos' >= pos + MinCopyLen /\ baseOff' >= baseOff + MinCopyLen]_vars

(* computeDelta and applyDelta return.                                     *)
Ends == <>(pc = "done")
=============================================================================
