------------------------------ MODULE MCDelta ------------------------------
(* Instances of Delta for TLC.                                             *)
EXTENDS Delta

Words(n) == UNION {[1..k -> Byte] : k \in 0..n}

(* All short strings, and some long ones that agree for longer than one    *)
(* copy goes and than offsets reach.                                       *)
ShortAndLong ==
    Words(5) \cup
    {[k \in 1..14 |-> 0], [k \in 1..14 |-> k % 2], [k \in 1..14 |-> IF k < 9 THEN 1 ELSE 0],
     [k \in 1..14 |-> IF k % 3 = 0 THEN 1 ELSE 0],
     [k \in 1..14 |-> IF k < 5 THEN 0 ELSE (k \div 2) % 2]}

Inserts ==
    {[op |-> "insert", n |-> n, bytes |-> s] : n \in 0..2, s \in Words(2)}

Whole(i) == IF i.op = "insert" THEN Len(i.bytes) = i.n
            ELSE Len(i.bytes) = Cardinality(i.mask)

Copies ==
    {[op |-> "copy", mask |-> m, bytes |-> s] :
        m \in {{}, {0}, {Offsets}, {0, Offsets}}, s \in Words(2)}

Broken == {i \in Inserts : Len(i.bytes) < i.n}
          \cup {i \in Copies : Len(i.bytes) < Cardinality(i.mask)}

Deltas ==
    LET whole == {i \in Inserts \cup Copies : Whole(i)}
    IN  {<< >>} \cup {<<i>> : i \in whole \cup Broken}
            \cup {<<i, j>> : i \in whole, j \in whole \cup Broken}

(* Heads that announce what they should, and heads that do not.            *)
AnyDelta ==
    {[base |-> b, baseLen |-> Len(b), resultLen |-> n, delta |-> d] :
        b \in {<< >>, <<0, 1>>, <<1, 1, 0, 0, 1>>}, n \in 0..4, d \in Deltas}
    \cup
    {[base |-> <<0, 1>>, baseLen |-> b, resultLen |-> n, delta |-> << >>] :
        b \in {None, 0, 2}, n \in {None, 0, 1}}
=============================================================================
