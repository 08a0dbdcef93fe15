------------------------------ MODULE MCCodec ------------------------------
(* Instances of Codec for TLC.                                             *)
EXTENDS Codec

CONSTANTS id1, id2

(* All strings of at most one byte more than a word takes.                 *)
AllBytes == UNION {[1..k -> Byte] : k \in 0..(MaxLen + 1)}

Repeat(b, n) == [i \in 1..n |-> b]

(* Up to three lines: the shortest, the longest, and one that is too long, *)
(* with bytes that read as the lowest and the highest digit.               *)
SomeLines ==
    LET line == {Flush} \cup {Repeat(b, n) : b \in {0, Base - 1},
                                 n \in {0, 1, MaxPayloadLen, MaxPayloadLen + 1}}
    IN  UNION {[1..k -> line] : k \in 0..3}

-----------------------------------------------------------------------------
IDs == {id1, id2}

(* Names of which one begins another, that continue with a rune before or  *)
(* after the slash, or that are scanned as something else.                 *)
FileNames == {<<A>>, <<A, Dash>>, <<A, B>>, <<SP, A>>, <<NotUTF8>>, << >>}

Trees ==
    UNION {{Tree(e) : e \in [names -> [mode : {"tree", "exec", "other"}, object : {id1, id2}]]} :
              names \in {n \in SUBSET FileNames : Cardinality(n) <= 3}}

(* With the runes that end what is scanned, and that are trimmed off it.   *)
People ==
    {<<A>>, <<A, SP, B>>, <<A, Dot>>, << >>, <<NotUTF8>>}
    \cup {<<A, x, B>> : x \in Delimiters} \cup {<<x>> : x \in Delimiters}

(* Whole minutes; a Go time can have seconds, which are not printed.       *)
Offsets == {60 * m : m \in {-720, -570, -61, -60, -59, -1, 0, 1, 59, 60, 345, 840}}

SignedBy(name, email, offset) ==
    [name |-> name, email |-> email, unix |-> 0, offset |-> offset]

Commits ==
    {[type |-> "commit", tree |-> id1, parent |-> p, author |-> SignedBy(who, <<A>>, o),
      committer |-> SignedBy(<<B>>, email, 0), message |-> << >>] :
          p \in UNION {[1..k -> IDs] : k \in 0..2}, who \in People,
          email \in {<<A>>, << >>, <<A, GT>>}, o \in Offsets}

Tags ==
    {[type |-> "tag", object |-> id1, of |-> of, tag |-> name,
      tagger |-> SignedBy(who, <<A>>, o), message |-> << >>] :
          of \in {"commit", "tag", ""}, name \in {<<A>>, <<A, SP>>, <<A, NL>>, << >>},
          who \in {<<A>>, <<A, LT>>}, o \in {0, -60}}

Blobs == {[type |-> "blob", contents |-> Repeat(A, n)] : n \in {0, 2}}

SomeCapLists == UNION {[S -> BOOLEAN] : S \in SUBSET {"no-done", "ofs-delta", "agent"}}

SomeObjects == Trees \cup Commits \cup Tags \cup Blobs

-----------------------------------------------------------------------------
(* Entries in every order, of modes with and without zeros, whose names    *)
(* may have bytes that end them.                                           *)
Entries ==
    [zeros : {FALSE}, mode : {"tree", "blob"}, object : {id1},
     name : {<<A>>, <<A, Dash>>, <<A, B>>, <<SP, A>>}]
    \cup [zeros : BOOLEAN, mode : {"tree"}, object : {id2}, name : {<<A>>, <<A, NL>>, <<A, Slash>>}]

Received(type, bodies) ==
    UNION {{[type |-> type, length |-> Size(type, b) + more, body |-> b] :
                more \in {-1, 0, 1}} : b \in bodies}

Sig(key, who, zone) ==
    L(key, [who |-> who, email |-> <<A>>, unix |-> 0, zone |-> zone])

Good(key) == Sig(key, <<A, SP>>, [west |-> TRUE, hours |-> 5, minutes |-> 30])

SignatureLines(key) ==
    LET zones == [west : BOOLEAN, hours : {0, 5}, minutes : {0, 30, 60}]
    IN  {Sig(key, who, zone) :
            who \in {<<SP>>, << >>, <<A, SP>>, <<A, SP, SP>>, <<A, GT, SP>>, <<NUL, SP>>},
            zone \in zones}

(* Signatures of all kinds; lines doubled, left out, in another order, or  *)
(* that the code does not know.                                            *)
CommitBodies ==
    LET other == {L("parent", id1), L("encoding", <<A>>), L("gpgsig", <<A>>)}
        heads == {<<L("tree", id1)>>, <<L("tree", id1), L("parent", id2)>>, <<L("parent", id1)>>}
        tails == {<<s, Good("committer")>> : s \in SignatureLines("author")}
                 \cup {<<Good("committer"), Good("author")>>, <<Good("author")>>}
                 \cup {<<Good("author"), Good("committer"), x>> : x \in other}
                 \cup {<<x, Good("author"), Good("committer")>> : x \in other}
    IN  {[lines |-> h \o t, message |-> << >>] : h \in heads, t \in tails}

TagBodies ==
    LET heads == {<<L("object", id1), L("type", of), L("tag", name)>> :
                      of \in {"blob", ""}, name \in {<<A>>, <<A, SP, A>>}}
        tails == {<<s>> : s \in SignatureLines("tagger")} \cup {<< >>, <<Good("author")>>}
    IN  {[lines |-> h \o t, message |-> << >>] : h \in heads, t \in tails}

SomeReceived ==
    Received("tree", UNION {[1..k -> Entries] : k \in 0..3})
    \cup Received("commit", CommitBodies \cup TagBodies)
    \cup Received("tag", CommitBodies \cup TagBodies)
    \cup Received("blob", {<< >>, <<A>>})
=============================================================================
