------------------------------- MODULE Codec -------------------------------
(***************************************************************************)
(* The formats of Base128, Pktline and Objects in use, and capabilities: a *)
(* value is encoded, goes through a connection or the datastore, and is    *)
(* decoded; or data that something else has made is received and decoded.  *)
(***************************************************************************)
EXTENDS Base128, Pktline, Objects

CONSTANTS
    None,              \* no value: the data was received
    Lines,             \* what is written to a connection: sequences of
                       \* payloads and
    Flush,             \* flush-pkts
    ObjectValues,      \* Git objects
    CapLists,          \* functions from capabilities to BOOLEAN
    ReceivedNumbers,   \* sequences of bytes
    ReceivedObjects    \* binary representations

ASSUME CodecAssumption ==
    /\ ReceivedNumbers \subseteq Seq(Byte)
    /\ Lines \subseteq Seq({Flush} \cup Seq(0..(Base - 1)))
    /\ \A obj \in ObjectValues : IsObject(obj)
    /\ \A c \in CapLists :
          IsFiniteSet(DOMAIN c) /\ c \in [DOMAIN c -> BOOLEAN] /\ "" \notin DOMAIN c
    /\ ReceivedObjects \subseteq Binary

Format == {"LE", "MBE", "header", "lines", "binary", "text", "props", "caps"}

VARIABLES
    format,       \* which codec this is
    value,        \* what was encoded, or None
    data,         \* what goes from the encoder to the decoder
    result,       \* what the decoder returned
    pc            \* "start", "sent", "moved", "done"

vars == <<format, value, data, result, pc>>

Init ==
    /\ format \in Format
    /\ value = None
    /\ data = << >>
    /\ result = None
    /\ pc = "start"

-----------------------------------------------------------------------------

ValuesOf(f) ==
    CASE f \in {"LE", "MBE"}       -> 0..(Words - 1)
      [] f = "header"              -> [type : 0..(Types - 1), size : 0..MaxSize]
      [] f = "lines"               -> Lines
      [] f \in {"binary", "props"} -> ObjectValues
      [] f = "text"                -> {obj \in ObjectValues : obj.type = "tree"}
      [] f = "caps"                -> CapLists

WriteLines(lines) ==
    FlattenSeq([i \in DOMAIN lines |->
                   IF lines[i] = Flush THEN FlushPkt ELSE WriteLine(lines[i])])

(* CapList.String joins what is set, and nothing for each that is not, by  *)
(* spaces; Scan takes the words that it finds.                             *)
CapString(c) ==
    LET names == SetToSeq(DOMAIN c)
    IN  [i \in DOMAIN names |-> IF c[names[i]] THEN names[i] ELSE ""]

ScanCaps(words) == [w \in ToSet(words) \ {""} |-> TRUE]

(* CapList.sub: what a client asks for that the server does not know.      *)
CapsSub(c, d) ==
    [n \in {n \in DOMAIN c : c[n] /\ ~ (n \in DOMAIN d /\ d[n])} |-> TRUE]

Encoded(f, v) ==
    CASE f = "LE"     -> WriteLE(v)
      [] f = "MBE"    -> WriteMBE(v)
      [] f = "header" -> WriteLE(Header(v.type, v.size))
      [] f = "lines"  -> WriteLines(v)
      [] f = "binary" -> Marshal(v)
      [] f = "text"   -> TreeBody(v.entries)
      [] f = "props"  -> Save(v)
      [] f = "caps"   -> CapString(v)

Encode ==
    /\ pc = "start"
    /\ value' \in ValuesOf(format)
    /\ data' = Encoded(format, value')
    /\ pc' = "sent"
    /\ UNCHANGED <<format, result>>

Receive ==
    /\ pc = "start"
    /\ \/ format \in {"LE", "MBE"} /\ data' \in ReceivedNumbers
       \/ format = "binary" /\ data' \in ReceivedObjects
    /\ pc' = "sent"
    /\ UNCHANGED <<format, value, result>>

(* A connection breaks and loses the last bytes.                           *)
Cut ==
    /\ pc = "sent" /\ format = "lines"
    /\ \E n \in 0..(Len(data) - 1) : data' = SubSeq(data, 1, n)
    /\ pc' = "moved"
    /\ UNCHANGED <<format, value, result>>

LastOf(name, props) ==
    LET named == {p \in ToSet(props) : p.name = name}
    IN  Only(props, ToSet(props) \ named) \o Only(props, named)

(* The datastore gives the properties of some names back after the others: *)
(* only those of one name have an order.                                   *)
Reorder ==
    /\ pc = "sent" /\ format = "props"
    /\ \E i \in DOMAIN data : data' = LastOf(data[i].name, data)
    /\ pc' = "moved"
    /\ UNCHANGED <<format, value, result>>

(* Calls of ReadLine, one more than lines were written.                    *)
ReadLines(stream, n) ==
    LET read[i \in 0..n] ==
          IF i = 0 THEN Line(<< >>, "nil", stream) ELSE ReadLine(read[i - 1].rest)
    IN  [i \in 1..n |-> [line |-> read[i].line, err |-> read[i].err]]

ReadHeader(s) ==
    LET hdr == ReadLE(s)
    IN  [type |-> HeaderType(hdr.x), size |-> HeaderSize(hdr.x), err |-> hdr.err]

Decoded ==
    CASE format = "LE"     -> ReadLE(data)
      [] format = "MBE"    -> ReadMBE(data)
      [] format = "header" -> ReadHeader(data)
      [] format = "lines"  -> ReadLines(data, Len(value) + 1)
      [] format = "binary" -> Unmarshal(data)
      [] format = "text"   -> UnmarshalTreeText(data)
      [] format = "props"  -> Load(value.type, data)
      [] format = "caps"   -> ScanCaps(data)

Decode ==
    /\ pc \in {"sent", "moved"}
    /\ result' = Decoded
    /\ pc' = "done"
    /\ UNCHANGED <<format, value, data>>

Next == Encode \/ Receive \/ Cut \/ Reorder \/ Decode

Spec == Init /\ [][Next]_vars

-----------------------------------------------------------------------------
(* Properties of the numbers and the lines.                                *)

(* The number that a string of bytes stands for, however large: in the     *)
(* modified big-endian format, the strings of k bytes stand for the        *)
(* numbers that follow those of the strings of k - 1 bytes.                *)
SumOf(term) ==
    LET sum[k \in 0..Len(term)] == IF k = 0 THEN 0 ELSE sum[k - 1] + term[k]
    IN  sum[Len(term)]

ValueLE(s) == SumOf([k \in DOMAIN s |-> s[k].low * Power[GroupBits * (k - 1)]])

ValueMBE(s) ==
    SumOf([k \in DOMAIN s |->
              (s[k].low + (IF k = Len(s) THEN 0 ELSE 1))
                * Power[GroupBits * (Len(s) - k)]])

Read == SubSeq(data, 1, result.n)

(* "It returns an error if the encoded number does not fit in 64 bits":    *)
(* what is returned without an error is the number that the bytes stand    *)
(* for, and readBase128MBE says overflow only when all numbers that go on  *)
(* with these bytes are too large for a word.                              *)
OverflowIsNoticed ==
    pc = "done" /\ format \in {"LE", "MBE"} =>
        /\ result.err = "nil" =>
              result.x = IF format = "LE" THEN ValueLE(Read) ELSE ValueMBE(Read)
        /\ result.err = "overflow" /\ format = "MBE" =>
              (ValueMBE(Read) + 1) * Groups >= Words

(* All numbers that a word holds are read back as they were written, in    *)
(* either format and from no more bytes than writeBase128LE and            *)
(* writeBase128MBE have a buffer for; so are the types and the sizes that  *)
(* writeObjHeader takes.                                                   *)
NumberIsBack ==
    /\ format \in {"LE", "MBE"} =>
          result = Number(value, Len(data), "nil") /\ Len(data) <= MaxLen
    /\ format = "header" =>
          result = [type |-> value.type, size |-> value.size, err |-> "nil"]

(* The lines as ReadLine should return them; one that is too long was not  *)
(* written.                                                                *)
WrittenOf(lines) ==
    LET sent[i \in 0..Len(lines)] ==
          IF i = 0 THEN << >>
          ELSE IF lines[i] = Flush
          THEN Append(sent[i - 1], [line |-> << >>, err |-> "EOF"])
          ELSE IF Len(lines[i]) <= MaxPayloadLen
          THEN Append(sent[i - 1], [line |-> lines[i], err |-> "nil"])
          ELSE sent[i - 1]
    IN  sent[Len(lines)]

Written == WrittenOf(value)

(* What comes out of the Reader is what went into the Writer: the same     *)
(* lines between the same flush-pkts, whatever their length and bytes.     *)
(* When bytes were lost, all lines up to there are right, and the next     *)
(* result says ErrUnexpectedEOF, with a part of the line that was lost.    *)
LinesArrive ==
    pc = "done" /\ format = "lines" =>
        LET torn == {i \in DOMAIN result : result[i].err = "ErrUnexpectedEOF"}
            n    == CHOOSE i \in torn : \A j \in torn : i <= j
        IN  /\ torn # {}
            /\ \A i \in 1..(n - 1) : i <= Len(Written) /\ result[i] = Written[i]
            /\ n <= Len(Written) =>
                  /\ data # Encoded(format, value)
                  /\ IsPrefix(result[n].line, Written[n].line)
            /\ n > Len(Written) => result[n].line = << >>

-----------------------------------------------------------------------------
(* Properties of the objects.                                              *)

(* Git's order of the entries of a tree (base_name_compare): a name goes   *)
(* on with a slash if it is a directory's and with NUL if it is not.       *)
GitBefore(e, f) ==
    LET rune(x, i) == IF i <= Len(x.name) THEN x.name[i]
                      ELSE IF x.mode = "tree" THEN Slash ELSE NUL
        n == IF Len(e.name) < Len(f.name) THEN Len(e.name) ELSE Len(f.name)
    IN  \E i \in 1..(n + 1) :
            /\ rune(e, i) < rune(f, i)
            /\ \A j \in 1..(i - 1) : rune(e, j) = rune(f, j)

PlainName(s) == Runes(s) \cap {NUL, NL, Slash, NotUTF8} = {} /\ (s # << >> => s[1] # SP)

PlainPerson(s) == Trim(s) = s /\ NotUTF8 \notin Runes(s)

PlainSignature(t) ==
    /\ t.who # << >> /\ Last(t.who) = SP /\ PlainPerson(Front(t.who))
    /\ PlainPerson(t.email)
    /\ Scans(t)
    /\ t.zone.minutes < 60
    /\ t.zone.west => t.zone.hours + t.zone.minutes > 0

PlainLine(l) ==
    CASE l.key \in {"author", "committer", "tagger"} -> PlainSignature(l.val)
      [] l.key = "tag"                 -> PlainName(l.val) /\ l.val # << >> /\ SP \notin Runes(l.val)
      [] l.key = "type"                -> l.val # ""
      [] OTHER                         -> TRUE

(* Without what the codecs are known not to keep: spaces before the name   *)
(* of a file, names that are not UTF-8, people whose names or addresses    *)
(* begin or end in spaces or stops or have one of the Delimiters, minutes  *)
(* over 59, the zone -0000, zeros before a mode, and trees that have a     *)
(* name twice or are not in Git's order.                                   *)
Plain(d) ==
    CASE d.type = "tree" ->
            /\ \A i \in DOMAIN d.body : PlainName(d.body[i].name) /\ ~ d.body[i].zeros
            /\ \A i, j \in DOMAIN d.body :
                  i < j => d.body[i].name # d.body[j].name /\ GitBefore(d.body[i], d.body[j])
      [] d.type \in {"commit", "tag"} -> \A i \in DOMAIN d.body.lines : PlainLine(d.body.lines[i])
      [] d.type = "blob" -> TRUE

(* What is encoded is decoded to what it was: numbers, objects, the text   *)
(* of trees all of whose modes have a type, and which capabilities are     *)
(* set.                                                                    *)
RoundTrip ==
    pc = "done" /\ value # None =>
        /\ NumberIsBack
        /\ format = "binary" /\ Plain(Marshal(value)) => result = Got(value)
        /\ format = "text" /\ Plain(Marshal(value)) =>
              (result = Got(value) <=>
                  \A n \in DOMAIN value.entries :
                      n # << >> /\ value.entries[n].mode # "other")
        /\ format = "caps" =>
              /\ CapsSub(value, result) = << >>
              /\ \A n \in DOMAIN result : n \in DOMAIN value /\ value[n]

(* An object that is unmarshalled without an error, as those of a packfile *)
(* are before they are stored, is marshalled to the same bytes and keeps   *)
(* its ID, whatever made it: nothing in it is dropped silently.            *)
IDsAreKept ==
    pc = "done" /\ format = "binary" /\ value = None /\ Plain(data) /\ result.ok =>
        Marshal(result.obj) = data

(* An object loaded from the datastore is the one that was saved, in       *)
(* whatever order its properties come back.  Only a tag that has none of   *)
(* Git's types, which Save takes, is not loaded.                           *)
StoredIsLoaded ==
    pc = "done" /\ format = "props" =>
        result = IF value.type = "tag" /\ value.of = "" THEN Failed ELSE Got(value)

-----------------------------------------------------------------------------
(* The inductive invariant.                                                *)

(* What was encoded or received is what goes to the decoder ...            *)
Sent ==
    \/ value \in ValuesOf(format) /\ data = Encoded(format, value)
    \/ format \in {"LE", "MBE"} /\ value = None /\ data \in ReceivedNumbers
    \/ format = "binary" /\ value = None /\ data \in ReceivedObjects

(* ... unless it lost its end or its order on the way.                     *)
Torn ==
    /\ format = "lines" /\ value \in ValuesOf(format)
    /\ \E n \in 0..(Len(Encoded(format, value)) - 1) :
          data = SubSeq(Encoded(format, value), 1, n)

Shuffled ==
    /\ format = "props" /\ value \in ValuesOf(format)
    /\ LET props == Encoded(format, value)
       IN  \E i \in DOMAIN props : data = LastOf(props[i].name, props)

Inv ==
    /\ pc \in {"start", "sent", "moved", "done"}
    /\ pc = "start" => value = None
    /\ pc = "sent" => Sent
    /\ pc \in {"moved", "done"} => Sent \/ Torn \/ Shuffled
    /\ pc = "done" => result = Decoded
=============================================================================
