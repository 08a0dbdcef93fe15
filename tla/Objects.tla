------------------------------ MODULE Objects ------------------------------
(***************************************************************************)
(* The forms of a Git object (package object): its canonical binary        *)
(* representation, whose hash is its ID, the text of a tree, and its       *)
(* properties in the App Engine datastore.                                 *)
(*                                                                         *)
(* A binary representation is a record with the type and the length of its *)
(* header and a body: the entries of a tree, the lines and the message of  *)
(* a commit or a tag, the bytes of a blob.  A file, person or tag name is  *)
(* a sequence of runes, numbered in their order.  IDs, dates and messages  *)
(* are printed and scanned as they are.                                    *)
(***************************************************************************)
EXTENDS Integers, Sequences, FiniteSets, SequencesExt

CONSTANT
    ID            \* IDs of Git objects

(* Runes: the end of a name, the end of a line, a space, a full stop,      *)
(* which is trimmed off the names of people, a dash, which is before a     *)
(* slash as most punctuation is, the angle brackets around an address, two *)
(* letters, a byte that is not UTF-8 and U+FFFD, which it is scanned as.   *)
NUL == 0
NL == 1
SP == 2
Dash == 3
Dot == 4
Slash == 5
LT == 6
GT == 7
A == 8
B == 9
NotUTF8 == 10
RuneError == 11

Text == Seq(Nat)

Runes(s) == {s[i] : i \in DOMAIN s}

Scanned(s) == [i \in DOMAIN s |-> IF s[i] = NotUTF8 THEN RuneError ELSE s[i]]

(* What fmt does before it scans an operand.                               *)
SkipSpace(s) ==
    LET n == CHOOSE n \in 0..Len(s) :
                /\ \A i \in 1..n : s[i] = SP
                /\ n < Len(s) => s[n + 1] # SP
    IN  SubSeq(s, n + 1, Len(s))

(* A safeString.                                                           *)
Trim(s) ==
    LET kept == {i \in DOMAIN s : s[i] \notin {SP, Dot}}
    IN  IF kept = {} THEN << >>
        ELSE SubSeq(s, CHOOSE i \in kept : \A j \in kept : i <= j,
                       CHOOSE i \in kept : \A j \in kept : i >= j)

Failed == [ok |-> FALSE]

Got(obj) == [ok |-> TRUE, obj |-> obj]

-----------------------------------------------------------------------------
(* Trees, functions from names to modes and objects.                       *)

Tree(entries) == [type |-> "tree", entries |-> entries]

TreeMode == {"tree", "blob", "exec", "symlink", "gitlink", "other"}

TreeInfo == [mode : TreeMode, object : ID]

(* The name of a file has no slash.                                        *)
IsTree(obj) ==
    /\ obj = Tree(obj.entries) /\ obj.entries \in [DOMAIN obj.entries -> TreeInfo]
    /\ IsFiniteSet(DOMAIN obj.entries) /\ DOMAIN obj.entries \subseteq Text
    /\ \A n \in DOMAIN obj.entries : Slash \notin Runes(n)

(* TreeMode.Type; a mode such as 0100664 has none.                         *)
TypeOfMode(mode) ==
    CASE mode = "tree"                      -> "tree"
      [] mode \in {"blob", "exec", "symlink"} -> "blob"
      [] mode = "gitlink"                   -> "commit"
      [] mode = "other"                     -> ""

Before(s, t) ==
    \/ IsStrictPrefix(s, t)
    \/ \E i \in DOMAIN s \cap DOMAIN t :
          /\ s[i] < t[i]
          /\ \A j \in 1..(i - 1) : s[j] = t[j]

Sorted(S) ==
    CHOOSE s \in [1..Cardinality(S) -> S] :
        \A i, j \in DOMAIN s : i < j => Before(s[i], s[j])

(* (As it would be if directories were sorted by their names alone.)       *)
NamesPlain(entries) == Sorted(DOMAIN entries)

Entry == [zeros : BOOLEAN, mode : TreeMode, name : Text, object : ID]

(* Sorted as if the names of directories ended in a slash.                 *)
Names(entries) ==
    LET key(name) == IF entries[name].mode = "tree" THEN Append(name, Slash) ELSE name
        keys == Sorted({key(name) : name \in DOMAIN entries})
    IN  [i \in DOMAIN keys |->
            IF keys[i] # << >> /\ Last(keys[i]) = Slash THEN Front(keys[i]) ELSE keys[i]]

(* A mode is printed without zeros in front; scanning takes them.          *)
TreeBody(entries) ==
    LET names == Names(entries)
    IN  [i \in DOMAIN names |->
            [zeros |-> FALSE, mode |-> entries[names[i]].mode,
             name |-> names[i], object |-> entries[names[i]].object]]

(* A filename is broken on more than the NUL that has to follow it.        *)
Filename(s) == Scanned(SkipSpace(s))

TreeOf(body) ==
    LET name(i) == Filename(body[i].name)
        last(n) == CHOOSE i \in DOMAIN body :
                      name(i) = n /\ \A j \in (i + 1)..Len(body) : name(j) # n
    IN  Tree([n \in {name(i) : i \in DOMAIN body} |->
                 [mode |-> body[last(n)].mode, object |-> body[last(n)].object]])

UnmarshalTree(body) ==
    IF \A i \in DOMAIN body : Runes(body[i].name) \cap {NL, Slash} = {}
    THEN Got(TreeOf(body))
    ELSE Failed

(* The text of a tree, a line per entry, also has the type, which must be  *)
(* one of Git's, and a line cannot end before its name.                    *)
UnmarshalTreeText(lines) ==
    IF \A i \in DOMAIN lines :
          /\ TypeOfMode(lines[i].mode) # ""
          /\ Filename(lines[i].name) # << >>
    THEN UnmarshalTree(lines)
    ELSE Failed

-----------------------------------------------------------------------------
(* Signatures.  A zone is an offset from UTC in seconds, of whole minutes; *)
(* printed, a sign, hours and minutes, scanned as one number.  Printed,    *)
(* who is all that comes before the "<" of the address.                    *)

Signature == [name : Text, email : Text, unix : Int, offset : {o \in Int : o % 60 = 0}]

Printed == [who : Text, email : Text, unix : Int,
            zone : [west : BOOLEAN, hours : Nat, minutes : Nat]]

(* A name or an address ends at the first of these, and if that is not the *)
(* bracket that has to follow it, Scan fails.                              *)
Delimiters == {NUL, NL, LT, GT}

Scans(t) == (Runes(t.who) \cup Runes(t.email)) \cap Delimiters = {}

Quo(a, b) == IF a < 0 THEN -((-a) \div b) ELSE a \div b

Rem(a, b) == a - b * Quo(a, b)

(* (As it would be if "/" and "%" rounded down.)                           *)
ScanZoneFloor(z) == (z \div 100) * 60 * 60 + (z % 100) * 60

ScanZone(z) == Quo(z, 100) * 60 * 60 + Rem(z, 100) * 60

Zone(z) ==
    LET o == z.hours * 100 + z.minutes IN ScanZone(IF z.west THEN -o ELSE o)

FormatZone(offset) ==
    LET zone == Quo(offset, 60)
        abs  == IF zone < 0 THEN -zone ELSE zone
    IN  [west |-> zone < 0, hours |-> abs \div 60, minutes |-> abs % 60]

SignatureText(s) ==
    [who |-> Append(s.name, SP), email |-> s.email, unix |-> s.unix,
     zone |-> FormatZone(s.offset)]

(* Of what scans.                                                          *)
SignatureOf(t) ==
    [name |-> Scanned(Trim(t.who)), email |-> Scanned(Trim(t.email)),
     unix |-> t.unix, offset |-> Zone(t.zone)]

-----------------------------------------------------------------------------
(* Commits and tags: lines of a key and a value, an empty line and the     *)
(* message.  A line that does not match makes Unmarshal fail, at the end.  *)
(* (A text in a line that has an end of a line, and the lines that have to *)
(* follow, would be taken for those.  Such texts are taken to fail.)       *)

Type == {"commit", "tree", "blob", "tag"}

Commit == [type : {"commit"}, tree : ID, parent : Seq(ID), author : Signature,
           committer : Signature, message : Text]

Tag == [type : {"tag"}, object : ID, of : Type \cup {""}, tag : Text,
        tagger : Signature, message : Text]

(* Of a key that the code does not know, the line is a text.               *)
TextLine ==
    [key : {"tree", "parent", "object"}, val : ID]
    \cup [key : {"author", "committer", "tagger"}, val : Printed]
    \cup [key : {"type"}, val : Type \cup {""}]
    \cup [key : STRING \ {"tree", "parent", "object", "author", "committer", "tagger", "type"},
          val : Text]

L(key, val) == [key |-> key, val |-> val]

CommitBody(c) ==
    [lines |->
        <<L("tree", c.tree)>>
        \o [i \in DOMAIN c.parent |-> L("parent", c.parent[i])]
        \o <<L("author", SignatureText(c.author)),
             L("committer", SignatureText(c.committer))>>,
     message |-> c.message]

Keys(body) == [i \in DOMAIN body.lines |-> body.lines[i].key]

UnmarshalCommit(body) ==
    LET v(i) == body.lines[i].val
        n == Len(body.lines) - 3
    IN  IF /\ n >= 0
           /\ Keys(body) = <<"tree">> \o [i \in 1..n |-> "parent"] \o <<"author", "committer">>
           /\ Scans(v(n + 2)) /\ Scans(v(n + 3))
        THEN Got([type |-> "commit", tree |-> v(1), parent |-> [i \in 1..n |-> v(i + 1)],
                  author |-> SignatureOf(v(n + 2)), committer |-> SignatureOf(v(n + 3)),
                  message |-> body.message])
        ELSE Failed

TagBody(t) ==
    [lines |->
        <<L("object", t.object), L("type", t.of), L("tag", t.tag),
          L("tagger", SignatureText(t.tagger))>>,
     message |-> t.message]

(* The name of a tag is a word.                                            *)
UnmarshalTag(body) ==
    LET v(i) == body.lines[i].val
    IN  IF /\ Keys(body) = <<"object", "type", "tag", "tagger">>
           /\ v(2) # ""
           /\ v(3) # << >> /\ Runes(v(3)) \cap {SP, NL} = {}
           /\ Scans(v(4))
        THEN Got([type |-> "tag", object |-> v(1), of |-> v(2), tag |-> Scanned(v(3)),
                  tagger |-> SignatureOf(v(4)), message |-> body.message])
        ELSE Failed

-----------------------------------------------------------------------------
(* Marshal and Unmarshal.  New makes an object of the type in the header;  *)
(* stripHeader then compares the length with what there is.  Lengths are   *)
(* the number of entries, lines or bytes.                                  *)

Blob == [type : {"blob"}, contents : Text]

IsObject(obj) ==
    \/ obj.type = "tree" /\ IsTree(obj)
    \/ obj \in Commit \cup Tag \cup Blob

Binary ==
    [type : {"tree"}, length : Int, body : Seq(Entry)]
    \cup [type : {"commit", "tag"}, length : Int,
          body : [lines : Seq(TextLine), message : Text]]
    \cup [type : {"blob"}, length : Int, body : Text]

BodyOf(obj) ==
    CASE obj.type = "tree"   -> TreeBody(obj.entries)
      [] obj.type = "commit" -> CommitBody(obj)
      [] obj.type = "tag"    -> TagBody(obj)
      [] obj.type = "blob"   -> obj.contents

Size(type, body) == IF type \in {"commit", "tag"} THEN Len(body.lines) ELSE Len(body)

Marshal(obj) ==
    [type |-> obj.type, length |-> Size(obj.type, BodyOf(obj)), body |-> BodyOf(obj)]

UnmarshalBody(type, body) ==
    CASE type = "tree"   -> UnmarshalTree(body)
      [] type = "commit" -> UnmarshalCommit(body)
      [] type = "tag"    -> UnmarshalTag(body)
      [] type = "blob"   -> Got([type |-> "blob", contents |-> body])

Unmarshal(data) ==
    IF data.length # Size(data.type, data.body) THEN Failed
    ELSE UnmarshalBody(data.type, data.body)

-----------------------------------------------------------------------------
(* Datastore properties (object/appengine.go).  The name of a property is  *)
(* a sequence of one or two components.                                    *)

P(name, value) == <<[name |-> <<name>>, multiple |-> FALSE, value |-> value]>>

PMultiple(name, values) ==
    [i \in DOMAIN values |-> [name |-> <<name>>, multiple |-> TRUE, value |-> values[i]]]

PrefixProps(prefix, props) ==
    [i \in DOMAIN props |-> [props[i] EXCEPT !.name = <<prefix>> \o @]]

(* Those of the properties that are in S, in their order.                  *)
Only(props, S) ==
    LET only[i \in 0..Len(props)] ==
          IF i = 0 THEN << >>
          ELSE IF props[i] \in S THEN Append(only[i - 1], props[i]) ELSE only[i - 1]
    IN  only[Len(props)]

ParseProps(props) ==
    [n \in {props[i].name[1] : i \in DOMAIN props} |->
        LET ps == Only(props, {p \in ToSet(props) : p.name[1] = n})
        IN  IF Len(ps[1].name) = 2 THEN [i \in DOMAIN ps |-> [ps[i] EXCEPT !.name = Tail(@)]]
            ELSE IF ps[1].multiple THEN [i \in DOMAIN ps |-> ps[i].value]
            ELSE Last(ps).value]

SaveSignature(s) ==
    P("Name", s.name) \o P("Email", s.email) \o P("Date", s.unix) \o P("TZ", s.offset)

LoadSignature(props) ==
    LET m == ParseProps(props)
    IN  [name |-> m["Name"], email |-> m["Email"], unix |-> m["Date"], offset |-> m["TZ"]]

(* (As it would be if a list of one parent were a plain value.)            *)
ParentPropsPlain(parent) ==
    IF Len(parent) = 1 THEN P("Parent", parent[1]) ELSE PMultiple("Parent", parent)

ParentProps(parent) == PMultiple("Parent", parent)

(* A tree is saved in no order, as three lists that belong together.       *)
Save(obj) ==
    CASE obj.type = "blob" -> P("Contents", obj.contents)
      [] obj.type = "tag" ->
            P("Object", obj.object) \o P("Type", obj.of) \o P("Tag", obj.tag)
            \o P("Message", obj.message)
            \o PrefixProps("Tagger", SaveSignature(obj.tagger))
      [] obj.type = "commit" ->
            P("Tree", obj.tree) \o P("Message", obj.message) \o ParentProps(obj.parent)
            \o PrefixProps("Author", SaveSignature(obj.author))
            \o PrefixProps("Committer", SaveSignature(obj.committer))
      [] obj.type = "tree" ->
            LET names == SetToSeq(DOMAIN obj.entries)
                info(i) == obj.entries[names[i]]
            IN  FlattenSeq([i \in DOMAIN names |->
                    PMultiple("Name", <<names[i]>>) \o PMultiple("Mode", <<info(i).mode>>)
                    \o PMultiple("Object", <<info(i).object>>)])

LoadTree(m) ==
    IF "Name" \notin DOMAIN m THEN Tree(<< >>)
    ELSE Tree([n \in ToSet(m["Name"]) |->
            LET i == CHOOSE i \in DOMAIN m["Name"] : m["Name"][i] = n
            IN  [mode |-> m["Mode"][i], object |-> m["Object"][i]]])

LoadBlob(m) == [type |-> "blob", contents |-> m["Contents"]]

LoadTag(m) ==
    [type |-> "tag", object |-> m["Object"], of |-> m["Type"], tag |-> m["Tag"],
     message |-> m["Message"], tagger |-> LoadSignature(m["Tagger"])]

LoadCommit(m) ==
    [type |-> "commit", tree |-> m["Tree"], message |-> m["Message"],
     parent |-> IF "Parent" \in DOMAIN m THEN m["Parent"] ELSE << >>,
     author |-> LoadSignature(m["Author"]), committer |-> LoadSignature(m["Committer"])]

(* The type that a tag says must be one of Git's.                          *)
Load(type, props) ==
    LET m == ParseProps(props)
    IN  CASE type = "blob"   -> Got(LoadBlob(m))
          [] type = "tag"    -> IF m["Type"] \in Type THEN Got(LoadTag(m)) ELSE Failed
          [] type = "commit" -> Got(LoadCommit(m))
          [] type = "tree"   -> Got(LoadTree(m))
=============================================================================
