------------------------------ MODULE Packfile ------------------------------
(***************************************************************************)
(* Packfiles (packfile/packfile.go): a Writer makes one of the objects it  *)
(* is given, and a Reader stores the objects of one in a repository, which *)
(* may fail and to which other goroutines add objects.  A pack may also    *)
(* come from elsewhere, with deltas on anything and sizes that are wrong.  *)
(*                                                                         *)
(* An object is its ID and a delta a pair of them: applied to "from" it    *)
(* gives "to", and applied to another object an error or any other object. *)
(* A position in the stream is the number of the entry before it.  Entries *)
(* are marked with how the size in their header compares with their body.  *)
(* A whole body is that of an object, and unmarshalObj makes of it what    *)
(* marshalObj was given: so it is of objects that were unmarshalled once   *)
(* and of the others that Codec's Plain admits.  A body that is none, and  *)
(* is malformed for ReadObject, is in no pack here unless it was cut short *)
(* or comes of a delta on another object.                                  *)
(*                                                                         *)
(* pc is "write" and "start" before the Reader is made, "read" between two *)
(* of its methods, "resolve" and "store" in ReadObject before it calls     *)
(* GetObject and PutObject, and "done" when the pack is done with.         *)
(***************************************************************************)
EXTENDS Integers, Sequences

CONSTANTS
    ID, ZeroID,   \* IDs of Git objects, and the ID of none
    Type,         \* their types
    TypeOf,       \* id -> the type of object id
    MaxObjects,   \* how many objects a pack that is written has at most
    Received      \* packs from elsewhere: [pack, announced, sum]

None == -1

Size == {"exact", "short", "long"}

(* A refDelta or an ofsDelta may name a base that is none.                 *)
Entry ==
    [kind : {"object"}, id : ID, size : Size]
    \cup [kind : {"ofs"}, base : Nat, from : ID, to : ID, size : Size]
    \cup [kind : {"ref"}, base : ID, from : ID, to : ID, size : Size]
    \cup [kind : {"unknown"}, size : Size]

ASSUME PackfileAssumption ==
    /\ ZeroID \notin ID
    /\ TypeOf \in [ID -> Type]
    /\ MaxObjects \in Nat
    /\ \A r \in Received : /\ r.pack \in Seq(Entry)
                           /\ r.announced \in Nat \cup {None}
                           /\ r.sum \in {"good", "bad"}

Consistent == {"ErrBadOffset", "ErrObjectNotExist", "BackendError",
               "ErrDelta", "ErrDeltaLength", "TypeError"}

Failure == Consistent \cup {"malformed", "panic", "stream", "ErrChecksum"}

VARIABLES
    pack,         \* the entries of the pack
    announced,    \* the number of objects in its header, None for a bad one
    sum,          \* its footer: "good", "bad" or "none"
    toWrite,      \* the n of the Writer
    prev,         \* its prev: type -> ID, ZeroID for none
    written,      \* the IDs it was given
    objects,      \* the IDs of the objects in the repository
    n,            \* the n of the Reader
    ofs,          \* its ofs: number of an entry -> ID, ZeroID for none
    at,           \* how many entries it has read
    lost,         \* whether the stream is no longer at the end of an entry
    cur,          \* the object at hand: first the base, then the object
    results,      \* what ReadObject returned
    closed,       \* what Close returned
    pc

writing == <<toWrite, prev, written>>
stream == <<pack, announced, sum>>
vars == <<stream, writing, objects, n, ofs, at, lost, cur, results, closed, pc>>

TypeOK ==
    /\ pack \in Seq(Entry)
    /\ announced \in Nat \cup {None}
    /\ sum \in {"good", "bad", "none"}
    /\ toWrite \in 0..MaxObjects
    /\ prev \in [Type -> ID \cup {ZeroID}]
    /\ written \in Seq(ID)
    /\ objects \subseteq ID
    /\ n \in Nat
    /\ ofs \in [DOMAIN ofs -> ID \cup {ZeroID}]
    /\ at \in 0..Len(pack)
    /\ lost \in BOOLEAN
    /\ cur \in ID \cup {ZeroID}
    /\ results \in Seq([err : {"nil"} \cup Failure, id : ID \cup {ZeroID}])
    /\ closed \in {"no", "nil", "stream", "ErrChecksum"}
    /\ pc \in {"write", "start", "read", "resolve", "store", "done"}

(* NewWriter, or a pack from elsewhere.                                    *)
Init ==
    /\ \/ /\ pc = "write"
          /\ announced \in 0..MaxObjects
          /\ toWrite = announced
          /\ pack = << >>
          /\ sum = "none"
       \/ /\ pc = "start"
          /\ \E r \in Received : pack = r.pack /\ announced = r.announced /\ sum = r.sum
          /\ toWrite = 0
    /\ prev = [t \in Type |-> ZeroID]
    /\ written = << >>
    /\ objects \in SUBSET ID
    /\ n = 0
    /\ ofs = << >>
    /\ at = 0
    /\ lost = FALSE
    /\ cur = ZeroID
    /\ results = << >>
    /\ closed = "no"

-----------------------------------------------------------------------------
(* The Writer.                                                             *)

Whole(id) == [kind |-> "object", id |-> id, size |-> "exact"]

DeltaOn(base, from, id) ==
    [kind |-> "ref", base |-> base, from |-> from, to |-> id, size |-> "exact"]

(* (As it would be if the object were hashed in place of its base.)        *)
WriteObjectOwnBase(id) ==
    LET base == prev[TypeOf[id]] IN
    /\ pc = "write"
    /\ toWrite > 0
    /\ \/ pack' = Append(pack, Whole(id))
       \/ base # ZeroID /\ pack' = Append(pack, DeltaOn(id, base, id))
    /\ prev' = [prev EXCEPT ![TypeOf[id]] = id]
    /\ written' = Append(written, id)
    /\ toWrite' = toWrite - 1
    /\ UNCHANGED <<announced, sum, objects, n, ofs, at, lost, cur, results, closed, pc>>

(* WriteObject: a delta on the last object of the same type is written if  *)
(* it is shorter than the object.                                          *)
WriteObject(id) ==
    LET base == prev[TypeOf[id]] IN
    /\ pc = "write"
    /\ toWrite > 0
    /\ \/ pack' = Append(pack, Whole(id))
       \/ base # ZeroID /\ pack' = Append(pack, DeltaOn(base, base, id))
    /\ prev' = [prev EXCEPT ![TypeOf[id]] = id]
    /\ written' = Append(written, id)
    /\ toWrite' = toWrite - 1
    /\ UNCHANGED <<announced, sum, objects, n, ofs, at, lost, cur, results, closed, pc>>

(* A write fails, and what follows is lost.                                *)
WriteFails ==
    /\ pc = "write"
    /\ pc' = "start"
    /\ UNCHANGED <<stream, writing, objects, n, ofs, at, lost, cur, results, closed>>

CloseWriter ==
    /\ pc = "write"
    /\ toWrite = 0
    /\ sum' = "good"
    /\ pc' = "start"
    /\ UNCHANGED <<pack, announced, writing, objects, n, ofs, at, lost, cur, results,
                   closed>>

-----------------------------------------------------------------------------
(* The Reader.                                                             *)

NewReader ==
    /\ pc = "start"
    /\ \/ /\ announced # None
          /\ n' = announced
          /\ ofs' = [j \in 1..Len(pack) |-> ZeroID]
          /\ pc' = "read"
       \/ /\ announced = None
          /\ pc' = "done"
          /\ UNCHANGED <<n, ofs>>
    /\ UNCHANGED <<stream, writing, objects, at, lost, cur, results, closed>>

(* ReadObject returns.  Its caller may go on after the errors that leave   *)
(* the Reader in a consistent state.                                       *)
Return(err, id) ==
    /\ results' = Append(results, [err |-> err, id |-> id])
    /\ pc' = IF err \in Consistent \cup {"nil"} THEN "read" ELSE "done"
    /\ cur' = ZeroID

GoOn(label, id) == cur' = id /\ pc' = label /\ UNCHANGED results

Next1 == pack[at + 1]

(* The stream ends, what is there is no entry, the body is shorter than    *)
(* its size, or the offset to the base is no int64.                        *)
ReadFails ==
    /\ pc = "read"
    /\ n > 0
    /\ \/ lost
       \/ at = Len(pack)
       \/ at < Len(pack) /\ Next1.size = "long"
       \/ at < Len(pack) /\ Next1.kind = "ofs" /\ Next1.base = 0
    /\ Return("stream", ZeroID)
    /\ UNCHANGED <<stream, writing, objects, n, ofs, at, lost, closed>>

(* What ReadObject does to the stream.  When the body is longer than its   *)
(* size, flushZlib notices nothing: if it is longer by one byte the stream *)
(* is read to its end, and else some of it is left over.                   *)
ReadBody ==
    /\ pc = "read"
    /\ n > 0
    /\ ~ lost
    /\ at < Len(pack)
    /\ Next1.size # "long"
    /\ n' = n - 1
    /\ at' = at + 1
    /\ lost' \in (IF Next1.size = "short" THEN BOOLEAN ELSE {FALSE})
    /\ UNCHANGED <<stream, writing, objects, ofs, closed>>

SameType(id) == {other \in ID : TypeOf[other] = TypeOf[id]}

(* A body that is cut short is malformed or that of another object.        *)
ReadWhole ==
    /\ ReadBody
    /\ Next1.kind = "object"
    /\ \/ Next1.size = "exact" /\ GoOn("store", Next1.id)
       \/ /\ Next1.size = "short"
          /\ \/ Return("malformed", ZeroID)
             \/ \E id \in SameType(Next1.id) \ {Next1.id} : GoOn("store", id)

BaseID(e) ==
    IF e.kind = "ref" THEN e.base
    ELSE IF e.base \in DOMAIN ofs THEN ofs[e.base] ELSE ZeroID

ReadDelta ==
    /\ ReadBody
    /\ Next1.kind \in {"ofs", "ref"}
    /\ IF BaseID(Next1) = ZeroID THEN Return("ErrBadOffset", ZeroID)
       ELSE GoOn("resolve", BaseID(Next1))

(* A reserved type, or a delta on ZeroID.                                  *)
ReadUnknown ==
    /\ ReadBody
    /\ Next1.kind = "unknown"
    /\ Return("TypeError", ZeroID)

(* What applyDelta and unmarshalObj make of an entry and its base.         *)
Outcomes(e, base) ==
    IF e.size = "exact" /\ base = e.from THEN {e.to}
    ELSE {"ErrDelta", "ErrDeltaLength", "panic", "malformed"} \cup SameType(base)

Resolve ==
    /\ pc = "resolve"
    /\ \/ Return("BackendError", ZeroID)
       \/ cur \notin objects /\ Return("ErrObjectNotExist", ZeroID)
       \/ /\ cur \in objects
          /\ \E r \in Outcomes(pack[at], cur) :
                IF r \in ID THEN GoOn("store", r) ELSE Return(r, ZeroID)
    /\ UNCHANGED <<stream, writing, objects, n, ofs, at, lost, closed>>

(* (As it would be if an object's position were that of its end.)          *)
StoreAtEnd ==
    /\ pc = "store"
    /\ \/ objects' = objects \cup {cur} /\ Return("nil", cur)
       \/ objects' = objects /\ Return("BackendError", cur)
    /\ ofs' = [j \in DOMAIN ofs |-> IF j = at + 1 THEN cur ELSE ofs[j]]
    /\ UNCHANGED <<stream, writing, n, at, lost, closed>>

(* (As it would be if ReadObject returned when PutObject fails.)           *)
StoreOrNot ==
    /\ pc = "store"
    /\ \/ /\ objects' = objects \cup {cur}
          /\ ofs' = [ofs EXCEPT ![at] = cur]
          /\ Return("nil", cur)
       \/ objects' = objects /\ ofs' = ofs /\ Return("BackendError", cur)
    /\ UNCHANGED <<stream, writing, n, at, lost, closed>>

(* The object is put into the repository.  Its position is remembered even *)
(* if that fails.                                                          *)
Store ==
    /\ pc = "store"
    /\ \/ objects' = objects \cup {cur} /\ Return("nil", cur)
       \/ objects' = objects /\ Return("BackendError", cur)
    /\ ofs' = [ofs EXCEPT ![at] = cur]
    /\ UNCHANGED <<stream, writing, n, at, lost, closed>>

(* Close takes the next bytes for the checksum.                            *)
Close ==
    /\ pc = "read"
    /\ n = 0
    /\ closed' \in (IF ~ lost /\ at = Len(pack) /\ sum = "good" THEN {"nil"}
                    ELSE IF ~ lost /\ at = Len(pack) /\ sum = "bad" THEN {"ErrChecksum"}
                    ELSE {"stream", "ErrChecksum"})
    /\ pc' = "done"
    /\ UNCHANGED <<stream, writing, objects, n, ofs, at, lost, cur, results>>

(* The caller gives up, as unpack does after the first error.              *)
Stop ==
    /\ pc = "read"
    /\ pc' = "done"
    /\ UNCHANGED <<stream, writing, objects, n, ofs, at, lost, cur, results, closed>>

(* Another goroutine stores an object.                                     *)
PutObject ==
    /\ pc \in {"read", "resolve", "store"}
    /\ \E id \in ID \ objects : objects' = objects \cup {id}
    /\ UNCHANGED <<stream, writing, n, ofs, at, lost, cur, results, closed, pc>>

Next ==
    \/ (\E id \in ID : WriteObject(id)) \/ WriteFails \/ CloseWriter
    \/ NewReader \/ ReadFails \/ ReadWhole \/ ReadDelta \/ ReadUnknown
    \/ Resolve \/ Store \/ Close \/ Stop \/ PutObject

Spec == Init /\ [][Next]_vars

-----------------------------------------------------------------------------
(* Properties.                                                             *)

SizesTrue == \A j \in 1..at : pack[j].size = "exact"

(* The object that an entry stands for by itself and the entries before    *)
(* it, ZeroID if these do not say.                                         *)
Encoded ==
    LET enc[j \in 1..at] ==
            LET e == pack[j]
                base == IF e.kind = "ref" THEN e.base
                        ELSE IF e.base \in 1..(j - 1) THEN enc[e.base] ELSE ZeroID
            IN  CASE e.kind = "object"          -> e.id
                  [] e.kind \in {"ofs", "ref"}  -> IF base = e.from THEN e.to ELSE ZeroID
                  [] e.kind = "unknown"         -> ZeroID
    IN  enc

(* As long as the sizes in the headers are true, the j-th ReadObject is    *)
(* about the j-th entry whatever the errors before it, and the object it   *)
(* returns is the one that entry stands for, through chains of deltas and  *)
(* whatever else the repository holds.                                     *)
ObjectsAreRight ==
    SizesTrue =>
        \A j \in DOMAIN results :
            /\ results[j].err = "nil" /\ Encoded[j] # ZeroID => results[j].id = Encoded[j]
            /\ results[j].id # ZeroID => results[j].id \in {ofs[j]}

(* "Even if PutObject fails [...] any deltas using it as a base will fail, *)
(* but at least they won't do so with an incorrect ErrBadOffset error":    *)
(* an offset is bad only if no object was returned for what it points at.  *)
BadOffsetsAreBad ==
    \A j \in DOMAIN results :
        results[j].err = "ErrBadOffset" =>
            \/ pack[j].base \notin 1..(j - 1)
            \/ results[pack[j].base].id = ZeroID

(* What is written can be read: a Reader with any repository gets the      *)
(* objects that the Writer was given, each from what came before it, and   *)
(* their number and the checksum are right.  Only a stream that breaks or  *)
(* a repository that fails can come in between.                            *)
WrittenIsRead ==
    written # << >> =>
        /\ (\A j \in DOMAIN results : results[j].err # "BackendError") =>
              \A j \in DOMAIN results :
                  \/ j > Len(written) /\ sum = "none" /\ results[j].err = "stream"
                  \/ /\ j <= Len(written)
                     /\ results[j] = [err |-> "nil", id |-> written[j]]
        /\ sum = "good" => closed \in {"no", "nil"}

(* "When err is one of the following values, the Reader is guaranteed to   *)
(* be in a consistent state, i.e. it is safe to continue reading objects   *)
(* from it."                                                               *)
SafeToContinue ==
    results # << >> /\ results[Len(results)].err \in Consistent => ~ lost
=============================================================================
