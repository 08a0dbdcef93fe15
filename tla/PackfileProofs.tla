--------------------------- MODULE PackfileProofs ---------------------------
(***************************************************************************)
(* Proofs about Packfile's Reader, for packs of any length with any        *)
(* entries in them, any repository and any errors: what it remembers of    *)
(* the positions in the stream is what it returned, so that an offset is   *)
(* called bad only if it is; an object it returns is the one its entry     *)
(* stands for, through any chain of deltas; and what a Writer wrote a      *)
(* Reader reads.                                                           *)
(***************************************************************************)
EXTENDS Packfile, WellFoundedInduction, TLAPS

Began == {"read", "resolve", "store", "done"}

(* How many objects have been returned: one for each entry that was read,  *)
(* short of the one at hand, and maybe one for what could not be read.     *)
Counted ==
    /\ pc \in {"write", "start"} => results = << >> /\ at = 0
    /\ pc = "read" => Len(results) = at
    /\ pc \in {"resolve", "store"} => Len(results) + 1 = at
    /\ pc \in {"resolve", "store"} => cur \in ID
    /\ pc = "resolve" => pack[at].kind \in {"ofs", "ref"}

(* ofs has each object that was returned, also one that could not be       *)
(* stored, and nothing of the entries to come.                             *)
Remembered ==
    /\ pc \in Began \ {"done"} => DOMAIN ofs = 1..Len(pack)
    /\ \A j \in DOMAIN ofs :
           ofs[j] = IF j \in DOMAIN results THEN results[j].id ELSE ZeroID

Inv == TypeOK /\ Counted /\ Remembered /\ BadOffsetsAreBad

(* What ReadObject returns.                                                *)
Result == [err : {"nil"} \cup Failure, id : ID \cup {ZeroID}]

-----------------------------------------------------------------------------
(* Before the Reader is made nothing was returned.                         *)
LEMMA Initially == Init => Inv
<1>. SUFFICES ASSUME Init PROVE Inv
  OBVIOUS
<1>1. TypeOK
  <2>1. /\ pack \in Seq(Entry)
        /\ announced \in Nat \cup {None}
        /\ sum \in {"good", "bad", "none"}
        /\ toWrite \in 0..MaxObjects
        /\ pc \in {"write", "start"}
    <3>1. CASE pc = "write"
      <4>1. MaxObjects \in Nat  BY PackfileAssumption
      <4>2. announced \in 0..MaxObjects /\ toWrite = announced /\ pack = << >> /\ sum = "none"
        BY <3>1 DEF Init
      <4>. QED  BY <3>1, <4>1, <4>2
    <3>2. CASE pc = "start"
      <4>1. PICK p \in Received : pack = p.pack /\ announced = p.announced /\ sum = p.sum
        BY <3>2 DEF Init
      <4>2. toWrite = 0 /\ MaxObjects \in Nat  BY <3>2, PackfileAssumption DEF Init
      <4>. QED  BY <3>2, <4>1, <4>2, PackfileAssumption
    <3>. QED  BY <3>1, <3>2 DEF Init
  <2>2. ofs \in [DOMAIN ofs -> ID \cup {ZeroID}]  BY DEF Init
  <2>3. 0 \in 0..Len(pack)  BY <2>1
  <2>4. /\ prev \in [Type -> ID \cup {ZeroID}] /\ written \in Seq(ID) /\ objects \subseteq ID
        /\ n \in Nat /\ cur \in ID \cup {ZeroID}
        /\ closed \in {"no", "nil", "stream", "ErrChecksum"} /\ at = 0
    BY DEF Init
  <2>5. results \in Seq(Result) /\ lost \in BOOLEAN
    <3>1. results \in Seq(Result)  BY DEF Init
    <3>2. lost \in BOOLEAN  BY DEF Init
    <3>. QED  BY <3>1, <3>2
  <2>. QED  BY <2>1, <2>2, <2>3, <2>4, <2>5 DEF TypeOK, Result
<1>2. results = << >> /\ ofs = << >> /\ at = 0 /\ pc \in {"write", "start"}  BY DEF Init
<1>3. DOMAIN results = {} /\ DOMAIN ofs = {}  BY <1>2
<1>. QED  BY <1>1, <1>2, <1>3 DEF Inv, Counted, Remembered, BadOffsetsAreBad, Began

(* What Append does to results.                                            *)
LEMMA AppendedResult ==
    ASSUME TypeOK, NEW r \in Result, results' = Append(results, r)
    PROVE  /\ results' \in Seq(Result)
           /\ Len(results') = Len(results) + 1
           /\ DOMAIN results' = DOMAIN results \cup {Len(results) + 1}
           /\ Len(results) + 1 \notin DOMAIN results
           /\ results'[Len(results) + 1] = r
           /\ \A j \in DOMAIN results : results'[j] = results[j]
BY DEF TypeOK, Result

-----------------------------------------------------------------------------
(* The Writer and the constructors do not return objects.                  *)
LEMMA WriteObjectKeepsInv ==
    ASSUME Inv, NEW id \in ID, WriteObject(id)
    PROVE  Inv'
<1>. USE DEF Inv, WriteObject
<1>1. TypeOK'
  <2>1. TypeOf[id] \in Type /\ prev[TypeOf[id]] \in ID \cup {ZeroID}
    BY PackfileAssumption DEF TypeOK
  <2>2. Whole(id) \in Entry  BY DEF Whole, Entry, Size
  <2>3. ASSUME NEW base \in ID  PROVE DeltaOn(base, base, id) \in Entry
    <3>1. "exact" \in Size  BY DEF Size
    <3>2. DeltaOn(base, base, id) \in
              [kind : {"ref"}, base : ID, from : ID, to : ID, size : Size]
      BY <3>1 DEF DeltaOn
    <3>. QED  BY <3>2 DEF Entry
  <2>4. pack' \in Seq(Entry)
    <3>1. pack \in Seq(Entry)  BY DEF TypeOK
    <3>2. \E e \in Entry : pack' = Append(pack, e)  BY <2>1, <2>2, <2>3
    <3>. QED  BY <3>1, <3>2
  <2>5. at' \in 0..Len(pack')  BY <2>4 DEF Counted
  <2>6. prev' \in [Type -> ID \cup {ZeroID}]  BY DEF TypeOK
  <2>7. toWrite' \in 0..MaxObjects  BY PackfileAssumption DEF TypeOK
  <2>8. written' \in Seq(ID)  BY DEF TypeOK
  <2>. QED  BY <2>4, <2>5, <2>6, <2>7, <2>8 DEF TypeOK
<1>2. results = << >> /\ UNCHANGED <<results, ofs, at, pc>> /\ pc = "write"  BY DEF Counted
<1>. QED  BY <1>1, <1>2 DEF Counted, Remembered, BadOffsetsAreBad, Began

(* A Reader begins with no positions remembered.                           *)
LEMMA StartKeepsInv ==
    ASSUME Inv, WriteFails \/ CloseWriter \/ NewReader
    PROVE  Inv'
<1>. USE DEF Inv
<1>1. CASE WriteFails
  BY <1>1 DEF WriteFails, stream, writing, TypeOK, Counted, Remembered, BadOffsetsAreBad, Began
<1>2. CASE CloseWriter
  BY <1>2 DEF CloseWriter, stream, writing, TypeOK, Counted, Remembered, BadOffsetsAreBad, Began
<1>3. CASE NewReader
  <2>. USE <1>3 DEF NewReader, stream, writing
  <2>1. results = << >> /\ at = 0 /\ UNCHANGED <<results, at, pack>>  BY DEF Counted
  <2>2. TypeOK'  BY DEF TypeOK
  <2>3. CASE announced # None
    <3>1. pc' = "read" /\ ofs' = [j \in 1..Len(pack) |-> ZeroID]  BY <2>3
    <3>2. Counted'  BY <2>1, <3>1 DEF Counted
    <3>3. Remembered'  BY <2>1, <3>1 DEF Remembered
    <3>4. BadOffsetsAreBad'  BY <2>1 DEF BadOffsetsAreBad
    <3>. QED  BY <2>2, <3>2, <3>3, <3>4
  <2>4. CASE announced = None
    BY <2>1, <2>2, <2>4 DEF Counted, Remembered, BadOffsetsAreBad, Began
  <2>. QED  BY <2>3, <2>4
<1>. QED  BY <1>1, <1>2, <1>3

-----------------------------------------------------------------------------
(* ReadObject returns without an object.                                   *)
LEMMA ReturnsNothing ==
    ASSUME Inv, NEW err \in Failure, Return(err, ZeroID),
           UNCHANGED <<stream, writing, objects, ofs, closed>>,
           n' \in Nat, at' \in 0..Len(pack), lost' \in BOOLEAN,
           pc \in Began \ {"done"},
           err # "stream" => Len(results) + 1 = at',
           err = "ErrBadOffset" => \/ pack[Len(results) + 1].base \notin 1..Len(results)
                                   \/ results[pack[Len(results) + 1].base].id = ZeroID
    PROVE  Inv'
<1>. USE DEF Inv, stream, writing
<1>. DEFINE r == [err |-> err, id |-> ZeroID]
            k == Len(results) + 1
<1>1. r \in Result  BY DEF Result
<1>2. results' = Append(results, r)  BY DEF Return
<1>3. /\ results' \in Seq(Result) /\ Len(results') = k
      /\ DOMAIN results' = DOMAIN results \cup {k} /\ k \notin DOMAIN results
      /\ results'[k] = r /\ \A j \in DOMAIN results : results'[j] = results[j]
  BY <1>1, <1>2, AppendedResult
<1>4. pc' \in {"read", "done"} /\ (err = "stream" => pc' = "done") /\ cur' = ZeroID
  BY DEF Return, Consistent, Failure
<1>. HIDE DEF r
<1>5. TypeOK'  BY <1>3, <1>4 DEF TypeOK, Result
<1>6. Counted'  BY <1>3, <1>4 DEF Counted
<1>7. Remembered'  BY <1>3, <1>4 DEF Remembered, Began, r
<1>8. BadOffsetsAreBad'
  <2>. SUFFICES ASSUME NEW j \in DOMAIN results', results'[j].err = "ErrBadOffset"
                PROVE  \/ pack[j].base \notin 1..(j - 1)
                       \/ results'[pack[j].base].id = ZeroID
    BY DEF BadOffsetsAreBad
  <2>0. results \in Seq(Result) /\ DOMAIN results = 1..Len(results)  BY DEF TypeOK, Result
  <2>1. CASE j \in DOMAIN results
    <3>1. 1..(j - 1) \subseteq DOMAIN results  BY <2>0, <2>1
    <3>. QED  BY <1>3, <2>1, <3>1 DEF BadOffsetsAreBad
  <2>2. CASE j = k
    <3>1. err = "ErrBadOffset"  BY <1>3, <2>2 DEF r
    <3>2. 1..(j - 1) = DOMAIN results /\ j - 1 = Len(results)  BY <2>0, <2>2
    <3>. QED  BY <1>3, <2>2, <3>1, <3>2
  <2>. QED  BY <1>3, <2>1, <2>2
<1>. QED  BY <1>5, <1>6, <1>7, <1>8

(* What cannot be read is not counted.                                     *)
LEMMA ReadFailsKeepsInv ==
    ASSUME Inv, ReadFails
    PROVE  Inv'
<1>1. /\ "stream" \in Failure /\ pc = "read" /\ Return("stream", ZeroID)
      /\ UNCHANGED <<stream, writing, objects, n, ofs, at, lost, closed>>
  BY DEF ReadFails, Failure
<1>2. n' \in Nat /\ at' \in 0..Len(pack) /\ lost' \in BOOLEAN  BY <1>1 DEF Inv, TypeOK
<1>. QED  BY <1>1, <1>2, ReturnsNothing DEF Began

(* What is read of an entry.                                               *)
LEMMA BodyIsRead ==
    ASSUME Inv, ReadBody
    PROVE  /\ pc = "read" /\ Len(results) = at /\ at' = at + 1
           /\ n' \in Nat /\ at' \in 1..Len(pack) /\ lost' \in BOOLEAN
           /\ Next1 = pack[at'] /\ Next1 \in Entry
           /\ DOMAIN ofs = 1..Len(pack)
           /\ UNCHANGED <<stream, writing, objects, ofs, closed>>
<1>. USE DEF Inv, ReadBody
<1>1. pack \in Seq(Entry) /\ at \in 0..Len(pack) /\ at < Len(pack)  BY DEF TypeOK
<1>2. at + 1 \in 1..Len(pack)  BY <1>1
<1>3. n' \in Nat  BY DEF TypeOK
<1>4. lost' \in BOOLEAN  OBVIOUS
<1>. QED  BY <1>1, <1>2, <1>3, <1>4 DEF Counted, Remembered, Began, Next1

(* ReadObject goes on with an entry: nothing is returned as yet.           *)
LEMMA GoOnKeepsInv ==
    ASSUME Inv, NEW label \in {"resolve", "store"}, NEW id \in ID, GoOn(label, id),
           UNCHANGED <<stream, writing, objects, ofs, closed>>,
           n' \in Nat, at' \in 0..Len(pack), lost' \in BOOLEAN,
           Len(results) + 1 = at', pc \in Began \ {"done"},
           label = "resolve" => pack[at'].kind \in {"ofs", "ref"}
    PROVE  Inv'
<1>. USE DEF Inv, GoOn, stream, writing
<1>1. TypeOK'  BY DEF TypeOK
<1>2. Counted'  BY DEF Counted
<1>3. Remembered'  BY DEF Remembered, Began
<1>4. BadOffsetsAreBad'  BY DEF BadOffsetsAreBad
<1>. QED  BY <1>1, <1>2, <1>3, <1>4

(* An object that is whole needs no base.                                  *)
LEMMA ReadWholeKeepsInv ==
    ASSUME Inv, ReadWhole
    PROVE  Inv'
<1>1. ReadBody /\ Next1.kind = "object"  BY DEF ReadWhole
<1>2. /\ pc = "read" /\ Len(results) + 1 = at'
      /\ n' \in Nat /\ at' \in 0..Len(pack) /\ lost' \in BOOLEAN
      /\ Next1 \in Entry
      /\ UNCHANGED <<stream, writing, objects, ofs, closed>>
  BY <1>1, BodyIsRead
<1>3. CASE GoOn("store", Next1.id)
  <2>1. Next1.id \in ID  BY <1>1, <1>2 DEF Entry
  <2>. QED  BY <1>2, <1>3, <2>1, GoOnKeepsInv DEF Began
<1>4. CASE Return("malformed", ZeroID)
  <2>1. "malformed" \in Failure  BY DEF Failure
  <2>. QED  BY <1>2, <1>4, <2>1, ReturnsNothing DEF Began
<1>5. ASSUME NEW id \in SameType(Next1.id), GoOn("store", id)
      PROVE  Inv'
  <2>1. id \in ID  BY DEF SameType
  <2>. QED  BY <1>2, <1>5, <2>1, GoOnKeepsInv DEF Began
<1>. QED  BY <1>3, <1>4, <1>5 DEF ReadWhole

(* A base that has no ID is not before the delta, or nothing was returned  *)
(* for it.                                                                 *)
LEMMA ReadDeltaKeepsInv ==
    ASSUME Inv, ReadDelta
    PROVE  Inv'
<1>1. ReadBody /\ Next1.kind \in {"ofs", "ref"}  BY DEF ReadDelta
<1>2. /\ pc = "read" /\ Len(results) = at /\ at' = at + 1 /\ Len(results) + 1 = at'
      /\ n' \in Nat /\ at' \in 0..Len(pack) /\ lost' \in BOOLEAN
      /\ Next1 = pack[at'] /\ Next1 \in Entry
      /\ DOMAIN ofs = 1..Len(pack)
      /\ UNCHANGED <<stream, writing, objects, ofs, closed>>
  BY <1>1, BodyIsRead
<1>3. /\ Next1.kind = "ref" => Next1.base \in ID
      /\ Next1.kind = "ofs" => Next1.base \in Nat
  BY <1>2 DEF Entry
<1>4. CASE BaseID(Next1) = ZeroID
  <2>1. Return("ErrBadOffset", ZeroID) /\ "ErrBadOffset" \in Failure
    BY <1>4 DEF ReadDelta, Failure, Consistent
  <2>2. Next1.kind = "ofs"  BY <1>1, <1>3, <1>4, PackfileAssumption DEF BaseID
  <2>3. \/ Next1.base \notin DOMAIN ofs
        \/ Next1.base \in DOMAIN ofs /\ ofs[Next1.base] = ZeroID
    BY <1>4, <2>2 DEF BaseID
  <2>4. 1..Len(results) \subseteq DOMAIN ofs /\ DOMAIN results = 1..Len(results)
    BY <1>2 DEF Inv, TypeOK
  <2>5. \/ Next1.base \notin 1..Len(results)
        \/ results[Next1.base].id = ZeroID
    BY <2>3, <2>4 DEF Inv, Remembered
  <2>6. Next1 = pack[Len(results) + 1]  BY <1>2
  <2>. QED  BY <1>2, <2>1, <2>5, <2>6, ReturnsNothing DEF Began
<1>5. CASE BaseID(Next1) # ZeroID
  <2>1. GoOn("resolve", BaseID(Next1))  BY <1>5 DEF ReadDelta
  <2>2. BaseID(Next1) \in ID  BY <1>1, <1>3, <1>5 DEF BaseID, Inv, TypeOK
  <2>3. pack[at'].kind \in {"ofs", "ref"}  BY <1>1, <1>2
  <2>. QED  BY <1>2, <2>1, <2>2, <2>3, GoOnKeepsInv DEF Began
<1>. QED  BY <1>4, <1>5

(* A type that is none, or a delta on nothing.                             *)
LEMMA ReadUnknownKeepsInv ==
    ASSUME Inv, ReadUnknown
    PROVE  Inv'
<1>1. ReadBody /\ Return("TypeError", ZeroID)  BY DEF ReadUnknown
<1>2. /\ pc = "read" /\ Len(results) + 1 = at'
      /\ n' \in Nat /\ at' \in 0..Len(pack) /\ lost' \in BOOLEAN
      /\ UNCHANGED <<stream, writing, objects, ofs, closed>>
  BY <1>1, BodyIsRead
<1>3. "TypeError" \in Failure  BY DEF Failure, Consistent
<1>. QED  BY <1>1, <1>2, <1>3, ReturnsNothing DEF Began

(* The base is there or not, and the delta fits it or not.                 *)
LEMMA ResolveKeepsInv ==
    ASSUME Inv, Resolve
    PROVE  Inv'
<1>1. /\ pc = "resolve" /\ Len(results) + 1 = at'
      /\ n' \in Nat /\ at' \in 0..Len(pack) /\ lost' \in BOOLEAN
      /\ pack[at].kind \in {"ofs", "ref"} /\ at \in DOMAIN pack /\ pack[at] \in Entry
      /\ UNCHANGED <<stream, writing, objects, n, ofs, at, lost, closed>>
  BY DEF Inv, Resolve, TypeOK, Counted
<1>2. ASSUME NEW err \in Failure \ {"ErrBadOffset"}, Return(err, ZeroID)
      PROVE  Inv'
  BY <1>1, <1>2, ReturnsNothing DEF Began
<1>3. ASSUME NEW id \in ID, GoOn("store", id)
      PROVE  Inv'
  BY <1>1, <1>3, GoOnKeepsInv DEF Began
<1>4. pack[at].to \in ID  BY <1>1 DEF Entry
<1>5. {"BackendError", "ErrObjectNotExist", "ErrDelta", "ErrDeltaLength", "panic", "malformed"}
          \subseteq Failure \ {"ErrBadOffset"}
  BY DEF Failure, Consistent
<1>6. Outcomes(pack[at], cur) \subseteq ID \cup (Failure \ {"ErrBadOffset"})
  BY <1>4, <1>5 DEF Outcomes, SameType
<1>. QED  BY <1>2, <1>3, <1>5, <1>6 DEF Resolve

(* What is returned is remembered, whether it could be stored or not.      *)
LEMMA StoreKeepsInv ==
    ASSUME Inv, Store
    PROVE  Inv'
<1>. USE DEF Inv, stream, writing
<1>1. PICK err \in {"nil", "BackendError"} : Return(err, cur)  BY DEF Store
<1>. DEFINE r == [err |-> err, id |-> cur]
<1>2. r \in Result  BY DEF Result, TypeOK, Failure, Consistent
<1>3. results' = Append(results, r) /\ pc' = "read" /\ cur' = ZeroID
  BY <1>1 DEF Return, Consistent
<1>4. /\ results' \in Seq(Result) /\ Len(results') = Len(results) + 1
      /\ DOMAIN results' = DOMAIN results \cup {Len(results) + 1}
      /\ Len(results) + 1 \notin DOMAIN results
      /\ results'[Len(results) + 1] = r /\ \A j \in DOMAIN results : results'[j] = results[j]
  BY <1>2, <1>3, AppendedResult
<1>5. /\ pc = "store" /\ Len(results) + 1 = at /\ DOMAIN ofs = 1..Len(pack)
      /\ UNCHANGED <<stream, writing, n, at, lost, closed>>
      /\ ofs' = [ofs EXCEPT ![at] = cur]
      /\ objects' \subseteq objects \cup {cur}
  BY DEF Store, Counted, Remembered, Began
<1>. HIDE DEF r
<1>6. TypeOK'
  <2>1. ofs' \in [DOMAIN ofs' -> ID \cup {ZeroID}]  BY <1>5 DEF TypeOK
  <2>2. objects' \subseteq ID  BY <1>5 DEF TypeOK, Counted
  <2>. QED  BY <1>3, <1>4, <1>5, <2>1, <2>2 DEF TypeOK, Result
<1>7. Counted'  BY <1>3, <1>4, <1>5 DEF Counted
<1>8. Remembered'  BY <1>3, <1>4, <1>5 DEF Remembered, r
<1>9. BadOffsetsAreBad'
  <2>. SUFFICES ASSUME NEW j \in DOMAIN results', results'[j].err = "ErrBadOffset"
                PROVE  \/ pack[j].base \notin 1..(j - 1)
                       \/ results'[pack[j].base].id = ZeroID
    BY <1>5 DEF BadOffsetsAreBad
  <2>1. j \in DOMAIN results  BY <1>4 DEF r
  <2>2. 1..(j - 1) \subseteq DOMAIN results  BY <2>1 DEF TypeOK
  <2>. QED  BY <1>4, <2>1, <2>2 DEF BadOffsetsAreBad
<1>. QED  BY <1>6, <1>7, <1>8, <1>9

(* The Reader is closed or given up, or the repository grows.              *)
LEMMA OthersKeepInv ==
    ASSUME Inv, Close \/ Stop \/ PutObject
    PROVE  Inv'
<1>. USE DEF Inv, stream, writing
<1>1. UNCHANGED <<pack, ofs, at, cur, results>> /\ pc' \in {pc, "done"} /\ pc # "write"
  BY DEF Close, Stop, PutObject
<1>2. TypeOK'  BY DEF TypeOK, Close, Stop, PutObject
<1>3. Counted' /\ Remembered' /\ BadOffsetsAreBad'
  BY <1>1 DEF Counted, Remembered, BadOffsetsAreBad, Began
<1>. QED  BY <1>2, <1>3

(* Every step keeps the invariant.                                         *)
LEMMA Inductive == Inv /\ [Next]_vars => Inv'
<1>. SUFFICES ASSUME Inv, [Next]_vars
              PROVE  Inv'
  OBVIOUS
<1>1. CASE UNCHANGED vars
  BY <1>1 DEF vars, stream, writing, Inv, TypeOK, Counted, Remembered, BadOffsetsAreBad, Began
<1>2. CASE \E id \in ID : WriteObject(id)  BY <1>2, WriteObjectKeepsInv
<1>3. CASE WriteFails \/ CloseWriter \/ NewReader  BY <1>3, StartKeepsInv
<1>4. CASE ReadFails  BY <1>4, ReadFailsKeepsInv
<1>5. CASE ReadWhole  BY <1>5, ReadWholeKeepsInv
<1>6. CASE ReadDelta  BY <1>6, ReadDeltaKeepsInv
<1>7. CASE ReadUnknown  BY <1>7, ReadUnknownKeepsInv
<1>8. CASE Resolve  BY <1>8, ResolveKeepsInv
<1>9. CASE Store  BY <1>9, StoreKeepsInv
<1>10. CASE Close \/ Stop \/ PutObject  BY <1>10, OthersKeepInv
<1>. QED
  BY <1>1, <1>2, <1>3, <1>4, <1>5, <1>6, <1>7, <1>8, <1>9, <1>10 DEF Next

-----------------------------------------------------------------------------
(* The invariant: the Reader has one result for each entry before the one  *)
(* at hand, and remembers what each of them is.                            *)
THEOREM Invariance == Spec => []Inv
<1>. QED  BY Initially, Inductive, PTL DEF Spec

(* An offset is called bad only if it points at no object that was         *)
(* returned, whatever failed before.                                       *)
THEOREM BadOffsetsAreNamed == Spec => []BadOffsetsAreBad
<1>1. Inv => BadOffsetsAreBad  BY DEF Inv
<1>. QED  BY <1>1, Invariance, PTL
-----------------------------------------------------------------------------
(* What the entries of a pack stand for.  Encoded is a recursive function, *)
(* whose value is unknown until its equation is shown to have a solution.  *)

(* Numbers are well ordered, which is what inductions below rest on.       *)
LEMMA Least ==
    ASSUME NEW S \in SUBSET Nat, S # {}
    PROVE  \E m \in S : \A k \in S : m <= k
<1>. DEFINE R == {ss \in Nat \X Nat : ss[1] < ss[2]}
<1>1. IsWellFoundedOn(R, Nat)  BY NatLessThanWellFounded DEF OpToRel
<1>2. \A k, m \in Nat : k < m => <<k, m>> \in R  OBVIOUS
<1>. HIDE DEF R
<1>3. PICK m \in S : \A k \in S : ~ (<<k, m>> \in R)  BY <1>1, WFMin
<1>4. \A k \in S : k \in Nat /\ m \in Nat /\ ~ (k < m)  BY <1>2, <1>3
<1>5. \A k \in S : m <= k  BY <1>4
<1>. QED  BY <1>5

(* The base of the j-th entry of p, if those before stand for enc.         *)
BaseOf(p, enc, j) ==
    IF p[j].kind = "ref" THEN p[j].base
    ELSE IF p[j].base \in 1..(j - 1) THEN enc[p[j].base] ELSE ZeroID

StandsFor(p, enc, j) ==
    CASE p[j].kind = "object"          -> p[j].id
      [] p[j].kind \in {"ofs", "ref"}  -> IF BaseOf(p, enc, j) = p[j].from THEN p[j].to ELSE ZeroID
      [] p[j].kind = "unknown"         -> ZeroID

Solves(p, enc, k) == enc = [j \in 1..k |-> StandsFor(p, enc, j)]

(* An entry depends on those before it alone.                              *)
LEMMA StandsForDependsOn ==
    ASSUME NEW p, NEW f, NEW g, NEW j \in Nat, \A i \in 1..(j - 1) : f[i] = g[i]
    PROVE  StandsFor(p, f, j) = StandsFor(p, g, j)
<1>1. BaseOf(p, f, j) = BaseOf(p, g, j)  BY DEF BaseOf
<1>. QED  BY <1>1 DEF StandsFor

(* Two solutions agree as far as both go.                                  *)
LEMMA SolutionsAgree ==
    ASSUME NEW p, NEW k \in Nat, NEW m \in Nat, NEW f, NEW g,
           Solves(p, f, k), Solves(p, g, m), NEW j \in 1..k, j \in 1..m
    PROVE  f[j] = g[j]
<1>. DEFINE S == {i \in Nat : i \in 1..k /\ i \in 1..m /\ f[i] # g[i]}
<1>. SUFFICES ASSUME S # {} PROVE FALSE
  OBVIOUS
<1>1. PICK i \in S : \A h \in S : i <= h
  <2>. HIDE DEF S
  <2>1. S \in SUBSET Nat  BY DEF S
  <2>. QED  BY <2>1, Least
<1>2. \A h \in 1..(i - 1) : h \notin S /\ h \in Nat /\ h \in 1..k /\ h \in 1..m  BY <1>1
<1>3. \A h \in 1..(i - 1) : f[h] = g[h]  BY <1>2
<1>4. StandsFor(p, f, i) = StandsFor(p, g, i)  BY <1>3, StandsForDependsOn
<1>5. f[i] = StandsFor(p, f, i) /\ g[i] = StandsFor(p, g, i)  BY DEF Solves
<1>. QED  BY <1>4, <1>5

(* A solution can be had for any number of entries: one more entry stands  *)
(* for what those before it say.                                           *)
LEMMA SolutionExists ==
    ASSUME NEW p, NEW k \in Nat
    PROVE  \E enc : Solves(p, enc, k)
<1>. DEFINE S == {i \in Nat : ~ \E enc : Solves(p, enc, i)}
<1>. SUFFICES ASSUME S # {} PROVE FALSE
  OBVIOUS
<1>1. PICK i \in S : \A h \in S : i <= h
  <2>. HIDE DEF S
  <2>1. S \in SUBSET Nat  BY DEF S
  <2>. QED  BY <2>1, Least
<1>2. CASE i = 0
  <2>1. Solves(p, << >>, 0)  BY DEF Solves
  <2>. QED  BY <1>1, <1>2, <2>1
<1>3. CASE i # 0
  <2>1. i - 1 \in Nat /\ i - 1 \notin S  BY <1>1, <1>3
  <2>2. PICK enc : Solves(p, enc, i - 1)  BY <2>1
  <2>. DEFINE more == [j \in 1..i |-> IF j = i THEN StandsFor(p, enc, i) ELSE enc[j]]
  <2>3. \A j \in 1..i : \A h \in 1..(j - 1) : more[h] = enc[h]  OBVIOUS
  <2>4. \A j \in 1..i : StandsFor(p, more, j) = StandsFor(p, enc, j)
    <3>. HIDE DEF more
    <3>. QED  BY <2>3, StandsForDependsOn
  <2>5. \A j \in 1..(i - 1) : enc[j] = StandsFor(p, enc, j)  BY <2>2 DEF Solves
  <2>6. \A j \in 1..i : more[j] = StandsFor(p, more, j)  BY <2>4, <2>5
  <2>7. Solves(p, more, i)  BY <2>6, SMTT(30) DEF Solves
  <2>. QED  BY <1>1, <2>7
<1>. QED  BY <1>2, <1>3

(* Encoded is the solution for the entries that have been read.            *)
LEMMA EncodedSolves ==
    /\ TypeOK => Solves(pack, Encoded, at)
    /\ TypeOK' => Solves(pack', Encoded', at')
<1>1. /\ TypeOK => at \in Nat
      /\ TypeOK' => at' \in Nat
  BY DEF TypeOK
<1>2. /\ TypeOK => \E enc : Solves(pack, enc, at)
      /\ TypeOK' => \E enc : Solves(pack', enc, at')
  BY <1>1, SolutionExists
<1>. QED  BY <1>2 DEF Encoded, Solves, StandsFor, BaseOf

(* As more entries are read, those that were read stand for the same.      *)
LEMMA EncodedStays ==
    ASSUME TypeOK, TypeOK', pack' = pack, at' >= at, NEW j \in 1..at
    PROVE  Encoded'[j] = Encoded[j]
<1>1. Solves(pack, Encoded, at) /\ Solves(pack, Encoded', at')  BY EncodedSolves
<1>2. at\in Nat /\ at' \in Nat /\ j \in 1..at'  BY DEF TypeOK
<1>. QED  BY <1>1, <1>2, SolutionsAgree

(* The j-th result is about the j-th entry, for errors too.                *)
ResultsAreRight ==
    \A j \in DOMAIN results :
        results[j].id # ZeroID =>
            /\ j \in 1..at /\ j \in DOMAIN ofs
            /\ SizesTrue /\ Encoded[j] # ZeroID => results[j].id = Encoded[j]

(* The object at hand is the base of the entry at hand, then what the      *)
(* entry stands for.                                                       *)
AtHandIsRight ==
    /\ pc = "resolve" /\ SizesTrue =>
          \/ pack[at].kind = "ref" /\ cur = pack[at].base
          \/ pack[at].kind = "ofs" /\ pack[at].base \in 1..(at - 1) /\ cur = ofs[pack[at].base]
    /\ pc = "store" /\ SizesTrue => Encoded[at] \in {cur, ZeroID}

(* What is returned without an error is some object.                       *)
NilHasObject ==
    \A j \in DOMAIN results : results[j].err = "nil" => results[j].id # ZeroID

Right == Inv /\ ResultsAreRight /\ AtHandIsRight

(* Nothing changes but that more may be known of the sizes.                *)
LEMMA RightIsKept ==
    ASSUME Right, Inv', UNCHANGED <<pack, at, results>>,
           \A j \in DOMAIN ofs : j \in DOMAIN ofs',
           (pc' = pc /\ cur' = cur /\ ofs' = ofs) \/ pc' \notin {"resolve", "store"}
    PROVE  Right'
<1>. USE DEF Right
<1>1. SizesTrue' <=> SizesTrue  BY DEF SizesTrue
<1>2. \A j \in 1..at : Encoded'[j] = Encoded[j]  BY EncodedStays DEF Inv, TypeOK
<1>3. ResultsAreRight'  BY <1>1, <1>2 DEF ResultsAreRight
<1>4. AtHandIsRight'
  <2>1. pc' \in {"resolve", "store"} => at \in 1..at  BY DEF Inv, TypeOK, Counted
  <2>. QED  BY <1>1, <1>2, <2>1 DEF AtHandIsRight
<1>. QED  BY <1>3, <1>4

(* A result without an object says nothing.                                *)
LEMMA NothingIsRight ==
    ASSUME Right, Inv', NEW err \in Failure, Return(err, ZeroID),
           UNCHANGED <<pack, ofs>>, at' \in {at, at + 1}
    PROVE  Right'
<1>. USE DEF Right
<1>. DEFINE r == [err |-> err, id |-> ZeroID]
<1>1. r \in Result  BY DEF Result
<1>2. results' = Append(results, r) /\ TypeOK  BY DEF Return, Inv
<1>3. /\ DOMAIN results' = DOMAIN results \cup {Len(results) + 1}
      /\ results'[Len(results) + 1] = r
      /\ \A j \in DOMAIN results : results'[j] = results[j]
  BY <1>1, <1>2, AppendedResult
<1>4. pc' \in {"read", "done"}  BY DEF Return
<1>5. SizesTrue' => SizesTrue  BY DEF SizesTrue, Inv, TypeOK
<1>6. \A j \in 1..at : j \in 1..at' /\ Encoded'[j] = Encoded[j]
  <2>1. at \in Nat /\ at' >= at  BY DEF Inv, TypeOK
  <2>. QED  BY <2>1, EncodedStays DEF Inv
<1>. HIDE DEF r
<1>7. ResultsAreRight'  BY <1>3, <1>5, <1>6 DEF ResultsAreRight, r
<1>. QED  BY <1>4, <1>7 DEF AtHandIsRight

(* An entry is read, and nothing is returned as yet.                       *)
LEMMA GoingOnIsRight ==
    ASSUME Right, Inv', NEW label \in {"resolve", "store"}, NEW id, GoOn(label, id),
           UNCHANGED <<pack, ofs>>, at' \in {at, at + 1}, AtHandIsRight'
    PROVE  Right'
<1>. USE DEF Right, GoOn
<1>1. SizesTrue' => SizesTrue  BY DEF SizesTrue, Inv, TypeOK
<1>2. \A j \in 1..at : j \in 1..at' /\ Encoded'[j] = Encoded[j]
  <2>1. at \in Nat /\ at' >= at  BY DEF Inv, TypeOK
  <2>. QED  BY <2>1, EncodedStays DEF Inv
<1>3. ResultsAreRight'  BY <1>1, <1>2 DEF ResultsAreRight
<1>. QED  BY <1>3

(* A whole object stands for itself.                                       *)
LEMMA ReadWholeIsRight ==
    ASSUME Right, Inv', ReadWhole
    PROVE  Right'
<1>1. ReadBody /\ Next1.kind = "object" /\ Inv  BY DEF ReadWhole, Right
<1>2. /\ at' = at + 1 /\ at' \in 1..Len(pack) /\ Next1 = pack[at'] /\ Next1 \in Entry
      /\ UNCHANGED <<pack, ofs>>
  BY <1>1, BodyIsRead DEF stream
<1>3. CASE Return("malformed", ZeroID)
  <2>1. "malformed" \in Failure  BY DEF Failure
  <2>. QED  BY <1>2, <1>3, <2>1, NothingIsRight
<1>4. ASSUME NEW id, GoOn("store", id), SizesTrue' => id = Next1.id
      PROVE  Right'
  <2>1. Solves(pack', Encoded', at')  BY EncodedSolves DEF Inv
  <2>2. Encoded'[at'] = Next1.id
    <3>1. at' \in 1..at'  BY <1>2
    <3>2. Encoded'[at'] = StandsFor(pack, Encoded', at')  BY <1>2, <2>1, <3>1 DEF Solves
    <3>. QED  BY <1>1, <1>2, <3>2 DEF StandsFor
  <2>3. AtHandIsRight'  BY <1>4, <2>2 DEF AtHandIsRight, GoOn
  <2>. QED  BY <1>2, <1>4, <2>3, GoingOnIsRight
<1>5. Next1.size = "short" => ~ SizesTrue'  BY <1>2 DEF SizesTrue
<1>. QED  BY <1>3, <1>4, <1>5 DEF ReadWhole

(* The base is one that the entry names, or what was returned for the      *)
(* position it names.                                                      *)
LEMMA ReadDeltaIsRight ==
    ASSUME Right, Inv', ReadDelta
    PROVE  Right'
<1>1. ReadBody /\ Next1.kind \in {"ofs", "ref"} /\ Inv  BY DEF ReadDelta, Right
<1>2. /\ at' = at + 1 /\ at' \in 1..Len(pack) /\ Next1 = pack[at'] /\ Next1 \in Entry
      /\ Len(results) = at /\ UNCHANGED <<pack, ofs>> /\ DOMAIN ofs = 1..Len(pack)
  BY <1>1, BodyIsRead DEF stream
<1>3. CASE BaseID(Next1) = ZeroID
  <2>1. "ErrBadOffset" \in Failure  BY DEF Failure, Consistent
  <2>. QED  BY <1>2, <1>3, <2>1, NothingIsRight DEF ReadDelta
<1>4. CASE BaseID(Next1) # ZeroID
  <2>1. GoOn("resolve", BaseID(Next1))  BY <1>4 DEF ReadDelta
  <2>2. Next1.kind = "ofs" => /\ Next1.base \in DOMAIN results
                              /\ BaseID(Next1) = ofs[Next1.base]
    BY <1>4 DEF BaseID, Right, Inv, Remembered
  <2>3. DOMAIN results = 1..at  BY <1>2 DEF Inv, TypeOK
  <2>4. Next1.kind = "ofs" => Next1.base \in 1..(at' - 1)  BY <1>2, <2>2, <2>3 DEF Inv, TypeOK
  <2>5. AtHandIsRight'
    BY <1>1, <1>2, <2>1, <2>2, <2>4 DEF AtHandIsRight, GoOn, BaseID
  <2>. QED  BY <1>2, <2>1, <2>5, GoingOnIsRight
<1>. QED  BY <1>3, <1>4

(* The base that was resolved is what the entry stands on, if that is      *)
(* known, and then so is what the delta makes of it.                       *)
LEMMA ResolveIsRight ==
    ASSUME Right, Inv', Resolve
    PROVE  Right'
<1>. USE DEF Right
<1>1. /\ pc = "resolve" /\ Len(results) + 1 = at /\ at \in 1..Len(pack) /\ cur \in ID
      /\ pack[at].kind \in {"ofs", "ref"} /\ pack[at] \in Entry
      /\ UNCHANGED <<pack, ofs, at>>
  BY DEF Inv, Resolve, stream, TypeOK, Counted
<1>2. ASSUME NEW err \in Failure, Return(err, ZeroID)
      PROVE  Right'
  BY <1>1, <1>2, NothingIsRight
<1>3. ASSUME NEW id \in Outcomes(pack[at], cur), GoOn("store", id)
      PROVE  Right'
  <2>1. Encoded'[at] = Encoded[at]  BY <1>1, EncodedStays DEF Inv, TypeOK
  <2>2. Encoded[at] = StandsFor(pack, Encoded, at)
    <3>1. at \in 1..at  BY <1>1
    <3>2. TypeOK  BY DEF Inv
    <3>. QED  BY <3>1, <3>2, EncodedSolves DEF Solves
  <2>3. ASSUME SizesTrue, Encoded[at] # ZeroID
        PROVE  Encoded[at] = id
    <3>1. /\ BaseOf(pack, Encoded, at) = pack[at].from
          /\ Encoded[at] = pack[at].to
      BY <1>1, <2>2, <2>3 DEF StandsFor
    <3>2. pack[at].from \in ID /\ pack[at].size = "exact"
      BY <1>1, <2>3 DEF Entry, SizesTrue
    <3>3. cur = pack[at].from
      <4>1. CASE pack[at].kind = "ref" /\ cur = pack[at].base
        BY <3>1, <4>1 DEF BaseOf
      <4>2. CASE pack[at].kind = "ofs" /\ pack[at].base \in 1..(at - 1)
                   /\ cur = ofs[pack[at].base]
        <5>. DEFINE b == pack[at].base
        <5>1. b \in DOMAIN results /\ b \in 1..at  BY <1>1, <4>2 DEF Inv, TypeOK
        <5>2. b \in DOMAIN ofs /\ cur = results[b].id
          BY <1>1, <4>2, <5>1 DEF Inv, Remembered, Began
        <5>3. Encoded[b] = pack[at].from  BY <3>1, <4>2 DEF BaseOf
        <5>4. cur # ZeroID /\ Encoded[b] # ZeroID  BY <1>1, <3>2, <5>3, PackfileAssumption
        <5>. QED  BY <2>3, <5>1, <5>2, <5>3, <5>4 DEF ResultsAreRight
      <4>. QED  BY <1>1, <2>3, <4>1, <4>2 DEF AtHandIsRight
    <3>. QED  BY <1>3, <3>1, <3>2, <3>3 DEF Outcomes
  <2>4. AtHandIsRight'
    <3>1. pc' = "store" /\ cur' = id  BY <1>3 DEF GoOn
    <3>2. SizesTrue' <=> SizesTrue  BY <1>1 DEF SizesTrue
    <3>. QED  BY <1>1, <2>1, <2>3, <3>1, <3>2 DEF AtHandIsRight
  <2>. QED  BY <1>1, <1>3, <2>4, GoingOnIsRight
<1>4. {"BackendError", "ErrObjectNotExist", "ErrDelta", "ErrDeltaLength", "panic", "malformed"}
          \subseteq Failure
  BY DEF Failure, Consistent
<1>5. \A r \in Outcomes(pack[at], cur) : r \in ID \/ r \in Failure
  <2>1. pack[at].to \in ID  BY <1>1 DEF Entry
  <2>. QED  BY <1>4, <2>1 DEF Outcomes, SameType
<1>. QED  BY <1>2, <1>3, <1>4, <1>5 DEF Resolve

(* What is stored, or could not be, is returned.                           *)
LEMMA StoreIsRight ==
    ASSUME Right, Inv', Store
    PROVE  Right'
<1>. USE DEF Right
<1>1. PICK err \in {"nil", "BackendError"} : Return(err, cur)  BY DEF Store
<1>. DEFINE r == [err |-> err, id |-> cur]
<1>2. r \in Result  BY DEF Result, Inv, TypeOK, Failure, Consistent
<1>3. results' = Append(results, r) /\ pc' = "read"  BY <1>1 DEF Return, Consistent
<1>4. /\ DOMAIN results' = DOMAIN results \cup {Len(results) + 1}
      /\ results'[Len(results) + 1] = r
      /\ \A j \in DOMAIN results : results'[j] = results[j]
  BY <1>2, <1>3, AppendedResult DEF Inv
<1>5. /\ pc = "store" /\ Len(results) + 1 = at /\ at \in 1..Len(pack)
      /\ DOMAIN ofs' = 1..Len(pack) /\ DOMAIN ofs = 1..Len(pack)
      /\ UNCHANGED <<pack, at>>
  BY DEF Store, stream, Inv, TypeOK, Counted, Remembered, Began
<1>6. SizesTrue' <=> SizesTrue  BY <1>5 DEF SizesTrue
<1>7. \A j \in 1..at : Encoded'[j] = Encoded[j]  BY <1>5, EncodedStays DEF Inv, TypeOK
<1>8. at \in 1..at  BY <1>5
<1>. HIDE DEF r
<1>9. ResultsAreRight'
  BY <1>4, <1>5, <1>6, <1>7, <1>8 DEF ResultsAreRight, AtHandIsRight, r
<1>. QED  BY <1>3, <1>9 DEF AtHandIsRight

(* Every step returns the right object or none.                            *)
LEMMA StaysRight == Right /\ Inv' /\ [Next]_vars => Right'
<1>. SUFFICES ASSUME Right, Inv', [Next]_vars
              PROVE  Right'
  OBVIOUS
<1>1. CASE UNCHANGED vars  BY <1>1, RightIsKept DEF vars, stream
<1>2. ASSUME NEW id \in ID, WriteObject(id)
      PROVE  Right'
  <2>1. pc' = "write" /\ results' = results /\ results = << >>
    BY <1>2 DEF WriteObject, Right, Inv, Counted
  <2>. QED  BY <2>1 DEF Right, ResultsAreRight, AtHandIsRight
<1>3. CASE WriteFails \/ CloseWriter \/ NewReader
  <2>1. results = << >> /\ results' = results
    BY <1>3 DEF WriteFails, CloseWriter, NewReader, Right, Inv, Counted
  <2>2. pc' \notin {"resolve", "store"}  BY <1>3 DEF WriteFails, CloseWriter, NewReader
  <2>. QED  BY <2>1, <2>2 DEF Right, ResultsAreRight, AtHandIsRight
<1>4. CASE ReadFails
  <2>1. "stream" \in Failure  BY DEF Failure
  <2>. QED  BY <1>4, <2>1, NothingIsRight DEF ReadFails, stream
<1>5. CASE ReadWhole  BY <1>5, ReadWholeIsRight
<1>6. CASE ReadDelta  BY <1>6, ReadDeltaIsRight
<1>7. CASE ReadUnknown
  <2>1. "TypeError" \in Failure  BY DEF Failure, Consistent
  <2>. QED  BY <1>7, <2>1, NothingIsRight DEF ReadUnknown, ReadBody, stream
<1>8. CASE Resolve  BY <1>8, ResolveIsRight
<1>9. CASE Store  BY <1>9, StoreIsRight
<1>10. CASE Close \/ Stop \/ PutObject
  <2>1. /\ UNCHANGED <<pack, at, results, ofs, cur>>
        /\ pc' = pc \/ pc' \notin {"resolve", "store"}
    BY <1>10 DEF Close, Stop, PutObject, stream
  <2>. QED  BY <2>1, RightIsKept
<1>. QED
  BY <1>1, <1>2, <1>3, <1>4, <1>5, <1>6, <1>7, <1>8, <1>9, <1>10 DEF Next

(* ReadObject returns nil only from its end.                               *)
LEMMA NilStaysWithObject ==
    ASSUME Inv, NilHasObject, [Next]_vars
    PROVE  NilHasObject'
<1>1. ASSUME NEW r \in Result, results' = Append(results, r),
             r.err = "nil" => r.id # ZeroID
      PROVE  NilHasObject'
  <2>1. /\ DOMAIN results' = DOMAIN results \cup {Len(results) + 1}
        /\ results'[Len(results) + 1] = r
        /\ \A j \in DOMAIN results : results'[j] = results[j]
    BY <1>1, AppendedResult DEF Inv
  <2>. QED  BY <1>1, <2>1 DEF NilHasObject
<1>2. ASSUME NEW err \in Failure, Return(err, ZeroID)
      PROVE  NilHasObject'
  <2>. DEFINE r == [err |-> err, id |-> ZeroID]
  <2>1. r \in Result /\ r.err # "nil"  BY DEF Result, Failure, Consistent
  <2>. QED  BY <1>1, <1>2, <2>1 DEF Return
<1>3. ASSUME results' = results
      PROVE  NilHasObject'
  BY <1>3 DEF NilHasObject
<1>4. {"stream", "malformed", "ErrBadOffset", "TypeError", "BackendError", "ErrObjectNotExist",
       "ErrDelta", "ErrDeltaLength", "panic"} \subseteq Failure
  BY DEF Failure, Consistent
<1>5. CASE UNCHANGED vars \/ (\E id \in ID : WriteObject(id)) \/ WriteFails \/ CloseWriter
             \/ NewReader \/ Close \/ Stop \/ PutObject
  BY <1>3, <1>5
     DEF vars, WriteObject, WriteFails, CloseWriter, NewReader, Close, Stop, PutObject
<1>6. CASE ReadFails  BY <1>2, <1>4, <1>6 DEF ReadFails
<1>7. CASE ReadWhole  BY <1>2, <1>3, <1>4, <1>7 DEF ReadWhole, GoOn
<1>8. CASE ReadDelta  BY <1>2, <1>3, <1>4, <1>8 DEF ReadDelta, GoOn
<1>9. CASE ReadUnknown  BY <1>2, <1>4, <1>9 DEF ReadUnknown
<1>10. CASE Resolve
  <2>1. pack[at] \in Entry /\ pack[at].kind \in {"ofs", "ref"}
    BY <1>10 DEF Resolve, Inv, TypeOK, Counted
  <2>2. pack[at].to \in ID  BY <2>1 DEF Entry
  <2>3. \A r \in Outcomes(pack[at], cur) : r \in ID \/ r \in Failure
    BY <1>4, <2>2 DEF Outcomes, SameType
  <2>. QED  BY <1>2, <1>3, <1>4, <1>10, <2>3 DEF Resolve, GoOn
<1>11. CASE Store
  <2>1. cur \in ID /\ cur # ZeroID  BY <1>11, PackfileAssumption DEF Store, Inv, Counted
  <2>2. PICK err \in {"nil", "BackendError"} : Return(err, cur)  BY <1>11 DEF Store
  <2>. DEFINE r == [err |-> err, id |-> cur]
  <2>3. r \in Result /\ r.id # ZeroID  BY <1>4, <2>1 DEF Result
  <2>. QED  BY <1>1, <2>2, <2>3 DEF Return
<1>. QED
  BY <1>5, <1>6, <1>7, <1>8, <1>9, <1>10, <1>11 DEF Next

(* A pack is read the right way, for packs of any length, chains of deltas *)
(* of any depth, any repository and any errors: the object that a          *)
(* ReadObject returns is the one its entry stands for.                     *)
THEOREM ObjectsReturnedAreRight == Spec => []ObjectsAreRight
<1>1. Init => Inv /\ Right /\ NilHasObject
  <2>. SUFFICES ASSUME Init PROVE Inv /\ Right /\ NilHasObject
    OBVIOUS
  <2>1. Inv  BY Initially
  <2>2. DOMAIN results = {} /\ pc \in {"write", "start"}  BY DEF Init
  <2>. QED  BY <2>1, <2>2 DEF Right, ResultsAreRight, AtHandIsRight, NilHasObject
<1>2. Inv /\ Right /\ NilHasObject /\ [Next]_vars => (Inv /\ Right /\ NilHasObject)'
  BY Inductive, StaysRight, NilStaysWithObject
<1>3. Inv /\ Right /\ NilHasObject => ObjectsAreRight
  <2>. SUFFICES ASSUME Inv, Right, NilHasObject, SizesTrue, NEW j \in DOMAIN results,
                       results[j].id # ZeroID
                PROVE  /\ Encoded[j] # ZeroID => results[j].id = Encoded[j]
                       /\ results[j].id = ofs[j]
    BY DEF ObjectsAreRight, NilHasObject
  <2>1. j \in DOMAIN ofs /\ (Encoded[j] # ZeroID => results[j].id = Encoded[j])
    BY DEF Right, ResultsAreRight
  <2>2. ofs[j] = results[j].id  BY <2>1 DEF Inv, Remembered
  <2>. QED  BY <2>1, <2>2
<1>. QED  BY <1>1, <1>2, <1>3, PTL DEF Spec

-----------------------------------------------------------------------------
(* What a Writer has made: each entry is an object or a delta on one that  *)
(* was written before it.                                                  *)

Made(j) ==
    \/ pack[j] = Whole(written[j])
    \/ \E i \in 1..(j - 1) : pack[j] = DeltaOn(written[i], written[i], written[j])

(* As long as it writes, and for what it has written.                      *)
Writing ==
    /\ pc = "write" => /\ announced = toWrite + Len(written) /\ sum = "none"
                       /\ Len(pack) = Len(written)
                       /\ \A t \in Type : prev[t] = ZeroID \/ \E i \in DOMAIN written : prev[t] = written[i]
    /\ written # << >> =>
          /\ Len(pack) = Len(written)
          /\ \A j \in 1..Len(pack) : Made(j)
          /\ announced \in Nat /\ announced >= Len(pack)
          /\ sum = "none" \/ (sum = "good" /\ announced = Len(pack))

(* How far the Reader has come in it.                                      *)
Position ==
    /\ pc \in {"write", "start"} => ~ lost /\ closed = "no"
    /\ written # << >> => /\ ~ lost
                          /\ pc \in Began => n + at = announced
                          /\ closed \in {"no", "nil"} \/ sum = "none"

(* What the Reader has read of it, as long as the repository does not      *)
(* fail.                                                                   *)
NeverFailed == \A j \in DOMAIN results : results[j].err # "BackendError"

ReadBack ==
    written # << >> /\ NeverFailed =>
        /\ \A j \in DOMAIN results :
              \/ j > Len(written) /\ sum = "none" /\ results[j].err = "stream"
              \/ /\ j <= Len(written) /\ results[j] = [err |-> "nil", id |-> written[j]]
                 /\ written[j] \in objects
        /\ pc = "resolve" => /\ cur = pack[at].base
                             /\ \E i \in 1..(at - 1) : cur = written[i]
        /\ pc = "store" => cur = written[at]

AsWritten == Writing /\ Position /\ ReadBack

(* An object is written after the others, whole or as a delta on one of    *)
(* them.                                                                   *)
LEMMA WriteObjectIsRight ==
    ASSUME Inv, AsWritten, NEW id \in ID, WriteObject(id)
    PROVE  AsWritten'
<1>. USE DEF Inv, AsWritten
<1>1. /\ pc = "write" /\ pc' = "write" /\ toWrite > 0 /\ toWrite' = toWrite - 1
      /\ written' = Append(written, id) /\ prev' = [prev EXCEPT ![TypeOf[id]] = id]
      /\ UNCHANGED <<announced, sum, closed, results, lost>>
  BY DEF WriteObject
<1>2. /\ written \in Seq(ID) /\ pack \in Seq(Entry) /\ Len(pack) = Len(written)
      /\ announced = toWrite + Len(written) /\ sum = "none" /\ toWrite \in Nat
      /\ TypeOf[id] \in Type
  BY <1>1, PackfileAssumption DEF Writing, TypeOK
<1>3. /\ Len(written') = Len(written) + 1 /\ written'[Len(written) + 1] = id
      /\ \A i \in 1..Len(written) : written'[i] = written[i]
      /\ DOMAIN written = 1..Len(written) /\ DOMAIN written' = 1..(Len(written) + 1)
  BY <1>1, <1>2
<1>4. /\ \/ pack' = Append(pack, Whole(id))
         \/ \E i \in 1..Len(written) : pack' = Append(pack, DeltaOn(written[i], written[i], id))
  BY <1>1, <1>2, <1>3, SMTT(30) DEF WriteObject, Writing
<1>5. /\ Len(pack') = Len(pack) + 1
      /\ \A j \in 1..Len(pack) : pack'[j] = pack[j]
      /\ \/ pack'[Len(pack) + 1] = Whole(id)
         \/ \E i \in 1..Len(written) : pack'[Len(pack) + 1] = DeltaOn(written[i], written[i], id)
  BY <1>2, <1>4
<1>6. \A j \in 1..Len(pack) : Made(j)
  <2>1. written = << >> => Len(pack) = 0  BY <1>2
  <2>. QED  BY <2>1 DEF Writing
<1>7. \A j \in 1..Len(pack') : Made(j)'
  <2>. SUFFICES ASSUME NEW j \in 1..(Len(pack) + 1)
                PROVE  \/ pack'[j] = Whole(written'[j])
                       \/ \E i \in 1..(j - 1) :
                             pack'[j] = DeltaOn(written'[i], written'[i], written'[j])
    BY <1>5 DEF Made
  <2>1. CASE j \in 1..Len(pack)
    <3>1. \A i \in 1..(j - 1) : i \in 1..Len(written)  BY <1>2, <2>1
    <3>. QED  BY <1>2, <1>3, <1>5, <1>6, <2>1, <3>1 DEF Made
  <2>2. CASE j = Len(pack) + 1
    <3>1. j - 1 = Len(written) /\ written'[j] = id  BY <1>2, <1>3, <2>2
    <3>. QED  BY <1>3, <1>5, <2>2, <3>1
  <2>. QED  BY <1>2, <2>1, <2>2
<1>8. \A t \in Type : prev'[t] = ZeroID \/ \E i \in DOMAIN written' : prev'[t] = written'[i]
  <2>. SUFFICES ASSUME NEW t \in Type
                PROVE  prev'[t] = ZeroID \/ \E i \in DOMAIN written' : prev'[t] = written'[i]
    OBVIOUS
  <2>1. CASE t = TypeOf[id]
    <3>1. prev'[t] = id  BY <1>1, <1>2, <2>1 DEF TypeOK
    <3>2. Len(written) + 1 \in DOMAIN written'  BY <1>3
    <3>. QED  BY <1>3, <3>1, <3>2
  <2>2. CASE t # TypeOf[id]
    <3>1. prev'[t] = prev[t]  BY <1>1, <1>2, <2>2 DEF TypeOK
    <3>2. prev[t] = ZeroID \/ \E i \in DOMAIN written : prev[t] = written[i]
      BY <1>1 DEF Writing
    <3>. QED  BY <1>3, <3>1, <3>2
  <2>. QED  BY <2>1, <2>2
<1>9. Writing'
  BY <1>1, <1>2, <1>3, <1>5, <1>7, <1>8 DEF Writing
<1>10. /\ results = << >> /\ UNCHANGED <<results, objects, lost, closed>> /\ pc' = "write"
       /\ ~ lost /\ closed = "no"
  BY <1>1 DEF WriteObject, Counted, Position
<1>. QED  BY <1>9, <1>10 DEF Position, ReadBack, Began

(* A Reader begins with all of it before it.                               *)
LEMMA StartIsRight ==
    ASSUME Inv, AsWritten, WriteFails \/ CloseWriter \/ NewReader
    PROVE  AsWritten'
<1>. USE DEF Inv, AsWritten
<1>1. /\ pc \in {"write", "start"} /\ results = << >> /\ at = 0
      /\ ~ lost /\ closed = "no"
      /\ UNCHANGED <<pack, announced, toWrite, prev, written, at, lost, results, closed>>
  BY DEF WriteFails, CloseWriter, NewReader, stream, writing, Counted, Position
<1>2. ReadBack'
  <2>1. pc' \in {"start", "read", "done"}  BY DEF WriteFails, CloseWriter, NewReader
  <2>. QED  BY <1>1, <2>1 DEF ReadBack
<1>3. CASE WriteFails
  BY <1>1, <1>2, <1>3 DEF WriteFails, stream, Writing, Position, Made, Began
<1>4. CASE CloseWriter
  <2>1. /\ pc = "write" /\ pc' = "start" /\ sum' = "good" /\ announced = Len(written)
    BY <1>4 DEF CloseWriter, Writing, TypeOK
  <2>. QED  BY <1>1, <1>2, <2>1 DEF Writing, Position, Made, Began
<1>5. CASE NewReader
  <2>1. written # << >> => announced \in Nat  BY DEF Writing
  <2>2. pc' \in {"read", "done"} /\ sum' = sum /\ (announced # None => n' = announced)
    BY <1>5 DEF NewReader, stream
  <2>3. Writing'  BY <1>1, <2>2 DEF Writing, Made
  <2>4. Position'  BY <1>1, <2>1, <2>2 DEF Position, None
  <2>. QED  BY <1>2, <2>3, <2>4
<1>. QED  BY <1>3, <1>4, <1>5

(* What the Reader does leaves alone what was written.                     *)
LEMMA WritingStays ==
    ASSUME Writing, UNCHANGED <<stream, writing>>, pc' # "write"
    PROVE  Writing' /\ (written # << >> => \A j \in 1..Len(pack) : Made(j))
BY DEF Writing, Made, stream, writing

(* ReadObject returns r.                                                   *)
LEMMA ReturnIsRight ==
    ASSUME Inv, AsWritten, UNCHANGED <<stream, writing, closed>>, objects \subseteq objects',
           pc \in Began, NEW err \in {"nil"} \cup Failure, NEW id \in ID \cup {ZeroID},
           Return(err, id),
           written # << >> => ~ lost' /\ n' + at' = announced,
           written # << >> /\ NeverFailed /\ err # "BackendError" =>
              \/ Len(results) + 1 > Len(written) /\ sum = "none" /\ err = "stream"
              \/ /\ Len(results) + 1 <= Len(written) /\ err = "nil"
                 /\ id = written[Len(results) + 1] /\ id \in objects'
    PROVE  AsWritten'
<1>. USE DEF AsWritten
<1>. DEFINE r == [err |-> err, id |-> id]
            k == Len(results) + 1
<1>1. r \in Result  BY DEF Result
<1>2. results' = Append(results, r) /\ pc' \in {"read", "done"}  BY DEF Return
<1>3. /\ DOMAIN results' = DOMAIN results \cup {k} /\ k \notin DOMAIN results
      /\ results'[k] = r /\ \A j \in DOMAIN results : results'[j] = results[j]
  BY <1>1, <1>2, AppendedResult DEF Inv
<1>4. UNCHANGED <<pack, announced, sum, written>>  BY DEF stream, writing
<1>5. Writing'  BY <1>2, WritingStays
<1>6. Position'  BY <1>2, <1>4 DEF Position, Began
<1>7. ReadBack'
  <2>. SUFFICES ASSUME written # << >>, NeverFailed', NEW j \in DOMAIN results'
                PROVE  \/ j > Len(written) /\ sum = "none" /\ results'[j].err = "stream"
                       \/ /\ j <= Len(written)
                          /\ results'[j] = [err |-> "nil", id |-> written[j]]
                          /\ written[j] \in objects'
    BY <1>2, <1>4 DEF ReadBack
  <2>1. NeverFailed  BY <1>3 DEF NeverFailed
  <2>2. CASE j \in DOMAIN results
    BY <1>3, <2>1, <2>2 DEF ReadBack
  <2>3. CASE j = k
    <3>1. err # "BackendError"  BY <1>3 DEF NeverFailed
    <3>. QED  BY <1>3, <2>1, <2>3, <3>1
  <2>. QED  BY <1>3, <2>2, <2>3
<1>. QED  BY <1>5, <1>6, <1>7

(* ReadObject goes on with the object at hand.                             *)
LEMMA GoingOnWithWritten ==
    ASSUME Inv, AsWritten, UNCHANGED <<stream, writing, objects, closed>>,
           pc \in Began, NEW label \in {"resolve", "store"}, NEW id, GoOn(label, id),
           written # << >> => ~ lost' /\ n' + at' = announced,
           written # << >> /\ NeverFailed =>
              IF label = "store" THEN id = written[at']
              ELSE id = pack[at'].base /\ \E i \in 1..(at' - 1) : id = written[i]
    PROVE  AsWritten'
<1>. USE DEF AsWritten
<1>1. UNCHANGED <<pack, announced, sum, written, results>> /\ pc' = label /\ cur' = id
  BY DEF stream, writing, GoOn
<1>2. Writing'  BY <1>1, WritingStays
<1>3. Position'  BY <1>1 DEF Position, Began
<1>4. ReadBack'  BY <1>1 DEF ReadBack, NeverFailed
<1>. QED  BY <1>2, <1>3, <1>4

(* An entry of what was written is read.                                   *)
LEMMA WrittenBodyIsRead ==
    ASSUME Inv, AsWritten, ReadBody
    PROVE  /\ pc = "read" /\ UNCHANGED <<stream, writing, objects, closed>>
           /\ Len(results) = at /\ at' = at + 1
           /\ written # << >> => /\ ~ lost' /\ n' + at' = announced
                                 /\ at' \in 1..Len(written) /\ Made(at') /\ Next1 = pack[at']
<1>1. /\ pc = "read" /\ UNCHANGED <<stream, writing, objects, closed>>
      /\ Len(results) = at /\ at' = at + 1 /\ at' \in 1..Len(pack) /\ Next1 = pack[at']
  BY BodyIsRead
<1>2. ASSUME written # << >>
      PROVE  /\ ~ lost' /\ n' + at' = announced
             /\ at' \in 1..Len(written) /\ Made(at')
  <2>1. at' \in 1..Len(written) /\ Made(at')  BY <1>1, <1>2 DEF AsWritten, Writing
  <2>2. Next1.size = "exact"
    <3>1. \A id, base, from : Whole(id).size = "exact" /\ DeltaOn(base, from, id).size = "exact"
      BY DEF Whole, DeltaOn
    <3>. QED  BY <1>1, <2>1, <3>1 DEF Made
  <2>3. lost' = FALSE  BY <2>2 DEF ReadBody
  <2>4. n + at = announced /\ n' = n - 1 /\ n \in Nat /\ at \in Nat
    BY <1>1, <1>2 DEF AsWritten, Position, Began, ReadBody, Inv, TypeOK
  <2>. QED  BY <1>1, <2>1, <2>3, <2>4
<1>. QED  BY <1>1, <1>2

(* The stream can only end early, and only if the Writer was not closed.   *)
LEMMA ReadFailsOnWritten ==
    ASSUME Inv, AsWritten, ReadFails
    PROVE  AsWritten'
<1>1. /\ pc = "read" /\ n > 0 /\ Return("stream", ZeroID) /\ Len(results) = at
      /\ UNCHANGED <<stream, writing, objects, n, ofs, at, lost, closed>>
  BY DEF ReadFails, Inv, Counted
<1>2. "stream" \in {"nil"} \cup Failure  BY DEF Failure
<1>3. ASSUME written # << >>
      PROVE  ~ lost /\ n + at = announced /\ Len(pack) = Len(written)
  BY <1>1, <1>3 DEF AsWritten, Position, Writing, Began
<1>4. ASSUME written # << >>
      PROVE  at = Len(pack) /\ sum = "none"
  <2>1. at = Len(pack)
    <3>. SUFFICES ASSUME at < Len(pack) PROVE FALSE
      BY DEF Inv, TypeOK
    <3>1. at + 1 \in 1..Len(pack)  BY DEF Inv, TypeOK
    <3>2. Made(at + 1)  BY <1>4, <3>1 DEF AsWritten, Writing
    <3>3. /\ \A id : Whole(id).size = "exact" /\ Whole(id).kind = "object"
          /\ \A id, base, from : /\ DeltaOn(base, from, id).size = "exact"
                                /\ DeltaOn(base, from, id).kind = "ref"
      BY DEF Whole, DeltaOn
    <3>4. Next1.size = "exact" /\ Next1.kind # "ofs"  BY <3>2, <3>3 DEF Made, Next1
    <3>. QED  BY <1>3, <1>4, <3>4 DEF ReadFails
  <2>2. announced # Len(pack)  BY <1>1, <1>3, <1>4, <2>1 DEF Inv, TypeOK
  <2>. QED  BY <1>4, <2>1, <2>2 DEF AsWritten, Writing
<1>5. written # << >> => Len(results) + 1 > Len(written)  BY <1>1, <1>3, <1>4 DEF Inv, TypeOK
<1>6. /\ UNCHANGED <<stream, writing, closed>> /\ objects \subseteq objects' /\ pc \in Began
      /\ written # << >> => ~ lost' /\ n' + at' = announced
  BY <1>1, <1>3 DEF Began
<1>. QED  BY <1>1, <1>2, <1>4, <1>5, <1>6, ReturnIsRight

(* A whole object is what was written.                                     *)
LEMMA ReadWholeOfWritten ==
    ASSUME Inv, AsWritten, ReadWhole
    PROVE  AsWritten'
<1>1. ReadBody /\ Next1.kind = "object"  BY DEF ReadWhole
<1>2. /\ pc \in Began /\ UNCHANGED <<stream, writing, objects, closed>>
      /\ objects \subseteq objects'
      /\ written # << >> => /\ ~ lost' /\ n' + at' = announced
                            /\ at' \in 1..Len(written) /\ Made(at') /\ Next1 = pack[at']
  BY <1>1, WrittenBodyIsRead DEF Began
<1>3. written # << >> => Next1 = Whole(written[at'])
  <2>1. \A id, base, from : DeltaOn(base, from, id).kind = "ref"  BY DEF DeltaOn
  <2>. QED  BY <1>1, <1>2, <2>1 DEF Made
<1>4. written # << >> => Next1.size = "exact" /\ Next1.id = written[at']
  BY <1>3 DEF Whole
<1>5. ASSUME NEW id, GoOn("store", id), written # << >> => id = written[at']
      PROVE  AsWritten'
  BY <1>2, <1>5, GoingOnWithWritten
<1>6. CASE Return("malformed", ZeroID) /\ Next1.size = "short"
  <2>1. written = << >>  BY <1>4, <1>6
  <2>2. "malformed" \in {"nil"} \cup Failure  BY DEF Failure
  <2>. QED  BY <1>2, <1>6, <2>1, <2>2, ReturnIsRight
<1>7. CASE GoOn("store", Next1.id)  BY <1>4, <1>5, <1>7
<1>8. CASE Next1.size = "short" /\ \E id \in ID : GoOn("store", id)
  BY <1>4, <1>5, <1>8
<1>. QED  BY <1>6, <1>7, <1>8 DEF ReadWhole, SameType

(* The base of a delta is named by its ID.                                 *)
LEMMA ReadDeltaOfWritten ==
    ASSUME Inv, AsWritten, ReadDelta
    PROVE  AsWritten'
<1>1. ReadBody /\ Next1.kind \in {"ofs", "ref"}  BY DEF ReadDelta
<1>2. /\ pc \in Began /\ UNCHANGED <<stream, writing, objects, closed>>
      /\ objects \subseteq objects'
      /\ written # << >> => /\ ~ lost' /\ n' + at' = announced /\ at' = at + 1
                            /\ at' \in 1..Len(written) /\ Made(at') /\ Next1 = pack[at']
  BY <1>1, WrittenBodyIsRead DEF Began
<1>3. ASSUME written # << >>
      PROVE  /\ BaseID(Next1) = Next1.base /\ Next1.base \in ID
             /\ \E i \in 1..(at' - 1) : Next1.base = written[i]
  <2>1. \A id : Whole(id).kind = "object"  BY DEF Whole
  <2>2. PICK i \in 1..(at' - 1) : Next1 = DeltaOn(written[i], written[i], written[at'])
    BY <1>1, <1>2, <1>3, <2>1 DEF Made
  <2>3. Next1.kind = "ref" /\ Next1.base = written[i]  BY <2>2 DEF DeltaOn
  <2>4. at \in Nat /\ written \in Seq(ID)  BY DEF Inv, TypeOK
  <2>5. i \in 1..Len(written)  BY <1>2, <1>3, <2>4
  <2>6. written[i] \in ID  BY <2>4, <2>5
  <2>. QED  BY <2>3, <2>6 DEF BaseID
<1>4. CASE BaseID(Next1) = ZeroID
  <2>1. written = << >>  BY <1>3, <1>4, PackfileAssumption
  <2>2. Return("ErrBadOffset", ZeroID)  BY <1>4 DEF ReadDelta
  <2>3. "ErrBadOffset" \in {"nil"} \cup Failure  BY DEF Failure, Consistent
  <2>. QED  BY <1>2, <2>1, <2>2, <2>3, ReturnIsRight
<1>5. CASE BaseID(Next1) # ZeroID
  <2>1. GoOn("resolve", BaseID(Next1))  BY <1>5 DEF ReadDelta
  <2>2. written # << >> => /\ BaseID(Next1) = pack[at'].base
                          /\ \E i \in 1..(at' - 1) : BaseID(Next1) = written[i]
    BY <1>2, <1>3
  <2>. QED  BY <1>2, <2>1, <2>2, GoingOnWithWritten
<1>. QED  BY <1>4, <1>5

(* Nothing of an unknown type is written.                                  *)
LEMMA ReadUnknownOfWritten ==
    ASSUME Inv, AsWritten, ReadUnknown
    PROVE  AsWritten'
<1>1. ReadBody /\ Next1.kind = "unknown" /\ Return("TypeError", ZeroID)  BY DEF ReadUnknown
<1>2. /\ pc \in Began /\ UNCHANGED <<stream, writing, objects, closed>>
      /\ objects \subseteq objects'
      /\ written # << >> => Made(at') /\ Next1 = pack[at']
  BY <1>1, WrittenBodyIsRead DEF Began
<1>3. written = << >>
  <2>1. \A id, base, from : Whole(id).kind = "object" /\ DeltaOn(base, from, id).kind = "ref"
    BY DEF Whole, DeltaOn
  <2>. QED  BY <1>1, <1>2, <2>1 DEF Made
<1>4. "TypeError" \in {"nil"} \cup Failure  BY DEF Failure, Consistent
<1>. QED  BY <1>1, <1>2, <1>3, <1>4, ReturnIsRight

(* Where ReadObject is in what was written.                                *)
LEMMA AtHandOfWritten ==
    ASSUME Inv, AsWritten, pc \in {"resolve", "store"}, written # << >>
    PROVE  /\ ~ lost /\ n + at = announced /\ Len(results) + 1 = at
           /\ at \in 1..Len(written) /\ at \in 1..Len(pack) /\ Made(at)
<1>1. /\ at \in 1..Len(pack) /\ Len(results) + 1 = at  BY DEF Inv, TypeOK, Counted
<1>2. Len(pack) = Len(written) /\ Made(at)  BY <1>1 DEF AsWritten, Writing
<1>. QED  BY <1>1, <1>2 DEF AsWritten, Position, Began

(* The base is there, and the delta gives what was written.                *)
LEMMA ResolveOfWritten ==
    ASSUME Inv, AsWritten, Resolve
    PROVE  AsWritten'
<1>1. /\ pc = "resolve" /\ pc \in Began /\ pack[at].kind \in {"ofs", "ref"} /\ cur \in ID
      /\ at \in 1..Len(pack) /\ pack[at] \in Entry
      /\ UNCHANGED <<stream, writing, objects, n, ofs, at, lost, closed>>
      /\ objects \subseteq objects'
  BY DEF Resolve, Inv, Counted, TypeOK, Began
<1>2. written # << >> => ~ lost' /\ n' + at' = announced
  BY <1>1, AtHandOfWritten
<1>3. ASSUME NEW err \in Failure, Return(err, ZeroID), err = "BackendError" \/ written = << >> \/ ~ NeverFailed
      PROVE  AsWritten'
  BY <1>1, <1>2, <1>3, ReturnIsRight
<1>4. ASSUME written # << >>, NeverFailed
      PROVE  cur \in objects /\ Outcomes(pack[at], cur) = {written[at]}
  <2>1. Made(at) /\ Len(results) + 1 = at  BY <1>1, <1>4, AtHandOfWritten
  <2>2. \A id : Whole(id).kind = "object"  BY DEF Whole
  <2>3. PICK i \in 1..(at - 1) : pack[at] = DeltaOn(written[i], written[i], written[at])
    BY <1>1, <2>1, <2>2 DEF Made
  <2>4. cur = pack[at].base  BY <1>1, <1>4 DEF AsWritten, ReadBack
  <2>5. /\ pack[at].size = "exact" /\ pack[at].from = written[i] /\ pack[at].to = written[at]
        /\ pack[at].base = written[i]
    BY <2>3 DEF DeltaOn
  <2>6. Outcomes(pack[at], cur) = {written[at]}  BY <2>4, <2>5 DEF Outcomes
  <2>7. i \in DOMAIN results /\ i <= Len(written)
    <3>1. at \in 1..Len(written)  BY <1>1, <1>4, AtHandOfWritten
    <3>2. DOMAIN results = 1..Len(results) /\ Len(results) \in Nat /\ Len(written) \in Nat
      BY DEF Inv, TypeOK
    <3>. QED  BY <2>1, <3>1, <3>2
  <2>8. Len(written) \in Nat /\ i \in Nat  BY <2>7 DEF Inv, TypeOK
  <2>9. ~ (i > Len(written))  BY <2>7, <2>8
  <2>10. written[i] \in objects  BY <1>4, <2>7, <2>9 DEF AsWritten, ReadBack
  <2>. QED  BY <2>4, <2>5, <2>6, <2>10
<1>5. {"BackendError", "ErrObjectNotExist", "ErrDelta", "ErrDeltaLength", "panic", "malformed"}
          \subseteq Failure
  BY DEF Failure, Consistent
<1>6. CASE Return("BackendError", ZeroID)  BY <1>3, <1>5, <1>6
<1>7. CASE cur \notin objects /\ Return("ErrObjectNotExist", ZeroID)
  BY <1>3, <1>4, <1>5, <1>7
<1>8. ASSUME NEW r \in Outcomes(pack[at], cur), r \in ID, GoOn("store", r)
      PROVE  AsWritten'
  <2>1. written # << >> /\ NeverFailed => r = written[at']
    BY <1>1, <1>4, <1>8
  <2>. QED  BY <1>1, <1>2, <1>8, <2>1, GoingOnWithWritten
<1>9. ASSUME NEW r \in Outcomes(pack[at], cur), r \notin ID, Return(r, ZeroID)
      PROVE  AsWritten'
  <2>1. ASSUME written # << >>, NeverFailed
        PROVE  FALSE
    <3>1. r = written[at]  BY <1>4, <1>9, <2>1
    <3>2. at \in 1..Len(written)  BY <1>1, <2>1, AtHandOfWritten
    <3>3. written[at] \in ID  BY <3>2 DEF Inv, TypeOK
    <3>. QED  BY <1>9, <3>1, <3>3
  <2>2. r \in Failure
    <3>1. pack[at].to \in ID  BY <1>1 DEF Entry
    <3>. QED  BY <1>5, <1>9, <3>1 DEF Outcomes, SameType
  <2>. QED  BY <1>3, <1>9, <2>1, <2>2
<1>. QED  BY <1>6, <1>7, <1>8, <1>9 DEF Resolve

(* The object is stored, or the repository fails.                          *)
LEMMA StoreOfWritten ==
    ASSUME Inv, AsWritten, Store
    PROVE  AsWritten'
<1>1. /\ pc = "store" /\ pc \in Began /\ cur \in ID
      /\ UNCHANGED <<stream, writing, n, at, lost, closed>> /\ objects \subseteq objects'
  BY DEF Store, Inv, Counted, Began
<1>2. PICK err \in {"nil", "BackendError"} :
          Return(err, cur) /\ (err = "nil" => cur \in objects')
  BY DEF Store
<1>3. err \in {"nil"} \cup Failure  BY DEF Failure, Consistent
<1>4. ASSUME written # << >>
      PROVE  /\ ~ lost' /\ n' + at' = announced
             /\ Len(results) + 1 = at /\ Len(results) + 1 <= Len(written)
             /\ NeverFailed => cur = written[at]
  BY <1>1, <1>4, AtHandOfWritten DEF AsWritten, ReadBack
<1>5. cur \in ID \cup {ZeroID}  BY <1>1
<1>. QED  BY <1>1, <1>2, <1>3, <1>4, <1>5, ReturnIsRight

(* When all has been read, the footer is next.                             *)
LEMMA OthersLeaveWritten ==
    ASSUME Inv, AsWritten, Close \/ Stop \/ PutObject
    PROVE  AsWritten'
<1>1. /\ UNCHANGED <<stream, writing, n, at, lost, cur, results>> /\ pc \in Began
      /\ pc' \in {pc, "done"} /\ objects \subseteq objects'
  BY DEF Close, Stop, PutObject, Began
<1>2. Writing'  BY <1>1, WritingStays DEF AsWritten, Began
<1>3. ReadBack'  BY <1>1 DEF AsWritten, ReadBack, NeverFailed, stream, writing
<1>4. written # << >> => closed' \in {"no", "nil"} \/ sum = "none"
  <2>1. CASE Stop \/ PutObject
    BY <2>1 DEF Stop, PutObject, AsWritten, Position
  <2>2. CASE Close
    <3>. SUFFICES ASSUME written # << >>, sum # "none"
                  PROVE  closed' = "nil"
      OBVIOUS
    <3>1. n = 0 /\ ~ lost /\ n + at = announced  BY <1>1, <2>2 DEF Close, AsWritten, Position
    <3>2. sum = "good" /\ announced = Len(pack)  BY DEF AsWritten, Writing
    <3>3. at = Len(pack)  BY <3>1, <3>2 DEF Inv, TypeOK
    <3>. QED  BY <2>2, <3>1, <3>2, <3>3 DEF Close
  <2>. QED  BY <2>1, <2>2
<1>5. Position'  BY <1>1, <1>4 DEF AsWritten, Position, Began, stream, writing
<1>. QED  BY <1>2, <1>3, <1>5 DEF AsWritten

(* Every step keeps what was written.                                      *)
LEMMA StaysAsWritten == Inv /\ AsWritten /\ [Next]_vars => AsWritten'
<1>. SUFFICES ASSUME Inv, AsWritten, [Next]_vars
              PROVE  AsWritten'
  OBVIOUS
<1>1. CASE UNCHANGED vars
  BY <1>1 DEF vars, stream, writing, AsWritten, Writing, Made, Position, ReadBack, NeverFailed, Began
<1>2. CASE \E id \in ID : WriteObject(id)  BY <1>2, WriteObjectIsRight
<1>3. CASE WriteFails \/ CloseWriter \/ NewReader  BY <1>3, StartIsRight
<1>4. CASE ReadFails  BY <1>4, ReadFailsOnWritten
<1>5. CASE ReadWhole  BY <1>5, ReadWholeOfWritten
<1>6. CASE ReadDelta  BY <1>6, ReadDeltaOfWritten
<1>7. CASE ReadUnknown  BY <1>7, ReadUnknownOfWritten
<1>8. CASE Resolve  BY <1>8, ResolveOfWritten
<1>9. CASE Store  BY <1>9, StoreOfWritten
<1>10. CASE Close \/ Stop \/ PutObject  BY <1>10, OthersLeaveWritten
<1>. QED
  BY <1>1, <1>2, <1>3, <1>4, <1>5, <1>6, <1>7, <1>8, <1>9, <1>10 DEF Next

(* What any Writer wrote, any Reader reads, with the repository it has:    *)
(* the objects, their number and the checksum are right.                   *)
THEOREM WhatIsWrittenIsRead == Spec => []WrittenIsRead
<1>1. Init => Inv /\ AsWritten
  <2>. SUFFICES ASSUME Init PROVE AsWritten
    BY Initially
  <2>1. /\ written = << >> /\ Len(written) = 0 /\ ~ lost /\ closed = "no"
        /\ prev = [t \in Type |-> ZeroID]
    BY DEF Init
  <2>2. pc = "write" => announced = toWrite /\ announced \in Nat /\ pack = << >> /\ sum = "none"
    BY PackfileAssumption DEF Init
  <2>3. pc = "write" => announced = toWrite + Len(written) /\ Len(pack) = 0
    BY <2>1, <2>2
  <2>. QED  BY <2>1, <2>2, <2>3 DEF AsWritten, Writing, Position, ReadBack
<1>2. Inv /\ AsWritten /\ [Next]_vars => (Inv /\ AsWritten)'
  BY Inductive, StaysAsWritten
<1>3. Inv /\ AsWritten => WrittenIsRead
  BY DEF AsWritten, ReadBack, Position, NeverFailed, WrittenIsRead
<1>. QED  BY <1>1, <1>2, <1>3, PTL DEF Spec
=============================================================================
