--------------------- MODULE AppengineRepositoryProofs ---------------------
(***************************************************************************)
(* Proofs about AppengineRepository, for any goroutines, names, objects,   *)
(* workload and number of attempts.  The first part holds whatever         *)
(* memcache keeps: no ref resolves to an object that is not stored.  The   *)
(* second is about a memcache that keeps nothing: then the transactions    *)
(* make the datastore the atomic repository of module Repository.          *)
(***************************************************************************)
EXTENDS AppengineRepository, TLAPS

(* The methods of the calls that can be at each place.                     *)
PlacesMatchCalls ==
    \A p \in Proc :
        LET c == call[p] IN
        /\ pc[p] = "idle" <=> c = Idle
        /\ pc[p] = "idle" => attempt[p] = 0
        /\ pc[p] # "return" <=> ret[p] = NoAnswer
        /\ pc[p] \in {"get", "load", "fill"} => c.op \in {"GetRef", "GetHEAD", "UpdateRef"}
        /\ pc[p] \in {"load", "fill"} => KeyOf(c) \in Key
        /\ pc[p] \in {"getobject", "loadobject", "fillobject"} =>
              /\ c.op \in {"GetObject", "PutObject", "UpdateRef"}
              /\ c.op = "PutObject" => c.id \in ID /\ pc[p] = "fillobject"
              /\ c.op = "UpdateRef" => c.newID # ZeroID
        /\ pc[p] = "putobject" => c.op = "PutObject"
        /\ pc[p] = "query" => c.op = "ListRefs"
        /\ pc[p] \in {"put", "cache"} => c.op \in {"SetHEAD", "UpdateRef"}
        /\ pc[p] \in {"uncache", "del"} => c.op = "UpdateRef" /\ c.newID = ZeroID
        /\ pc[p] = "commit" => c.op = "UpdateRef"

(* What a goroutine has found stored before it puts it anywhere.           *)
FoundStored ==
    \A p \in Proc :
        LET c == call[p] IN
        /\ pc[p] = "fill" /\ c.op # "GetHEAD" => val[p] \in objects
        /\ pc[p] = "fillobject" => ObjectOf(c) \in objects
        /\ pc[p] \in {"put", "cache"} /\ c.op = "UpdateRef" => c.newID \in objects
        /\ pc[p] = "commit" => c.newID \in objects \cup {ZeroID}

Inv ==
    /\ TypeOK
    /\ PlacesMatchCalls
    /\ FoundStored
    /\ RefsResolve

-----------------------------------------------------------------------------
(* Facts about the data.                                                   *)

(* The fields of each call have their types.                               *)
LEMMA CallTypes ==
    ASSUME NEW c \in Workload
    PROVE  /\ c # Idle
           /\ c.op \in {"GetObject", "PutObject", "GetRef", "SetHEAD",
                        "UpdateRef", "ListRefs", "GetHEAD"}
           /\ c.op = "GetObject" => c.id \in AnyID
           /\ c.op = "PutObject" => c.id \in ID \cup {Foreign}
           /\ c.op \in {"GetRef", "SetHEAD"} => c.name \in RefName
           /\ c.op = "UpdateRef" => c.name \in ValidRef
           /\ c.op = "UpdateRef" => c.oldID \in AnyID /\ c.newID \in AnyID
<1>1. c \in Call
  BY WorkloadAssumption
<1>2. c.op = "UpdateRef" => c.name \in ValidRef
  BY AppengineAssumption
<1>3. QED
  BY <1>1, <1>2 DEF Call, Idle

(* An answer differs from the mark of a call not yet answered.             *)
LEMMA AnswerIsNotPending == \A a \in Answer : a # NoAnswer
<1> SUFFICES ASSUME NEW a \in Answer PROVE a.err # "pending"
  BY DEF NoAnswer
<1>1. a.err \in ErrorName \/ a.err = "nil"
  BY DEF Answer
<1>2. QED
  BY <1>1 DEF ErrorName

(* What the methods reply with is an answer.                               *)
LEMMA AnswerTypes ==
    /\ \A e \in ErrorName : Error(e) \in Answer
    /\ \A x \in Value : Ok(x) \in Answer
    /\ \A x \in RefList : Ok(x) \in Answer
    /\ Done \in Answer
BY DEF Ok, Done, Error, Answer, AnyID, Value

(* UpdateRef explains every conflict with one of its errors.               *)
LEMMA ConflictErrorType ==
    \A id, oldID : ConflictError(id, oldID) \in ErrorName
BY DEF ConflictError, ErrorName

(* Where each method starts.                                               *)
LEMMA FirstFacts ==
    ASSUME NEW c
    PROVE  /\ c.op \in {"GetRef", "GetHEAD", "UpdateRef"} => First(c) = "get"
           /\ c.op = "GetObject" => First(c) = "getobject"
           /\ c.op = "PutObject" => First(c) = "putobject"
           /\ c.op = "ListRefs" => First(c) = "query"
           /\ c.op = "SetHEAD" => First(c) = "put"
BY DEF First

(* What each method makes of a value.                                      *)
LEMMA OutcomeFacts ==
    ASSUME NEW c, NEW v
    PROVE  /\ c.op = "GetRef" =>
                 Outcome(c, v) = IF v = ZeroID THEN Error("ErrRefNotExist") ELSE Ok(v)
           /\ c.op = "GetHEAD" => Outcome(c, v) = Ok(v)
           /\ c.op = "UpdateRef" =>
                 Outcome(c, v) = IF v # c.oldID THEN Error(ConflictError(v, c.oldID))
                                 ELSE IF v = c.newID /\ v = ZeroID THEN Done
                                 ELSE NoAnswer
BY DEF Outcome

(* A value answers a call, or lets an UpdateRef that expected it go on.    *)
LEMMA OutcomeTypes ==
    ASSUME NEW c \in Workload, c.op \in {"GetRef", "GetHEAD", "UpdateRef"},
           NEW v \in Value
    PROVE  \/ Outcome(c, v) \in Answer
           \/ c.op = "UpdateRef" /\ v = c.oldID /\ Outcome(c, v) = NoAnswer
<1>1. /\ Error("ErrRefNotExist") \in Answer /\ Ok(v) \in Answer /\ Done \in Answer
      /\ Error(ConflictError(v, c.oldID)) \in Answer
  BY AnswerTypes, ConflictErrorType DEF ErrorName
<1>2. QED
  BY <1>1, OutcomeFacts

(* The value that get returned answers the call or sends UpdateRef on.     *)
LEMMA GotFacts ==
    ASSUME TypeOK, NEW p \in Proc, call[p] \in Workload,
           call[p].op \in {"GetRef", "GetHEAD", "UpdateRef"},
           NEW v \in Value, Got(p, v)
    PROVE  \/ /\ Outcome(call[p], v) \in Answer
              /\ ret' = [ret EXCEPT ![p] = Outcome(call[p], v)]
              /\ pc' = [pc EXCEPT ![p] = "return"]
           \/ /\ Outcome(call[p], v) = NoAnswer
              /\ ret' = [ret EXCEPT ![p] = NoAnswer]
              /\ call[p].op = "UpdateRef" /\ v = call[p].oldID
              /\ pc' = [pc EXCEPT ![p] = IF call[p].newID = ZeroID THEN "uncache"
                                         ELSE "getobject"]
           \/ /\ WritesNothing(call[p])
              /\ v = ZeroID
              /\ pc' = [pc EXCEPT ![p] = "commit"]
              /\ UNCHANGED ret
BY OutcomeTypes, AnswerIsNotPending DEF Got, Reply, Goto

(* The keys of valid refs and of HEAD are different keys.                  *)
LEMMA KeyFacts ==
    /\ Root \in Key /\ Root \notin ValidRef
    /\ \A n \in ValidRef : n \in Key
    /\ \A v \in Value : v # Miss
    /\ ZeroID \in Value /\ ID \subseteq Value /\ RefName \subseteq Value
BY ConstantsAssumption, AppengineAssumption DEF Key, Value, AnyID

(* A set of memcache stores the value, or fails and changes nothing.       *)
LEMMA CacheSetFacts ==
    ASSUME NEW k, NEW v, CacheSet(k, v)
    PROVE  memcache' = memcache \/ memcache' = [memcache EXCEPT ![k] = v]
BY DEF CacheSet

(* The same for an object.                                                 *)
LEMMA CacheSetObjectFacts ==
    ASSUME NEW id, CacheSetObject(id)
    PROVE  memObjects' = memObjects \/ memObjects' = memObjects \cup {id}
BY DEF CacheSetObject

-----------------------------------------------------------------------------
(* The invariant.                                                          *)

(* A new repository has no refs and nothing in memcache.                   *)
THEOREM Initially == Init => Inv
<1> SUFFICES ASSUME Init PROVE Inv
  OBVIOUS
<1>1. TypeOK
  BY ConstantsAssumption, AppengineAssumption, KeyFacts
     DEF Init, TypeOK, Label, TxState, AnyID
<1>2. PlacesMatchCalls
  BY DEF Init, PlacesMatchCalls
<1>3. FoundStored
  BY DEF Init, FoundStored
<1>4. RefsResolve
  BY KeyFacts DEF Init, RefsResolve
<1>5. QED
  BY <1>1, <1>2, <1>3, <1>4 DEF Inv

(* What get makes of a value that is a stored object, no ref or a name.    *)
LEMMA GotStep ==
    ASSUME Inv, NEW p \in Proc, call[p] \in Workload, ret[p] = NoAnswer,
           call[p].op \in {"GetRef", "GetHEAD", "UpdateRef"},
           NEW v \in Value, Got(p, v),
           UNCHANGED <<datastore, call, attempt>>,
           val' \in [Proc -> Value], tx' \in [Proc -> TxState],
           \A q \in Proc \ {p} : val'[q] = val[q],
           memObjects' = memObjects,
           memcache' \in [Key -> Value \cup {Miss}],
           \A n \in ValidRef : memcache'[n] \in objects \cup {Miss}
    PROVE  Inv'
<1> DEFINE c == call[p]
<1>1. \/ /\ pc' = [pc EXCEPT ![p] = "return"]
         /\ \E a \in Answer : ret' = [ret EXCEPT ![p] = a]
      \/ /\ c.op = "UpdateRef" /\ c.newID = ZeroID
         /\ pc' = [pc EXCEPT ![p] = "uncache"]
         /\ ret' = [ret EXCEPT ![p] = NoAnswer]
      \/ /\ c.op = "UpdateRef" /\ c.newID # ZeroID
         /\ pc' = [pc EXCEPT ![p] = "getobject"]
         /\ ret' = [ret EXCEPT ![p] = NoAnswer]
      \/ /\ c.op = "UpdateRef" /\ c.newID = ZeroID
         /\ pc' = [pc EXCEPT ![p] = "commit"]
         /\ ret' = ret
  BY GotFacts DEF Inv, WritesNothing
<1>2. TypeOK'
  BY <1>1 DEF Inv, TypeOK, Label, datastore
<1>3. PlacesMatchCalls'
  BY <1>1, CallTypes, AnswerIsNotPending DEF Inv, TypeOK, PlacesMatchCalls, datastore
<1>4. FoundStored'
  BY <1>1 DEF Inv, TypeOK, FoundStored, datastore
<1>5. RefsResolve'
  BY DEF Inv, RefsResolve, datastore
<1>6. QED
  BY <1>2, <1>3, <1>4, <1>5 DEF Inv

(* The call at a goroutine's place and what is known of it.                *)
LEMMA CallInProgress ==
    ASSUME Inv, NEW p \in Proc, pc[p] # "idle"
    PROVE  /\ call[p] \in Workload
           /\ pc[p] # "return" <=> ret[p] = NoAnswer
BY DEF Inv, TypeOK, PlacesMatchCalls

(* Entering a method; UpdateRef begins its transaction.                    *)
LEMMA InvokeStep ==
    ASSUME Inv, NEW p \in Proc, Invoke(p)
    PROVE  Inv'
<1>1. PICK c \in Workload :
         /\ call' = [call EXCEPT ![p] = c]
         /\ pc' = [pc EXCEPT ![p] = First(c)]
         /\ IF c.op = "UpdateRef" THEN Begin(p) ELSE UNCHANGED <<tx, attempt>>
  BY DEF Invoke, Goto
<1>2. /\ First(c) \in {"get", "getobject", "putobject", "query", "put"}
      /\ First(c) = "get" => c.op \in {"GetRef", "GetHEAD", "UpdateRef"}
      /\ First(c) = "getobject" => c.op = "GetObject"
      /\ First(c) = "putobject" => c.op = "PutObject"
      /\ First(c) = "query" => c.op = "ListRefs"
      /\ First(c) = "put" => c.op = "SetHEAD"
  BY CallTypes, FirstFacts
<1>3. attempt' \in [Proc -> 0..MaxAttempts] /\ tx' \in [Proc -> TxState]
  <2>1. attempt[p] = 0 /\ 1 \in 0..MaxAttempts
    BY AppengineAssumption DEF Inv, PlacesMatchCalls, Invoke, At
  <2>2. CASE UNCHANGED <<tx, attempt>>
    BY <2>2 DEF Inv, TypeOK
  <2>3. CASE Begin(p)
    BY <2>1, <2>3 DEF Inv, TypeOK, Begin, TxState
  <2>4. QED
    BY <1>1, <2>2, <2>3
<1>4. \A q \in Proc : q # p => attempt'[q] = attempt[q]
  BY <1>1 DEF Inv, TypeOK, Begin
<1>5. TypeOK'
  BY <1>1, <1>2, <1>3 DEF Inv, TypeOK, Invoke, datastore, caches, Label
<1>6. PlacesMatchCalls'
  BY <1>1, <1>2, <1>4, CallTypes DEF Inv, TypeOK, PlacesMatchCalls, Invoke, At
<1>7. FoundStored'
  BY <1>1, <1>2 DEF Inv, TypeOK, FoundStored, Invoke, datastore
<1>8. RefsResolve'
  BY DEF Inv, RefsResolve, Invoke, datastore, caches
<1>9. QED
  BY <1>5, <1>6, <1>7, <1>8 DEF Inv

(* A malformed name is refused.                                            *)
LEMMA RefuseNameStep ==
    ASSUME Inv, NEW p \in Proc, RefuseName(p)
    PROVE  Inv'
<1>1. Error("ErrInvalidRef") \in Answer
  BY AnswerTypes DEF ErrorName
<1>2. TypeOK'
  BY <1>1 DEF Inv, TypeOK, RefuseName, Reply, Goto, datastore, caches, Label
<1>3. PlacesMatchCalls'
  BY <1>1, AnswerIsNotPending DEF Inv, TypeOK, PlacesMatchCalls, RefuseName, At, Reply, Goto
<1>4. FoundStored'
  BY DEF Inv, TypeOK, FoundStored, RefuseName, Goto, datastore
<1>5. RefsResolve'
  BY DEF Inv, RefsResolve, RefuseName, datastore, caches
<1>6. QED
  BY <1>2, <1>3, <1>4, <1>5 DEF Inv

(* get of a value that memcache holds, or on to the datastore.             *)
LEMMA LookUpStep ==
    ASSUME Inv, NEW p \in Proc, LookUp(p)
    PROVE  Inv'
<1> DEFINE k == KeyOf(call[p])
<1>1. /\ call[p] \in Workload /\ ret[p] = NoAnswer /\ k \in Key
      /\ call[p].op \in {"GetRef", "GetHEAD", "UpdateRef"}
  BY CallInProgress DEF LookUp, At, Inv, PlacesMatchCalls
<1>2. CASE memcache[k] # Miss /\ Got(p, memcache[k])
  <2>1. memcache[k] \in Value
    BY <1>1, <1>2 DEF Inv, TypeOK
  <2>2. QED
    BY <1>1, <1>2, <2>1, GotStep DEF Inv, TypeOK, RefsResolve, LookUp, datastore, caches
<1>3. CASE Goto(p, "load") /\ UNCHANGED ret
  <2>1. TypeOK'
    BY <1>3 DEF Inv, TypeOK, LookUp, Goto, datastore, caches, Label
  <2>2. PlacesMatchCalls'
    BY <1>1, <1>3, CallTypes DEF Inv, TypeOK, PlacesMatchCalls, LookUp, At, Goto
  <2>3. FoundStored'
    BY <1>3 DEF Inv, TypeOK, FoundStored, LookUp, Goto, datastore
  <2>4. RefsResolve'
    BY DEF Inv, RefsResolve, LookUp, datastore, caches
  <2>5. QED
    BY <2>1, <2>2, <2>3, <2>4 DEF Inv
<1>4. QED
  BY <1>2, <1>3 DEF LookUp

(* get of an entity: there is none, or it is loaded into val.              *)
LEMMA LoadStep ==
    ASSUME Inv, NEW p \in Proc, Load(p)
    PROVE  Inv'
<1> DEFINE v == entity[KeyOf(call[p])]
<1>1. /\ call[p] \in Workload /\ ret[p] = NoAnswer /\ KeyOf(call[p]) \in Key
      /\ call[p].op \in {"GetRef", "GetHEAD", "UpdateRef"}
      /\ v \in Value
  BY CallInProgress DEF Load, At, Inv, TypeOK, PlacesMatchCalls
<1>2. tx' \in [Proc -> TxState]
  BY DEF Load, UseGroup, Used, Inv, TypeOK, TxState
<1>3. CASE Got(p, v) /\ UNCHANGED val
  BY <1>1, <1>2, <1>3, GotStep DEF Inv, TypeOK, RefsResolve, Load, datastore, caches
<1>4. CASE /\ v # ZeroID
           /\ val' = [val EXCEPT ![p] = v]
           /\ Goto(p, "fill")
           /\ UNCHANGED ret
  <2>1. TypeOK'
    BY <1>1, <1>2, <1>4 DEF Inv, TypeOK, Load, Goto, datastore, caches, Label
  <2>2. PlacesMatchCalls'
    BY <1>1, <1>4, CallTypes DEF Inv, TypeOK, PlacesMatchCalls, Load, At, Goto
  <2>3. call[p].op # "GetHEAD" => v \in objects
    <3>1. call[p].op # "GetHEAD" => KeyOf(call[p]) \in ValidRef
      BY <1>1, CallTypes, AppengineAssumption DEF KeyOf, Key
    <3>2. QED
      BY <1>1, <1>4, <3>1, AppengineAssumption DEF Inv, RefsResolve
  <2>4. FoundStored'
    BY <1>4, <2>3 DEF Inv, TypeOK, FoundStored, Load, Goto, datastore
  <2>5. RefsResolve'
    BY DEF Inv, RefsResolve, Load, datastore, caches
  <2>6. QED
    BY <2>1, <2>2, <2>4, <2>5 DEF Inv
<1>5. QED
  BY <1>3, <1>4 DEF Load

(* get puts what it loaded into memcache, as old as it may be.             *)
LEMMA FillStep ==
    ASSUME Inv, NEW p \in Proc, Fill(p)
    PROVE  Inv'
<1> DEFINE k == KeyOf(call[p])
<1>1. /\ call[p] \in Workload /\ ret[p] = NoAnswer /\ k \in Key
      /\ call[p].op \in {"GetRef", "GetHEAD", "UpdateRef"}
      /\ val[p] \in Value
      /\ call[p].op # "GetHEAD" => val[p] \in objects
  BY CallInProgress DEF Fill, At, Inv, TypeOK, PlacesMatchCalls, FoundStored
<1>2. call[p].op = "GetHEAD" => k \notin ValidRef
  BY AppengineAssumption, ConstantsAssumption DEF KeyOf
<1>3. memcache' = memcache \/ memcache' = [memcache EXCEPT ![k] = val[p]]
  BY CacheSetFacts DEF Fill
<1>4. memcache' \in [Key -> Value \cup {Miss}]
  BY <1>1, <1>3 DEF Inv, TypeOK
<1>5. \A n \in ValidRef : memcache'[n] \in objects \cup {Miss}
  BY <1>1, <1>2, <1>3, KeyFacts DEF Inv, TypeOK, RefsResolve
<1>6. Got(p, val[p]) /\ UNCHANGED <<datastore, memObjects, call, val, tx, attempt>>
  BY DEF Fill
<1>7. QED
  BY <1>1, <1>4, <1>5, <1>6, GotStep DEF Inv, TypeOK

(* GetObject's end: UpdateRef goes on to store, GetObject and PutObject    *)
(* return.                                                                 *)
LEMMA FoundStep ==
    ASSUME Inv, NEW p \in Proc, pc[p] \in {"getobject", "fillobject"},
           ObjectOf(call[p]) \in objects, Found(p),
           UNCHANGED <<datastore, memcache, call, val, tx, attempt>>,
           memObjects' \subseteq objects
    PROVE  Inv'
<1>1. /\ call[p] \in Workload /\ ret[p] = NoAnswer
      /\ call[p].op \in {"GetObject", "PutObject", "UpdateRef"}
  BY CallInProgress DEF Inv, PlacesMatchCalls
<1>2. Ok(ObjectOf(call[p])) \in Answer
  BY AnswerTypes, KeyFacts DEF Inv, TypeOK
<1>3. \/ /\ call[p].op = "UpdateRef" /\ pc' = [pc EXCEPT ![p] = "put"]
         /\ ret' = ret
      \/ /\ pc' = [pc EXCEPT ![p] = "return"]
         /\ ret' = [ret EXCEPT ![p] = Ok(ObjectOf(call[p]))]
  BY DEF Found, Goto, Reply
<1>4. TypeOK'
  BY <1>2, <1>3 DEF Inv, TypeOK, datastore, Label
<1>5. PlacesMatchCalls'
  BY <1>1, <1>3, <1>2, AnswerIsNotPending DEF Inv, TypeOK, PlacesMatchCalls
<1>6. FoundStored'
  BY <1>3 DEF Inv, TypeOK, FoundStored, ObjectOf, datastore
<1>7. RefsResolve'
  BY DEF Inv, RefsResolve, datastore
<1>8. QED
  BY <1>4, <1>5, <1>6, <1>7 DEF Inv

(* An object that memcache holds is stored: UpdateRef can rely on it.      *)
LEMMA LookUpObjectStep ==
    ASSUME Inv, NEW p \in Proc, LookUpObject(p)
    PROVE  Inv'
<1>1. CASE ObjectOf(call[p]) \in memObjects /\ Found(p)
  BY <1>1, FoundStep DEF Inv, RefsResolve, LookUpObject, At, caches
<1>2. CASE Goto(p, "loadobject") /\ UNCHANGED ret
  <2>1. TypeOK'
    BY <1>2 DEF Inv, TypeOK, LookUpObject, Goto, datastore, caches, Label
  <2>2. PlacesMatchCalls'
    BY <1>2 DEF Inv, TypeOK, PlacesMatchCalls, LookUpObject, At, Goto
  <2>3. FoundStored'
    BY <1>2 DEF Inv, TypeOK, FoundStored, LookUpObject, Goto, datastore
  <2>4. RefsResolve'
    BY DEF Inv, RefsResolve, LookUpObject, datastore, caches
  <2>5. QED
    BY <2>1, <2>2, <2>3, <2>4 DEF Inv
<1>3. QED
  BY <1>1, <1>2 DEF LookUpObject

(* Looking an object up in the datastore.                                  *)
LEMMA LoadObjectStep ==
    ASSUME Inv, NEW p \in Proc, LoadObject(p)
    PROVE  Inv'
<1>1. Error("ErrObjectNotExist") \in Answer
  BY AnswerTypes DEF ErrorName
<1>2. TypeOK'
  BY <1>1 DEF Inv, TypeOK, LoadObject, Goto, Reply, datastore, caches, Label
<1>3. PlacesMatchCalls'
  BY <1>1, AnswerIsNotPending DEF Inv, TypeOK, PlacesMatchCalls, LoadObject, At, Goto, Reply
<1>4. FoundStored'
  BY DEF Inv, TypeOK, FoundStored, LoadObject, Goto, datastore
<1>5. RefsResolve'
  BY DEF Inv, RefsResolve, LoadObject, datastore, caches
<1>6. QED
  BY <1>2, <1>3, <1>4, <1>5 DEF Inv

(* Only an object that is stored is put into memcache.                     *)
LEMMA FillObjectStep ==
    ASSUME Inv, NEW p \in Proc, FillObject(p)
    PROVE  Inv'
<1>1. ObjectOf(call[p]) \in objects
  BY DEF Inv, FoundStored, FillObject, At
<1>2. memObjects' \subseteq objects
  BY <1>1, CacheSetObjectFacts DEF FillObject, Inv, RefsResolve
<1>3. QED
  BY <1>1, <1>2, FoundStep DEF FillObject, At

(* PutObject stores the object before anything can find it in memcache.    *)
LEMMA PutObjectStep ==
    ASSUME Inv, NEW p \in Proc, PutObject(p)
    PROVE  Inv'
<1>1. Error("TypeError") \in Answer
  BY AnswerTypes DEF ErrorName
<1>2. call[p].op = "PutObject"
  BY DEF PutObject, At, Inv, PlacesMatchCalls
<1>3. TypeOK'
  BY <1>1 DEF Inv, TypeOK, PutObject, Goto, Reply, caches, Label
<1>4. PlacesMatchCalls'
  BY <1>2, <1>1, AnswerTypes, AnswerIsNotPending DEF Inv, TypeOK, PlacesMatchCalls, PutObject, At, Goto, Reply
<1>5. FoundStored'
  BY <1>2 DEF Inv, TypeOK, FoundStored, ObjectOf, PutObject, Goto
<1>6. RefsResolve'
  BY DEF Inv, RefsResolve, PutObject, caches
<1>7. QED
  BY <1>3, <1>4, <1>5, <1>6 DEF Inv

(* ListRefs answers with the refs that the datastore holds.                *)
LEMMA ListRefsStep ==
    ASSUME Inv, NEW p \in Proc, ListRefs(p)
    PROVE  Inv'
<1> DEFINE list == [n \in {m \in ValidRef : entity[m] # ZeroID} |-> entity[n]]
<1>1. list \in RefList
  <2>1. list \in [{m \in ValidRef : entity[m] # ZeroID} -> ID]
    BY DEF Inv, TypeOK, RefsResolve
  <2>2. QED
    BY <2>1 DEF RefList
<1>2. Ok(list) \in Answer
  BY <1>1, AnswerTypes
<1>3. ret' = [ret EXCEPT ![p] = Ok(list)]
  BY DEF ListRefs, Reply
<1> HIDE DEF list
<1>4. TypeOK'
  BY <1>2, <1>3 DEF Inv, TypeOK, ListRefs, Goto, datastore, caches, Label
<1>5. PlacesMatchCalls'
  BY <1>3, <1>2, AnswerIsNotPending DEF Inv, TypeOK, PlacesMatchCalls, ListRefs, At, Goto
<1>6. FoundStored'
  BY DEF Inv, TypeOK, FoundStored, ListRefs, Goto, datastore
<1>7. RefsResolve'
  BY DEF Inv, RefsResolve, ListRefs, datastore, caches
<1>8. QED
  BY <1>4, <1>5, <1>6, <1>7 DEF Inv

(* A write to the datastore of a name to HEAD, or of a stored object (or   *)
(* none) to a ref.                                                         *)
LEMMA WriteGroupFacts ==
    ASSUME Inv, NEW p \in Proc, NEW k \in Key, NEW v \in Value, WriteGroup(p, k, v),
           k \in ValidRef => v \in objects \cup {ZeroID}
    PROVE  /\ entity' \in [Key -> Value]
           /\ tx' \in [Proc -> TxState]
           /\ \A n \in ValidRef : entity'[n] \in objects \cup {ZeroID}
<1>1. entity' \in [Key -> Value]
  BY DEF Inv, TypeOK, WriteGroup
<1>2. tx' \in [Proc -> TxState]
  BY DEF Inv, TypeOK, WriteGroup, TxState
<1>3. \A n \in ValidRef : entity'[n] \in objects \cup {ZeroID}
  BY KeyFacts DEF Inv, TypeOK, RefsResolve, WriteGroup
<1>4. QED
  BY <1>1, <1>2, <1>3

(* What SetHEAD and UpdateRef write.                                       *)
LEMMA WhatIsWritten ==
    ASSUME Inv, NEW p \in Proc
    PROVE  /\ pc[p] \in {"put", "cache"} /\ call[p].op = "SetHEAD" =>
                 call[p].name \in Value
           /\ pc[p] \in {"put", "cache"} /\ call[p].op = "UpdateRef" =>
                 call[p].name \in ValidRef /\ call[p].newID \in objects
           /\ pc[p] = "uncache" => call[p].name \in ValidRef
           /\ pc[p] = "commit" =>
                 /\ call[p].name \in ValidRef /\ call[p].newID \in Value
                 /\ call[p].newID \in objects \cup {ZeroID}
<1>1. pc[p] # "idle" => call[p] \in Workload
  BY CallInProgress
<1>2. QED
  BY <1>1, CallTypes, KeyFacts DEF Inv, PlacesMatchCalls, FoundStored, AnyID, Value

(* put: SetHEAD writes at once, UpdateRef keeps its write for the commit.  *)
LEMMA PutStep ==
    ASSUME Inv, NEW p \in Proc, Put(p)
    PROVE  Inv'
<1>1. /\ entity' \in [Key -> Value]
      /\ tx' \in [Proc -> TxState]
      /\ \A n \in ValidRef : entity'[n] \in objects \cup {ZeroID}
  <2>1. CASE call[p].op = "SetHEAD" /\ WriteGroup(p, Root, call[p].name)
    BY <2>1, WriteGroupFacts, WhatIsWritten, KeyFacts DEF Put, At
  <2>2. CASE UseGroup(p) /\ UNCHANGED entity
    BY <2>2 DEF Inv, TypeOK, RefsResolve, UseGroup, Used, TxState
  <2>3. QED
    BY <2>1, <2>2 DEF Put
<1>2. TypeOK'
  BY <1>1 DEF Inv, TypeOK, Put, Goto, caches, Label
<1>3. PlacesMatchCalls'
  BY DEF Inv, TypeOK, PlacesMatchCalls, Put, At, Goto
<1>4. FoundStored'
  BY DEF Inv, TypeOK, FoundStored, Put, At, Goto
<1>5. RefsResolve'
  BY <1>1 DEF Inv, RefsResolve, Put, caches
<1>6. QED
  BY <1>2, <1>3, <1>4, <1>5 DEF Inv

(* What put and del leave in memcache is a stored object or nothing, even  *)
(* if the transaction then fails to commit.                                *)
LEMMA CacheStep ==
    ASSUME Inv, NEW p \in Proc, Cache(p)
    PROVE  Inv'
<1>1. /\ memcache' \in [Key -> Value \cup {Miss}]
      /\ \A n \in ValidRef : memcache'[n] \in objects \cup {Miss}
  <2>1. CASE call[p].op = "SetHEAD" /\ CacheSet(Root, call[p].name)
    BY <2>1, CacheSetFacts, WhatIsWritten, KeyFacts
       DEF Cache, At, Inv, TypeOK, RefsResolve
  <2>2. CASE call[p].op = "UpdateRef" /\ CacheSet(call[p].name, call[p].newID)
    BY <2>2, CacheSetFacts, WhatIsWritten, KeyFacts
       DEF Cache, At, Inv, TypeOK, RefsResolve
  <2>3. QED
    BY <2>1, <2>2 DEF Cache
<1>2. TypeOK'
  BY <1>1, AnswerTypes DEF Inv, TypeOK, Cache, Goto, Reply, datastore, Label
<1>3. PlacesMatchCalls'
  BY AnswerTypes, AnswerIsNotPending DEF Inv, TypeOK, PlacesMatchCalls, Cache, At, Goto, Reply
<1>4. FoundStored'
  BY DEF Inv, TypeOK, FoundStored, Cache, At, Goto, datastore
<1>5. RefsResolve'
  BY <1>1 DEF Inv, RefsResolve, Cache, datastore
<1>6. QED
  BY <1>2, <1>3, <1>4, <1>5 DEF Inv

(* del from memcache.                                                      *)
LEMMA UncacheStep ==
    ASSUME Inv, NEW p \in Proc, Uncache(p)
    PROVE  Inv'
<1>1. memcache' = memcache \/ memcache' = [memcache EXCEPT ![call[p].name] = Miss]
  BY CacheSetFacts DEF Uncache
<1>2. TypeOK'
  BY <1>1 DEF Inv, TypeOK, Uncache, Goto, datastore, Label
<1>3. PlacesMatchCalls'
  BY DEF Inv, TypeOK, PlacesMatchCalls, Uncache, At, Goto
<1>4. FoundStored'
  BY DEF Inv, TypeOK, FoundStored, Uncache, At, Goto, datastore
<1>5. RefsResolve'
  BY <1>1, KeyFacts DEF Inv, TypeOK, RefsResolve, Uncache, datastore
<1>6. QED
  BY <1>2, <1>3, <1>4, <1>5 DEF Inv

(* del from the datastore, which is kept for the commit.                   *)
LEMMA DelStep ==
    ASSUME Inv, NEW p \in Proc, Del(p)
    PROVE  Inv'
<1>1. TypeOK'
  BY DEF Inv, TypeOK, Del, UseGroup, Used, TxState, Goto, datastore, caches, Label
<1>2. PlacesMatchCalls'
  BY DEF Inv, TypeOK, PlacesMatchCalls, Del, At, Goto
<1>3. FoundStored'
  BY DEF Inv, TypeOK, PlacesMatchCalls, FoundStored, Del, At, Goto, datastore
<1>4. RefsResolve'
  BY DEF Inv, RefsResolve, Del, datastore, caches
<1>5. QED
  BY <1>1, <1>2, <1>3, <1>4 DEF Inv

(* A commit writes an object that was found stored in the transaction.     *)
LEMMA CommitStep ==
    ASSUME Inv, NEW p \in Proc, Commit(p)
    PROVE  Inv'
<1>1. /\ entity' \in [Key -> Value]
      /\ tx' \in [Proc -> TxState]
      /\ \A n \in ValidRef : entity'[n] \in objects \cup {ZeroID}
  BY WriteGroupFacts, WhatIsWritten, KeyFacts DEF Commit, At
<1>2. TypeOK'
  BY <1>1, AnswerTypes DEF Inv, TypeOK, Commit, Goto, Reply, caches, Label
<1>3. PlacesMatchCalls'
  BY AnswerTypes, AnswerIsNotPending DEF Inv, TypeOK, PlacesMatchCalls, Commit, At, Goto, Reply
<1>4. FoundStored'
  BY DEF Inv, TypeOK, FoundStored, Commit, At, Goto
<1>5. RefsResolve'
  BY <1>1 DEF Inv, RefsResolve, Commit, caches
<1>6. QED
  BY <1>2, <1>3, <1>4, <1>5 DEF Inv

(* A transaction is begun at most MaxAttempts times.                       *)
LEMMA RetryStep ==
    ASSUME Inv, NEW p \in Proc, Retry(p)
    PROVE  Inv'
<1>1. attempt[p] + 1 \in 0..MaxAttempts
  BY AppengineAssumption DEF Inv, TypeOK, Retry
<1>2. TypeOK'
  BY <1>1 DEF Inv, TypeOK, Retry, Begin, TxState, Goto, datastore, caches, Label
<1>3. PlacesMatchCalls'
  BY DEF Inv, TypeOK, PlacesMatchCalls, Retry, Begin, At, Goto
<1>4. FoundStored'
  BY DEF Inv, TypeOK, FoundStored, Retry, At, Goto, datastore
<1>5. RefsResolve'
  BY DEF Inv, RefsResolve, Retry, datastore, caches
<1>6. QED
  BY <1>2, <1>3, <1>4, <1>5 DEF Inv

(* A call that fails, by a store that is down or that met too many others. *)
LEMMA FailStep ==
    ASSUME Inv, NEW p \in Proc, GiveUp(p) \/ Unavailable(p)
    PROVE  Inv'
<1>1. /\ Error("BackendError") \in Answer
      /\ Reply(p, Error("BackendError")) /\ Goto(p, "return")
      /\ UNCHANGED <<datastore, caches, call, val, tx, attempt>>
      /\ pc[p] # "idle"
  BY AnswerTypes DEF ErrorName, GiveUp, Unavailable, At
<1>2. TypeOK'
  BY <1>1 DEF Inv, TypeOK, Goto, Reply, datastore, caches, Label
<1>3. PlacesMatchCalls'
  BY <1>1, AnswerIsNotPending DEF Inv, TypeOK, PlacesMatchCalls, Goto, Reply
<1>4. FoundStored'
  BY <1>1 DEF Inv, TypeOK, FoundStored, Goto, datastore
<1>5. RefsResolve'
  BY <1>1 DEF Inv, RefsResolve, datastore, caches
<1>6. QED
  BY <1>2, <1>3, <1>4, <1>5 DEF Inv

(* A write that is reported as failed although it was made.                *)
LEMMA UnsureStep ==
    ASSUME Inv, NEW p \in Proc, Unsure(p)
    PROVE  Inv'
<1>1. /\ Error("BackendError") \in Answer
      /\ Reply(p, Error("BackendError")) /\ Goto(p, "return")
      /\ UNCHANGED <<caches, call, val, attempt>>
      /\ pc[p] # "idle"
  BY AnswerTypes DEF ErrorName, Unsure, At
<1>2. /\ objects \subseteq objects' /\ objects' \subseteq ID
      /\ entity' \in [Key -> Value]
      /\ tx' \in [Proc -> TxState]
      /\ \A n \in ValidRef : entity'[n] \in objects' \cup {ZeroID}
  <2>1. CASE At(p, "putobject")
    BY <2>1 DEF Unsure, At, Inv, TypeOK, RefsResolve
  <2>2. CASE At(p, "put")
    BY <2>2, WriteGroupFacts, WhatIsWritten, KeyFacts DEF Unsure, At, Inv, TypeOK
  <2>3. CASE At(p, "commit")
    BY <2>3, WriteGroupFacts, WhatIsWritten, KeyFacts DEF Unsure, At, Inv, TypeOK
  <2>4. QED
    BY <2>1, <2>2, <2>3 DEF Unsure
<1>3. TypeOK'
  BY <1>1, <1>2 DEF Inv, TypeOK, Goto, Reply, caches, Label
<1>4. PlacesMatchCalls'
  BY <1>1, AnswerIsNotPending DEF Inv, TypeOK, PlacesMatchCalls, Goto, Reply
<1>5. FoundStored'
  BY <1>1, <1>2 DEF Inv, TypeOK, FoundStored, Goto
<1>6. RefsResolve'
  BY <1>1, <1>2 DEF Inv, RefsResolve, caches
<1>7. QED
  BY <1>3, <1>4, <1>5, <1>6 DEF Inv

(* Leaving a method.                                                       *)
LEMMA ReturnStep ==
    ASSUME Inv, NEW p \in Proc, Return(p)
    PROVE  Inv'
<1>1. TypeOK'
  BY AppengineAssumption, KeyFacts
     DEF Inv, TypeOK, Return, Goto, Reply, TxState, datastore, caches, Label
<1>2. PlacesMatchCalls'
  BY DEF Inv, TypeOK, PlacesMatchCalls, Return, At, Goto, Reply
<1>3. FoundStored'
  BY DEF Inv, TypeOK, FoundStored, Return, At, Goto, datastore
<1>4. RefsResolve'
  BY DEF Inv, RefsResolve, Return, datastore, caches
<1>5. QED
  BY <1>1, <1>2, <1>3, <1>4 DEF Inv

(* An eviction.                                                            *)
LEMMA EvictStep ==
    ASSUME Inv, Evict
    PROVE  Inv'
<1>1. /\ memObjects' \subseteq memObjects
      /\ memcache' = memcache \/ \E k \in Key : memcache' = [memcache EXCEPT ![k] = Miss]
      /\ UNCHANGED <<datastore, call, ret, pc, val, tx, attempt>>
  BY DEF Evict
<1>2. TypeOK'
  BY <1>1 DEF Inv, TypeOK, datastore
<1>3. PlacesMatchCalls'
  BY <1>1 DEF Inv, PlacesMatchCalls
<1>4. FoundStored'
  BY <1>1 DEF Inv, FoundStored, datastore
<1>5. RefsResolve'
  BY <1>1, KeyFacts DEF Inv, TypeOK, RefsResolve, datastore
<1>6. QED
  BY <1>2, <1>3, <1>4, <1>5 DEF Inv

(* Every step keeps the invariant.                                         *)
THEOREM Consecution == Inv /\ [Next]_vars => Inv'
<1> SUFFICES ASSUME Inv, [Next]_vars PROVE Inv'
  OBVIOUS
<1>1. CASE UNCHANGED vars
  BY <1>1 DEF Inv, TypeOK, PlacesMatchCalls, FoundStored, RefsResolve, vars,
              datastore, caches
<1>2. CASE Evict
  BY <1>2, EvictStep
<1>3. ASSUME NEW p \in Proc, Invoke(p) \/ Run(p) PROVE Inv'
  BY <1>3, InvokeStep, RefuseNameStep, LookUpStep, LoadStep, FillStep,
     LookUpObjectStep, LoadObjectStep, FillObjectStep, PutObjectStep, ListRefsStep,
     PutStep, CacheStep, UncacheStep, DelStep, CommitStep, RetryStep, FailStep,
     UnsureStep, ReturnStep DEF Run
<1>4. QED
  BY <1>1, <1>2, <1>3 DEF Next

(* The inductive invariant of the App Engine repository, with or without   *)
(* memcache, whatever fails and whatever is evicted.                       *)
THEOREM Invariance == Spec => []Inv
BY Initially, Consecution, PTL DEF Spec

(* All variables keep their types; the attempts of a transaction are       *)
(* counted up to MaxAttempts.                                              *)
THEOREM TypeCorrectness == Spec => []TypeOK
<1>1. Inv => TypeOK
  BY DEF Inv
<1>2. QED
  BY <1>1, Invariance, PTL

(* No ref in the datastore or in memcache ever points at an object that    *)
(* the datastore does not hold, although memcache can be older than the    *)
(* datastore and can be ahead of it.                                       *)
THEOREM RefsAlwaysResolve == Spec => []RefsResolve
<1>1. Inv => RefsResolve
  BY DEF Inv
<1>2. QED
  BY <1>1, Invariance, PTL

-----------------------------------------------------------------------------
(* Without memcache.  What UpdateRef compared with oldID is then what the  *)
(* datastore held when the transaction began to use the entity group, and  *)
(* as long as the transaction is not stale it still is.                    *)

NothingCached ==
    /\ memObjects = {}
    /\ \A k \in Key : memcache[k] = Miss

HasCompared(p) ==
    pc[p] \in {"getobject", "loadobject", "fillobject", "put", "cache",
              "uncache", "del", "commit"}

ComparisonHolds(p) ==
    LET c == call[p] IN
    /\ pc[p] = "fill" => val[p] # ZeroID
    /\ c.op = "UpdateRef" =>
          /\ pc[p] \in {"get", "load"} => tx[p] = "open"
          /\ pc[p] = "fill" =>
                /\ tx[p] # "open"
                /\ tx[p] = "clean" => entity[c.name] = val[p]
          /\ HasCompared(p) =>
                /\ tx[p] # "open"
                /\ tx[p] = "clean" => entity[c.name] = c.oldID

Isolated == NothingCached /\ \A p \in Proc : ComparisonHolds(p)

(* Nothing is cached and nothing compared in the beginning.                *)
LEMMA IsolatedInitially == Init => Isolated
BY DEF Init, Isolated, NothingCached, ComparisonHolds, HasCompared

(* Memcache stays empty.                                                   *)
LEMMA StaysUncached ==
    ASSUME Cached = FALSE, Inv, NothingCached, [Next]_vars
    PROVE  NothingCached'
<1>1. CASE UNCHANGED caches
  BY <1>1 DEF NothingCached, caches
<1>2. CASE Evict
  BY <1>2 DEF Evict, NothingCached
<1>3. ASSUME NEW p \in Proc, Fill(p) \/ FillObject(p) \/ Cache(p) \/ Uncache(p)
      PROVE  NothingCached'
  BY <1>3 DEF Fill, FillObject, Cache, Uncache, CacheSet, CacheSetObject, NothingCached
<1>4. ASSUME NEW p \in Proc, Invoke(p) \/ Run(p),
             ~ (Fill(p) \/ FillObject(p) \/ Cache(p) \/ Uncache(p))
      PROVE  UNCHANGED caches
  BY <1>4 DEF Invoke, Run, RefuseName, LookUp, Load, LookUpObject, LoadObject,
              PutObject, ListRefs, Put, Del, Commit, Retry, GiveUp, Unsure,
              Unavailable, Return
<1>5. QED
  BY <1>1, <1>2, <1>3, <1>4 DEF Next, vars

(* A goroutine that takes no step keeps what it compared: a write of       *)
(* another one to the entity group makes its transaction stale.            *)
LEMMA OthersKeepComparisons ==
    ASSUME NEW p \in Proc, NEW q \in Proc, q # p, ComparisonHolds(q),
           pc'[q] = pc[q], call'[q] = call[q], val'[q] = val[q],
           \/ tx'[q] = tx[q] /\ UNCHANGED entity
           \/ \E k, v : WriteGroup(p, k, v)
    PROVE  ComparisonHolds(q)'
<1>1. CASE tx'[q] = tx[q] /\ UNCHANGED entity
  BY <1>1 DEF ComparisonHolds, HasCompared
<1>2. CASE \E k, v : WriteGroup(p, k, v)
  <2>1. tx'[q] # "clean" /\ (tx[q] = "open" <=> tx'[q] = "open")
    BY <1>2 DEF WriteGroup
  <2>2. QED
    BY <2>1 DEF ComparisonHolds, HasCompared
<1>3. QED
  BY <1>1, <1>2

(* What a step changes for the goroutines that do not take it.             *)
LEMMA StepOfOne ==
    ASSUME Inv, NEW p \in Proc, Invoke(p) \/ Run(p), NEW q \in Proc, q # p
    PROVE  /\ pc'[q] = pc[q] /\ call'[q] = call[q] /\ val'[q] = val[q]
           /\ ret'[q] = ret[q]
           /\ \/ tx'[q] = tx[q] /\ UNCHANGED entity
              \/ \E k, v : WriteGroup(p, k, v)
<1>1. pc'[q] = pc[q] /\ ret'[q] = ret[q]
  BY DEF Inv, TypeOK, Invoke, Run, RefuseName, LookUp, Load, Fill, Got, LookUpObject,
         LoadObject, FillObject, Found, PutObject, ListRefs, Put, Cache, Uncache, Del,
         Commit, Retry, GiveUp, Unsure, Unavailable, Return, Goto, Reply
<1>2. call'[q] = call[q] /\ val'[q] = val[q]
  BY DEF Inv, TypeOK, Invoke, Run, RefuseName, LookUp, Load, Fill, LookUpObject,
         LoadObject, FillObject, PutObject, ListRefs, Put, Cache, Uncache, Del,
         Commit, Retry, GiveUp, Unsure, Unavailable, Return
<1>3. \/ tx'[q] = tx[q] /\ UNCHANGED entity
      \/ \E k, v : WriteGroup(p, k, v)
  <2>1. CASE Invoke(p) \/ Retry(p)
    BY <2>1 DEF Inv, TypeOK, Invoke, Retry, Begin, datastore
  <2>2. CASE Load(p) \/ Del(p)
    BY <2>2 DEF Inv, TypeOK, Load, Del, UseGroup, datastore
  <2>3. CASE Put(p) \/ Commit(p) \/ Unsure(p)
    BY <2>3 DEF Inv, TypeOK, Put, Commit, Unsure, UseGroup
  <2>4. CASE Return(p)
    BY <2>4 DEF Inv, TypeOK, Return, datastore
  <2>5. CASE ~ (\/ Invoke(p) \/ Retry(p) \/ Load(p) \/ Del(p) \/ Put(p) \/ Commit(p)
               \/ Unsure(p) \/ Return(p))
    BY <2>5 DEF Run, RefuseName, LookUp, Fill, LookUpObject, LoadObject, FillObject,
                PutObject, ListRefs, Cache, Uncache, GiveUp, Unavailable, datastore
  <2>6. QED
    BY <2>1, <2>2, <2>3, <2>4, <2>5
<1>4. QED
  BY <1>1, <1>2, <1>3

(* get in a transaction: what it compares with oldID is what it used.      *)
LEMMA GotKeepsComparison ==
    ASSUME Inv, NEW p \in Proc, pc[p] \in {"load", "fill"}, NEW v \in Value,
           Got(p, v), UNCHANGED <<call, entity>>,
           call[p].op = "UpdateRef" =>
               tx'[p] # "open" /\ (tx'[p] = "clean" => entity[call[p].name] = v)
    PROVE  ComparisonHolds(p)'
<1>1. /\ call[p] \in Workload
      /\ call[p].op \in {"GetRef", "GetHEAD", "UpdateRef"}
  BY CallInProgress DEF Inv, PlacesMatchCalls
<1>2. \/ pc'[p] = "return"
      \/ pc'[p] \in {"uncache", "getobject"} /\ v = call[p].oldID
      \/ pc'[p] = "commit" /\ WritesNothing(call[p]) /\ v = ZeroID
  BY <1>1, GotFacts DEF Inv, TypeOK
<1>3. WritesNothing(call[p]) => call[p].oldID = ZeroID
  BY DEF WritesNothing
<1>4. QED
  BY <1>2, <1>3 DEF ComparisonHolds, HasCompared

(* The goroutine that takes a step keeps its comparison or makes a new one.*)
LEMMA OwnComparison ==
    ASSUME Inv, NothingCached, NEW p \in Proc, ComparisonHolds(p), Invoke(p) \/ Run(p)
    PROVE  ComparisonHolds(p)'
<1>1. CASE Invoke(p)
  <2>1. PICK c \in Workload :
           /\ call' = [call EXCEPT ![p] = c]
           /\ pc' = [pc EXCEPT ![p] = First(c)]
           /\ IF c.op = "UpdateRef" THEN Begin(p) ELSE UNCHANGED <<tx, attempt>>
    BY <1>1 DEF Invoke, Goto
  <2>2. c.op = "UpdateRef" => First(c) = "get" /\ tx'[p] = "open"
    BY <2>1, FirstFacts DEF Inv, TypeOK, Begin
  <2>3. First(c) \in {"get", "getobject", "putobject", "query", "put"}
    BY CallTypes, FirstFacts
  <2>4. QED
    BY <2>1, <2>2, <2>3 DEF Inv, TypeOK, ComparisonHolds, HasCompared
<1>2. CASE LookUp(p)
  <2>1. pc' = [pc EXCEPT ![p] = "load"]
    BY <1>2 DEF LookUp, NothingCached, Goto
  <2>2. QED
    BY <1>2, <2>1 DEF Inv, TypeOK, LookUp, At, ComparisonHolds, HasCompared
<1>3. CASE Load(p)
  <2> DEFINE v == entity[KeyOf(call[p])]
  <2>1. /\ KeyOf(call[p]) \in Key /\ v \in Value
        /\ call[p].op = "UpdateRef" => KeyOf(call[p]) = call[p].name
    BY <1>3 DEF Load, At, Inv, TypeOK, PlacesMatchCalls, KeyOf
  <2>2. call[p].op = "UpdateRef" => tx'[p] = "clean"
    BY <1>3 DEF Load, At, UseGroup, Used, ComparisonHolds, Inv, TypeOK
  <2>3. CASE Got(p, v)
    BY <1>3, <2>1, <2>2, <2>3, GotKeepsComparison DEF Load, At, datastore
  <2>4. CASE v # ZeroID /\ val' = [val EXCEPT ![p] = v] /\ Goto(p, "fill")
    BY <1>3, <2>1, <2>2, <2>4
       DEF Load, Goto, Inv, TypeOK, datastore, ComparisonHolds, HasCompared
  <2>5. QED
    BY <1>3, <2>3, <2>4 DEF Load
<1>4. CASE Fill(p)
  <2>1. /\ val[p] \in Value /\ val[p] # ZeroID
        /\ call[p].op = "UpdateRef" =>
              tx[p] # "open" /\ (tx[p] = "clean" => entity[call[p].name] = val[p])
    BY <1>4 DEF Fill, At, Inv, TypeOK, ComparisonHolds
  <2>2. QED
    BY <1>4, <2>1, GotKeepsComparison DEF Fill, At, datastore
<1>5. CASE LookUpObject(p) \/ LoadObject(p) \/ FillObject(p) \/ Cache(p) \/ Uncache(p)
  <2>1. /\ HasCompared(p) /\ UNCHANGED <<call, entity, tx>>
        /\ pc'[p] # "fill" /\ pc'[p] \notin {"get", "load"}
    BY <1>5 DEF LookUpObject, LoadObject, FillObject, Found, Cache, Uncache, At, Goto,
                HasCompared, datastore, Inv, TypeOK
  <2>2. QED
    BY <2>1 DEF ComparisonHolds
<1>6. CASE Put(p)
  <2>1. pc'[p] = "cache" /\ call' = call
    BY <1>6 DEF Put, Goto, Inv, TypeOK
  <2>2. call[p].op = "UpdateRef" => UNCHANGED <<entity, tx>>
    BY <1>6 DEF Put, At, UseGroup, Used, ComparisonHolds, HasCompared, Inv, TypeOK
  <2>3. QED
    BY <1>6, <2>1, <2>2 DEF Put, At, ComparisonHolds, HasCompared
<1>7. CASE Del(p)
  <2>1. UNCHANGED <<call, entity>> /\ pc'[p] = "commit" /\ HasCompared(p)
    BY <1>7 DEF Del, At, Goto, HasCompared, datastore, Inv, TypeOK
  <2>2. call[p].op = "UpdateRef" => tx' = tx
    BY <1>7, <2>1 DEF Del, UseGroup, Used, ComparisonHolds, Inv, TypeOK
  <2>3. QED
    BY <2>1, <2>2 DEF ComparisonHolds
<1>8. CASE Retry(p)
  BY <1>8 DEF Retry, Begin, Goto, Inv, TypeOK, ComparisonHolds, HasCompared
<1>9. CASE PutObject(p)
  BY <1>9 DEF PutObject, At, Goto, Inv, TypeOK, PlacesMatchCalls, ComparisonHolds,
              HasCompared
<1>10. CASE \/ RefuseName(p) \/ ListRefs(p) \/ Commit(p) \/ GiveUp(p) \/ Unsure(p)
            \/ Unavailable(p) \/ Return(p)
  <2>1. pc'[p] \in {"return", "idle"}
    BY <1>10 DEF RefuseName, ListRefs, Commit, GiveUp, Unsure, Unavailable, Return, Goto,
                 Inv, TypeOK
  <2>2. QED
    BY <2>1 DEF ComparisonHolds, HasCompared
<1>11. QED
  BY <1>1, <1>2, <1>3, <1>4, <1>5, <1>6, <1>7, <1>8, <1>9, <1>10 DEF Run

(* Every step keeps memcache empty and the comparisons true.               *)
LEMMA IsolatedConsecution ==
    ASSUME Cached = FALSE
    PROVE  Inv /\ Isolated /\ [Next]_vars => Isolated'
<1> SUFFICES ASSUME Inv, Isolated, [Next]_vars PROVE Isolated'
  OBVIOUS
<1>1. NothingCached'
  BY StaysUncached DEF Isolated
<1>2. ASSUME NEW q \in Proc PROVE ComparisonHolds(q)'
  <2>1. CASE UNCHANGED vars \/ Evict
    BY <2>1 DEF vars, datastore, Evict, Isolated, ComparisonHolds, HasCompared
  <2>2. ASSUME NEW p \in Proc, Invoke(p) \/ Run(p) PROVE ComparisonHolds(q)'
    BY <2>2, OwnComparison, StepOfOne, OthersKeepComparisons DEF Isolated
  <2>3. QED
    BY <2>1, <2>2 DEF Next
<1>3. QED
  BY <1>1, <1>2 DEF Isolated

(* Without memcache, memcache is empty and what an UpdateRef whose         *)
(* transaction is not stale compared still holds.                          *)
THEOREM Isolation ==
    ASSUME Cached = FALSE
    PROVE  Spec => [](Inv /\ Isolated)
<1>1. Init => Inv /\ Isolated
  BY Initially, IsolatedInitially
<1>2. Inv /\ Isolated /\ [Next]_vars => (Inv /\ Isolated)'
  BY Consecution, IsolatedConsecution
<1>3. QED
  BY <1>1, <1>2, PTL DEF Spec

(* A step writes to the datastore a name to HEAD, or an object to a ref    *)
(* that holds the oldID of an UpdateRef.                                   *)
LEMMA WritesAreAskedFor ==
    ASSUME Inv, Isolated, NEW p \in Proc, Invoke(p) \/ Run(p)
    PROVE  \/ UNCHANGED entity
           \/ call[p].op = "SetHEAD" /\ entity' = [entity EXCEPT ![Root] = call[p].name]
           \/ /\ call[p].op = "UpdateRef" /\ call[p].name \in ValidRef
              /\ entity[call[p].name] = call[p].oldID
              /\ entity' = [entity EXCEPT ![call[p].name] = call[p].newID]
<1>1. CASE /\ At(p, "commit") /\ tx[p] = "clean"
           /\ WriteGroup(p, call[p].name, call[p].newID)
  <2>1. call[p].op = "UpdateRef" /\ call[p].name \in ValidRef
    BY <1>1, WhatIsWritten DEF At, Inv, PlacesMatchCalls
  <2>2. QED
    BY <1>1, <2>1 DEF At, Isolated, ComparisonHolds, HasCompared, WriteGroup
<1>2. CASE Put(p) \/ Commit(p) \/ Unsure(p)
  BY <1>1, <1>2 DEF Put, Commit, Unsure, WriteGroup
<1>3. CASE ~ (Put(p) \/ Commit(p) \/ Unsure(p))
  BY <1>3 DEF Invoke, Run, RefuseName, LookUp, Load, Fill, LookUpObject, LoadObject,
              FillObject, PutObject, ListRefs, Cache, Uncache, Del, Retry, GiveUp,
              Unavailable, Return, datastore
<1>4. QED
  BY <1>2, <1>3

(* Without memcache UpdateRef is a compare-and-swap, by its transaction:   *)
(* the violation that memcache causes has no other cause.                  *)
THEOREM CompareAndSwap ==
    ASSUME Cached = FALSE
    PROVE  Spec => RefsMoveByCompareAndSwap
<1>1. ASSUME Inv /\ Isolated, [Next]_vars
      PROVE  [EveryMoveIsAskedFor]_vars
  <2>1. CASE UNCHANGED vars
    BY <2>1
  <2>2. CASE UNCHANGED entity
    BY <2>2 DEF EveryMoveIsAskedFor
  <2>3. Evict => UNCHANGED entity
    BY DEF Evict, datastore
  <2>4. ASSUME NEW p \in Proc, Invoke(p) \/ Run(p), ~ UNCHANGED entity
        PROVE  EveryMoveIsAskedFor
    <3>1. \A n \in ValidRef :
            entity'[n] # entity[n] =>
              /\ call[p].op = "UpdateRef"
              /\ n = call[p].name /\ entity[n] = call[p].oldID
              /\ entity'[n] = call[p].newID
      BY <1>1, <2>4, WritesAreAskedFor, KeyFacts DEF Inv, TypeOK
    <3>2. QED
      BY <3>1 DEF EveryMoveIsAskedFor
  <2>5. QED
    BY <1>1, <2>1, <2>2, <2>3, <2>4 DEF Next
<1>2. QED
  BY <1>1, Isolation, PTL DEF Spec, RefsMoveByCompareAndSwap

-----------------------------------------------------------------------------
(* The refinement, without memcache.                                       *)

(* Both modules use the same calls and answers.                            *)
LEMMA SameInterface ==
    /\ Atomic!Idle = Idle
    /\ Atomic!NoAnswer = NoAnswer
    /\ Atomic!Done = Done
    /\ \A x : Atomic!Ok(x) = Ok(x)
    /\ \A e : Atomic!Error(e) = Error(e)
    /\ \A id, oldID : Atomic!ConflictError(id, oldID) = ConflictError(id, oldID)
BY DEF Atomic!Idle, Idle, Atomic!NoAnswer, NoAnswer, Atomic!Done, Done, Atomic!Ok,
       Ok, Atomic!Error, Error, Atomic!ConflictError, ConflictError

(* A step changes the answer of the goroutine that takes it only.          *)
LEMMA AnswerOfOne ==
    ASSUME Inv, NEW p \in Proc, Invoke(p) \/ Run(p)
    PROVE  [q \in Proc |-> Answered(q)]'
             = [[q \in Proc |-> Answered(q)] EXCEPT ![p] = Answered(p)']
<1>1. \A q \in Proc : q # p => Answered(q)' = Answered(q)
  BY StepOfOne DEF Answered
<1>2. QED
  BY <1>1

(* A step that changes neither the stores nor the answer changes nothing   *)
(* in the atomic repository.                                               *)
LEMMA Stutters ==
    ASSUME Inv, NEW p \in Proc, Invoke(p) \/ Run(p), Answered(p)' = Answered(p),
           UNCHANGED <<datastore, call>>
    PROVE  UNCHANGED Atomic!vars
BY AnswerOfOne DEF Atomic!vars, datastore

(* A step that gives an answer is a reply of the atomic repository.        *)
LEMMA Replies ==
    ASSUME Inv, NEW p \in Proc, Invoke(p) \/ Run(p), NEW a, Answered(p)' = a,
           UNCHANGED call
    PROVE  Atomic!Reply(p, a)
BY AnswerOfOne DEF Atomic!Reply

(* A call that has no answer yet is pending in the atomic repository.      *)
LEMMA PendingFacts ==
    ASSUME NEW p \in Proc, Answered(p) = NoAnswer
    PROVE  Atomic!Pending(p, call[p].op)
BY SameInterface DEF Atomic!Pending

(* No answer is bound to be given where get or getobject begins.           *)
LEMMA NotAnswered ==
    ASSUME Inv, NEW p \in Proc, pc[p] \notin {"fill", "fillobject", "cache", "return"}
    PROVE  Answered(p) = NoAnswer
BY DEF Answered, BoundTo, Inv, PlacesMatchCalls

(* Entering a method.                                                      *)
LEMMA InvokeTakesEffect ==
    ASSUME Inv, NEW p \in Proc, Invoke(p)
    PROVE  Atomic!Invoke(p)
<1>1. PICK c \in Workload :
         /\ call' = [call EXCEPT ![p] = c]
         /\ pc' = [pc EXCEPT ![p] = First(c)]
  BY DEF Invoke, Goto
<1>2. First(c) \notin {"fill", "fillobject", "cache", "return"}
  BY CallTypes, FirstFacts
<1>3. Answered(p) = NoAnswer /\ Answered(p)' = NoAnswer
  BY <1>1, <1>2, NotAnswered
     DEF Invoke, At, Answered, BoundTo, Inv, TypeOK, PlacesMatchCalls
<1>4. UNCHANGED [q \in Proc |-> Answered(q)]
  BY <1>3, AnswerOfOne
<1>5. call[p] = Idle
  BY DEF Invoke, At, Inv, PlacesMatchCalls
<1>6. QED
  BY <1>1, <1>4, <1>5, SameInterface DEF Invoke, Atomic!Invoke, datastore

(* A malformed name is GetRef's only failure of that kind here.            *)
LEMMA RefuseNameTakesEffect ==
    ASSUME Inv, NEW p \in Proc, RefuseName(p)
    PROVE  Atomic!GetRef(p)
<1>1. call[p] \in Workload /\ call[p].op \in {"GetRef", "GetHEAD", "UpdateRef"}
  BY CallInProgress DEF RefuseName, At, Inv, PlacesMatchCalls
<1>2. call[p].op = "GetRef" /\ call[p].name \notin ValidRef
  BY <1>1, CallTypes, KeyFacts DEF RefuseName, KeyOf
<1>3. Answered(p) = NoAnswer
  BY NotAnswered DEF RefuseName, At
<1>4. Error("ErrInvalidRef") # NoAnswer
  BY DEF Error, NoAnswer
<1>5. Answered(p)' = Error("ErrInvalidRef") /\ UNCHANGED call
  BY <1>4 DEF RefuseName, Reply, Answered, Inv, TypeOK
<1>6. Atomic!Reply(p, Error("ErrInvalidRef")) /\ Atomic!Pending(p, "GetRef")
  BY <1>2, <1>3, <1>5, Replies, PendingFacts DEF Run
<1>7. QED
  BY <1>2, <1>6, SameInterface DEF RefuseName, Atomic!GetRef, datastore

(* A method whose answer follows from the value of a key takes effect when *)
(* it loads the value, unless UpdateRef found what it expected.            *)
LEMMA LoadTakesEffect ==
    ASSUME Inv, NEW p \in Proc, Load(p)
    PROVE  Atomic!Next \/ UNCHANGED Atomic!vars
<1> DEFINE c == call[p]
           v == entity[KeyOf(c)]
<1>1. /\ c \in Workload /\ c.op \in {"GetRef", "GetHEAD", "UpdateRef"}
      /\ KeyOf(c) \in Key /\ v \in Value
      /\ UNCHANGED <<call, objects, entity>>
  BY CallInProgress DEF Load, At, Inv, TypeOK, PlacesMatchCalls, datastore
<1>2. Answered(p) = NoAnswer
  BY NotAnswered DEF Load, At
<1>3. Answered(p)' = Outcome(c, v) \/ Answered(p)' = NoAnswer
  <2>1. CASE Got(p, v)
    BY <1>1, <2>1, GotFacts, AnswerIsNotPending
       DEF Answered, BoundTo, Inv, TypeOK, PlacesMatchCalls, Load, At
  <2>2. CASE val' = [val EXCEPT ![p] = v] /\ Goto(p, "fill") /\ UNCHANGED ret
    BY <1>1, <2>2 DEF Answered, BoundTo, Goto, Inv, TypeOK, PlacesMatchCalls, Load, At
  <2>3. QED
    BY <2>1, <2>2 DEF Load
<1>4. CASE Answered(p)' = NoAnswer
  BY <1>1, <1>2, <1>4, Stutters DEF Run, datastore
<1>5. CASE Answered(p)' = Outcome(c, v)
  <2>1. Atomic!Reply(p, Outcome(c, v)) /\ Atomic!Pending(p, c.op)
    BY <1>1, <1>2, <1>5, Replies, PendingFacts DEF Run
  <2>2. CASE c.op = "GetHEAD"
    <3>1. Atomic!GetHEAD(p)
      BY <1>1, <2>1, <2>2, OutcomeFacts, SameInterface DEF KeyOf, Atomic!GetHEAD
    <3>2. QED
      BY <3>1 DEF Atomic!Next
  <2>3. CASE c.op = "GetRef"
    <3>1. c.name \in ValidRef /\ KeyOf(c) = c.name
      BY <1>1, <2>3, CallTypes, AppengineAssumption DEF KeyOf, Key
    <3>2. Atomic!GetRef(p)
      BY <1>1, <2>1, <2>3, <3>1, OutcomeFacts, SameInterface DEF Atomic!GetRef
    <3>3. QED
      BY <3>2 DEF Atomic!Next
  <2>4. CASE c.op = "UpdateRef"
    <3>1. c.name \in ValidRef /\ KeyOf(c) = c.name
      BY <1>1, <2>4, CallTypes DEF KeyOf
    <3>2. CASE v # c.oldID
      <4>1. Atomic!UpdateRefFails(p)
        BY <1>1, <2>1, <2>4, <3>1, <3>2, OutcomeFacts, SameInterface
           DEF Atomic!UpdateRefFails
      <4>2. QED
        BY <4>1 DEF Atomic!Next
    <3>3. CASE v = c.oldID /\ v = c.newID /\ v = ZeroID
      <4>1. [n \in ValidRef |-> entity[n]]
              = [[n \in ValidRef |-> entity[n]] EXCEPT ![c.name] = c.newID]
        BY <3>1, <3>3
      <4>2. Atomic!UpdateRefSucceeds(p)
        BY <1>1, <2>1, <2>4, <3>1, <3>3, <4>1, OutcomeFacts, SameInterface
           DEF Atomic!UpdateRefSucceeds, Atomic!MoveRef
      <4>3. QED
        BY <4>2 DEF Atomic!Next
    <3>4. CASE v = c.oldID /\ ~ (v = c.newID /\ v = ZeroID)
      <4>1. Outcome(c, v) = NoAnswer
        BY <2>4, <3>4, OutcomeFacts
      <4>2. QED
        BY <1>4, <1>5, <4>1
    <3>5. QED
      BY <3>2, <3>3, <3>4
  <2>5. QED
    BY <1>1, <2>2, <2>3, <2>4
<1>6. QED
  BY <1>3, <1>4, <1>5

(* The answer of get is bound to be given before memcache is filled.       *)
LEMMA FillStutters ==
    ASSUME Inv, Isolated, NEW p \in Proc, Fill(p)
    PROVE  UNCHANGED Atomic!vars
<1>1. /\ call[p] \in Workload /\ call[p].op \in {"GetRef", "GetHEAD", "UpdateRef"}
      /\ val[p] \in Value /\ val[p] # ZeroID /\ Got(p, val[p])
      /\ UNCHANGED <<datastore, call, val>>
      /\ ret[p] = NoAnswer
  BY CallInProgress
     DEF Fill, At, Inv, TypeOK, PlacesMatchCalls, Isolated, ComparisonHolds
<1>2. Answered(p) = Outcome(call[p], val[p])
  BY <1>1 DEF Answered, BoundTo, Fill, At
<1>3. Answered(p)' = Outcome(call[p], val[p])
  BY <1>1, GotFacts, AnswerIsNotPending DEF Answered, BoundTo, Inv, TypeOK
<1>4. QED
  BY <1>1, <1>2, <1>3, Stutters DEF Run

(* Lookups that memcache cannot answer, what UpdateRef does in its         *)
(* transaction, a transaction that begins again, and memcache itself       *)
(* change nothing.                                                         *)
LEMMA SilentSteps ==
    ASSUME Inv, Isolated, NEW p \in Proc,
           \/ LookUp(p) \/ LookUpObject(p) \/ FillObject(p) \/ Cache(p)
           \/ Uncache(p) \/ Del(p) \/ Retry(p)
    PROVE  UNCHANGED Atomic!vars
<1>1. CASE LookUp(p) \/ LookUpObject(p)
  <2>1. /\ pc[p] \in {"get", "getobject"}
        /\ pc' = [pc EXCEPT ![p] = IF pc[p] = "get" THEN "load" ELSE "loadobject"]
        /\ UNCHANGED <<datastore, call, ret>>
    BY <1>1 DEF LookUp, LookUpObject, At, Goto, Isolated, NothingCached
  <2>2. Answered(p) = NoAnswer /\ Answered(p)' = NoAnswer
    BY <2>1, NotAnswered DEF Answered, BoundTo, Inv, TypeOK, PlacesMatchCalls
  <2>3. QED
    BY <1>1, <2>1, <2>2, Stutters DEF Run
<1>2. CASE FillObject(p)
  <2>1. /\ UNCHANGED <<datastore, call>>
        /\ call[p].op \in {"GetObject", "PutObject", "UpdateRef"} /\ ret[p] = NoAnswer
    BY <1>2 DEF FillObject, At, Inv, PlacesMatchCalls
  <2>2. CASE call[p].op = "UpdateRef"
    <3>1. Answered(p) = NoAnswer /\ Answered(p)' = NoAnswer
      BY <1>2, <2>1, <2>2
         DEF FillObject, Found, At, Goto, Answered, BoundTo, Inv, TypeOK
    <3>2. QED
      BY <1>2, <2>1, <3>1, Stutters DEF Run
  <2>3. CASE call[p].op # "UpdateRef"
    <3>1. Ok(call[p].id) # NoAnswer
      BY DEF Ok, NoAnswer
    <3>2. Answered(p) = Ok(call[p].id) /\ Answered(p)' = Ok(call[p].id)
      BY <1>2, <2>1, <2>3, <3>1
         DEF FillObject, Found, ObjectOf, At, Reply, Answered, BoundTo, Inv, TypeOK
    <3>3. QED
      BY <1>2, <2>1, <3>2, Stutters DEF Run
  <2>4. QED
    BY <2>2, <2>3
<1>3. CASE Cache(p)
  <2>1. UNCHANGED <<datastore, call>> /\ ret[p] = NoAnswer
    BY <1>3 DEF Cache, At, Inv, PlacesMatchCalls
  <2>2. Done # NoAnswer
    BY DEF Done, Ok, NoAnswer
  <2>3. Answered(p)' = Answered(p)
    BY <1>3, <2>1, <2>2 DEF Cache, At, Reply, Goto, Answered, BoundTo, Inv, TypeOK
  <2>4. QED
    BY <1>3, <2>1, <2>3, Stutters DEF Run
<1>4. CASE Uncache(p) \/ Del(p) \/ Retry(p)
  <2>1. UNCHANGED <<datastore, call>>
    BY <1>4 DEF Uncache, Del, Retry
  <2>2. Answered(p)' = Answered(p)
    BY <1>4 DEF Uncache, Del, Retry, At, Goto, Answered, BoundTo, Inv, TypeOK
  <2>3. QED
    BY <1>4, <2>1, <2>2, Stutters DEF Run
<1>5. QED
  BY <1>1, <1>2, <1>3, <1>4

(* GetObject takes effect where the datastore answers; UpdateRef fails     *)
(* there if newID is not stored, and goes on if it is.                     *)
LEMMA LoadObjectTakesEffect ==
    ASSUME Inv, NEW p \in Proc, LoadObject(p)
    PROVE  Atomic!Next \/ UNCHANGED Atomic!vars
<1> DEFINE c == call[p]
<1>1. /\ c \in Workload /\ c.op \in {"GetObject", "UpdateRef"}
      /\ c.op = "UpdateRef" => c.newID # ZeroID
      /\ UNCHANGED <<call, objects, entity>>
      /\ Answered(p) = NoAnswer /\ ret[p] = NoAnswer
  BY CallInProgress, NotAnswered DEF LoadObject, At, Inv, PlacesMatchCalls, datastore
<1>2. CASE ObjectOf(c) \in objects /\ Goto(p, "fillobject") /\ UNCHANGED ret
  <2>1. CASE c.op = "UpdateRef"
    <3>1. Answered(p)' = NoAnswer
      BY <1>1, <1>2, <2>1 DEF Answered, BoundTo, Goto, Inv, TypeOK
    <3>2. QED
      BY <1>1, <3>1, Stutters DEF Run, datastore
  <2>2. CASE c.op = "GetObject"
    <3>1. Answered(p)' = Ok(c.id)
      BY <1>1, <1>2, <2>2 DEF Answered, BoundTo, Goto, Inv, TypeOK
    <3>2. Atomic!GetObject(p)
      BY <1>1, <1>2, <2>2, <3>1, Replies, PendingFacts, SameInterface
         DEF Run, ObjectOf, Atomic!GetObject
    <3>3. QED
      BY <3>2 DEF Atomic!Next
  <2>3. QED
    BY <1>1, <2>1, <2>2
<1>3. CASE ObjectOf(c) \notin objects /\ Reply(p, Error("ErrObjectNotExist"))
  <2>1. Error("ErrObjectNotExist") # NoAnswer
    BY DEF Error, NoAnswer
  <2>2. Answered(p)' = Error("ErrObjectNotExist")
    BY <1>3, <2>1 DEF Answered, Reply, Inv, TypeOK
  <2>3. Atomic!Reply(p, Error("ErrObjectNotExist")) /\ Atomic!Pending(p, c.op)
    BY <1>1, <2>2, Replies, PendingFacts DEF Run
  <2>4. CASE c.op = "UpdateRef"
    <3>1. c.name \in ValidRef
      BY <1>1, <2>4, CallTypes
    <3>2. Atomic!UpdateRefFails(p)
      BY <1>1, <1>3, <2>3, <2>4, <3>1, SameInterface
         DEF ObjectOf, Atomic!UpdateRefFails
    <3>3. QED
      BY <3>2 DEF Atomic!Next
  <2>5. CASE c.op = "GetObject"
    <3>1. Atomic!GetObject(p)
      BY <1>1, <1>3, <2>3, <2>5, SameInterface DEF ObjectOf, Atomic!GetObject
    <3>2. QED
      BY <3>1 DEF Atomic!Next
  <2>6. QED
    BY <1>1, <2>4, <2>5
<1>4. QED
  BY <1>2, <1>3 DEF LoadObject

(* PutObject takes effect where the datastore stores the object.           *)
LEMMA PutObjectTakesEffect ==
    ASSUME Inv, NEW p \in Proc, PutObject(p)
    PROVE  Atomic!PutObject(p)
<1>1. /\ call[p].op = "PutObject" /\ ret[p] = NoAnswer
      /\ UNCHANGED <<call, entity>>
      /\ Answered(p) = NoAnswer
  BY NotAnswered DEF PutObject, At, Inv, PlacesMatchCalls
<1>2. Atomic!Pending(p, "PutObject")
  BY <1>1, PendingFacts
<1>3. CASE /\ call[p].id \in ID /\ objects' = objects \cup {call[p].id}
           /\ Goto(p, "fillobject") /\ UNCHANGED ret
  <2>1. Answered(p)' = Ok(call[p].id)
    BY <1>1, <1>3 DEF Answered, BoundTo, Goto, Inv, TypeOK
  <2>2. Atomic!Reply(p, Ok(call[p].id))
    BY <1>1, <2>1, Replies DEF Run
  <2>3. QED
    BY <1>1, <1>2, <1>3, <2>2, SameInterface DEF Atomic!PutObject, Atomic!StoreObject
<1>4. CASE call[p].id = Foreign /\ Reply(p, Error("TypeError")) /\ UNCHANGED objects
  <2>1. Error("TypeError") # NoAnswer
    BY DEF Error, NoAnswer
  <2>2. Answered(p)' = Error("TypeError")
    BY <1>4, <2>1 DEF Answered, Reply, Inv, TypeOK
  <2>3. Atomic!Reply(p, Error("TypeError"))
    BY <1>1, <2>2, Replies DEF Run
  <2>4. QED
    BY <1>1, <1>2, <1>4, <2>3, SameInterface DEF Atomic!PutObject
<1>5. QED
  BY <1>3, <1>4 DEF PutObject

(* ListRefs takes effect at its query.                                     *)
LEMMA ListRefsTakesEffect ==
    ASSUME Inv, NEW p \in Proc, ListRefs(p)
    PROVE  Atomic!ListRefs(p)
<1> DEFINE list == [n \in {m \in ValidRef : entity[m] # ZeroID} |-> entity[n]]
<1>1. /\ call[p].op = "ListRefs" /\ Answered(p) = NoAnswer
      /\ UNCHANGED <<call, objects, entity>>
  BY NotAnswered DEF ListRefs, At, Inv, PlacesMatchCalls, datastore
<1>2. Ok(list) # NoAnswer
  BY DEF Ok, NoAnswer
<1>3. Answered(p)' = Ok(list)
  BY <1>2 DEF ListRefs, Reply, Answered, Inv, TypeOK
<1>4. list = [n \in Atomic!Listed |-> [m \in ValidRef |-> entity[m]][n]]
  BY DEF Atomic!Listed
<1>5. Atomic!Reply(p, Ok(list)) /\ Atomic!Pending(p, "ListRefs")
  BY <1>1, <1>3, Replies, PendingFacts DEF Run
<1>6. QED
  BY <1>1, <1>4, <1>5, SameInterface DEF Atomic!ListRefs

(* What the atomic repository sees of the writes to the datastore: an      *)
(* UpdateRef moves the ref from oldID, and SetHEAD moves HEAD.             *)
LEMMA CommitMovesRef ==
    ASSUME Inv, Isolated, NEW p \in Proc, At(p, "commit"), tx[p] = "clean",
           WriteGroup(p, call[p].name, call[p].newID), UNCHANGED objects
    PROVE  call[p].op = "UpdateRef" /\ Atomic!MoveRef(p)
<1> DEFINE c == call[p]
<1>1. /\ c.op = "UpdateRef" /\ c.name \in ValidRef
      /\ c.newID \in objects \cup {ZeroID}
  BY WhatIsWritten DEF At, Inv, PlacesMatchCalls
<1>2. entity[c.name] = c.oldID
  BY <1>1 DEF At, Isolated, ComparisonHolds, HasCompared
<1>3. entity' = [entity EXCEPT ![c.name] = c.newID]
  BY DEF WriteGroup
<1>4. /\ [n \in ValidRef |-> entity'[n]]
           = [[n \in ValidRef |-> entity[n]] EXCEPT ![c.name] = c.newID]
      /\ entity'[Root] = entity[Root]
  BY <1>1, <1>3, KeyFacts DEF Inv, TypeOK
<1>5. QED
  BY <1>1, <1>2, <1>4 DEF Atomic!MoveRef

(* The same for SetHEAD's put.                                             *)
LEMMA PutMovesHEAD ==
    ASSUME Inv, NEW p \in Proc, WriteGroup(p, Root, call[p].name), UNCHANGED objects
    PROVE  Atomic!MoveHEAD(p)
BY KeyFacts DEF WriteGroup, Inv, TypeOK, Atomic!MoveHEAD

(* SetHEAD takes effect at its put; UpdateRef's put is not yet committed.  *)
LEMMA PutTakesEffect ==
    ASSUME Inv, Isolated, NEW p \in Proc, Put(p)
    PROVE  Atomic!Next \/ UNCHANGED Atomic!vars
<1>1. Answered(p) = NoAnswer /\ ret[p] = NoAnswer /\ UNCHANGED <<objects, call, ret>>
  BY NotAnswered DEF Put, At, Inv, PlacesMatchCalls
<1>2. CASE call[p].op = "SetHEAD" /\ WriteGroup(p, Root, call[p].name)
  <2>1. Answered(p)' = Done
    BY <1>1, <1>2 DEF Put, Goto, Answered, BoundTo, Inv, TypeOK
  <2>2. Atomic!Reply(p, Done) /\ Atomic!Pending(p, "SetHEAD")
    BY <1>1, <1>2, <2>1, Replies, PendingFacts DEF Run
  <2>3. Atomic!SetHEAD(p)
    BY <1>1, <1>2, <2>2, PutMovesHEAD, SameInterface DEF Atomic!SetHEAD
  <2>4. QED
    BY <2>3 DEF Atomic!Next
<1>3. CASE call[p].op = "UpdateRef" /\ UNCHANGED entity
  <2>1. Answered(p)' = NoAnswer
    BY <1>1, <1>3 DEF Put, Goto, Answered, BoundTo, Inv, TypeOK
  <2>2. QED
    BY <1>1, <1>3, <2>1, Stutters DEF Run, datastore
<1>4. QED
  BY <1>2, <1>3 DEF Put

(* UpdateRef takes effect at the commit, where the ref is still oldID      *)
(* because the transaction is not stale.                                   *)
LEMMA CommitTakesEffect ==
    ASSUME Inv, Isolated, NEW p \in Proc, Commit(p)
    PROVE  Atomic!UpdateRefSucceeds(p)
<1>1. Answered(p) = NoAnswer /\ UNCHANGED call
  BY NotAnswered DEF Commit, At
<1>2. call[p].op = "UpdateRef" /\ Atomic!MoveRef(p)
  BY CommitMovesRef DEF Commit
<1>3. Done # NoAnswer
  BY DEF Done, Ok, NoAnswer
<1>4. Answered(p)' = Done
  BY <1>3 DEF Commit, Reply, Answered, Inv, TypeOK
<1>5. Atomic!Reply(p, Done) /\ Atomic!Pending(p, "UpdateRef")
  BY <1>1, <1>2, <1>4, Replies, PendingFacts DEF Run
<1>6. QED
  BY <1>2, <1>5, SameInterface DEF Atomic!UpdateRefSucceeds

(* A call that fails in the backend, in vain or not.                       *)
LEMMA FailTakesEffect ==
    ASSUME Inv, Isolated, NEW p \in Proc, GiveUp(p) \/ Unavailable(p) \/ Unsure(p)
    PROVE  Atomic!BackendFails(p)
<1>1. /\ pc[p] \notin {"idle", "fill", "fillobject", "cache", "return"}
      /\ UNCHANGED call
      /\ Reply(p, Error("BackendError"))
  BY DEF GiveUp, Unavailable, Unsure, At
<1>2. Answered(p) = NoAnswer /\ call[p] # Idle
  BY <1>1, NotAnswered DEF Inv, PlacesMatchCalls
<1>3. Error("BackendError") # NoAnswer
  BY DEF Error, NoAnswer
<1>4. Answered(p)' = Error("BackendError")
  BY <1>1, <1>3 DEF Reply, Answered, Inv, TypeOK
<1>5. Atomic!Reply(p, Error("BackendError")) /\ Atomic!Pending(p, call[p].op)
  BY <1>1, <1>2, <1>4, Replies, PendingFacts DEF Run
<1>6. \/ UNCHANGED <<objects, entity>>
      \/ Atomic!Pending(p, "PutObject") /\ Atomic!StoreObject(p)
      \/ Atomic!Pending(p, "UpdateRef") /\ Atomic!MoveRef(p)
      \/ Atomic!Pending(p, "SetHEAD") /\ Atomic!MoveHEAD(p)
  <2>1. CASE GiveUp(p) \/ Unavailable(p)
    BY <2>1 DEF GiveUp, Unavailable, datastore
  <2>2. CASE Unsure(p) /\ At(p, "putobject")
    BY <1>5, <2>2
       DEF Unsure, At, Inv, PlacesMatchCalls, Atomic!StoreObject
  <2>3. CASE Unsure(p) /\ At(p, "put")
    BY <1>5, <2>3, PutMovesHEAD DEF Unsure, At
  <2>4. CASE Unsure(p) /\ At(p, "commit")
    BY <1>5, <2>4, CommitMovesRef DEF Unsure, At
  <2>5. QED
    BY <2>1, <2>2, <2>3, <2>4 DEF Unsure
<1>7. QED
  BY <1>2, <1>5, <1>6, SameInterface DEF Atomic!BackendFails

(* Leaving a method.                                                       *)
LEMMA ReturnTakesEffect ==
    ASSUME Inv, NEW p \in Proc, Return(p)
    PROVE  Atomic!Return(p)
<1>1. Answered(p) # NoAnswer
  BY DEF Return, At, Answered, Inv, PlacesMatchCalls
<1>2. Answered(p)' = NoAnswer
  BY DEF Return, Goto, Reply, Answered, BoundTo, Inv, TypeOK
<1>3. [q \in Proc |-> Answered(q)]' = [[q \in Proc |-> Answered(q)] EXCEPT ![p] = NoAnswer]
  BY <1>2, AnswerOfOne DEF Run
<1>4. QED
  BY <1>1, <1>3, SameInterface DEF Return, Atomic!Return, datastore

(* Without memcache, every step is a step of the atomic repository or      *)
(* leaves it as it is.                                                     *)
THEOREM StepsRefine == Inv /\ Isolated /\ [Next]_vars => [Atomic!Next]_(Atomic!vars)
<1> SUFFICES ASSUME Inv, Isolated, [Next]_vars PROVE Atomic!Next \/ UNCHANGED Atomic!vars
  OBVIOUS
<1>1. CASE UNCHANGED vars
  BY <1>1 DEF vars, datastore, Answered, Atomic!vars
<1>2. CASE Evict
  BY <1>2 DEF Evict, Isolated, NothingCached
<1>3. ASSUME NEW p \in Proc, Invoke(p) \/ Run(p)
      PROVE  Atomic!Next \/ UNCHANGED Atomic!vars
  <2>1. CASE \/ LookUp(p) \/ LookUpObject(p) \/ FillObject(p) \/ Cache(p)
             \/ Uncache(p) \/ Del(p) \/ Retry(p)
    BY <2>1, SilentSteps
  <2>2. CASE Invoke(p)
    BY <2>2, InvokeTakesEffect DEF Atomic!Next
  <2>3. CASE RefuseName(p)
    BY <2>3, RefuseNameTakesEffect DEF Atomic!Next
  <2>4. CASE Load(p)
    BY <2>4, LoadTakesEffect
  <2>5. CASE Fill(p)
    BY <2>5, FillStutters
  <2>6. CASE LoadObject(p)
    BY <2>6, LoadObjectTakesEffect
  <2>7. CASE PutObject(p)
    BY <2>7, PutObjectTakesEffect DEF Atomic!Next
  <2>8. CASE ListRefs(p)
    BY <2>8, ListRefsTakesEffect DEF Atomic!Next
  <2>9. CASE Put(p)
    BY <2>9, PutTakesEffect
  <2>10. CASE Commit(p)
    BY <2>10, CommitTakesEffect DEF Atomic!Next
  <2>11. CASE GiveUp(p) \/ Unavailable(p) \/ Unsure(p)
    BY <2>11, FailTakesEffect DEF Atomic!Next
  <2>12. CASE Return(p)
    BY <2>12, ReturnTakesEffect DEF Atomic!Next
  <2>13. QED
    BY <1>3, <2>1, <2>2, <2>3, <2>4, <2>5, <2>6, <2>7, <2>8, <2>9, <2>10, <2>11, <2>12
       DEF Run
<1>4. QED
  BY <1>1, <1>2, <1>3 DEF Next

(* Without memcache the App Engine repository implements the abstract one: *)
(* every method takes effect atomically, through transactions and retries. *)
THEOREM Linearizability ==
    ASSUME Cached = FALSE
    PROVE  Spec => Linearizable
<1>1. Init => Atomic!Init
  BY SameInterface, KeyFacts DEF Init, Answered, BoundTo, Atomic!Init
<1>2. QED
  BY <1>1, StepsRefine, Isolation, PTL DEF Spec, Linearizable, Atomic!Spec
=============================================================================
