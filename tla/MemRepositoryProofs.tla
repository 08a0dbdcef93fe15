------------------------ MODULE MemRepositoryProofs ------------------------
(***************************************************************************)
(* Proofs about MemRepository, for any goroutines, names, objects and      *)
(* workload: the inductive invariant Inv, the safety properties that       *)
(* follow from it, and that the locked repository implements the atomic    *)
(* one of module Repository.                                               *)
(***************************************************************************)
EXTENDS MemRepository, TLAPS

(* The fields of each call have their types.                               *)
LEMMA CallTypes ==
    ASSUME NEW c \in Workload
    PROVE  /\ c # Idle
           /\ c.op \in {"GetObject", "PutObject", "GetRef", "SetHEAD",
                        "UpdateRef", "ListRefs", "GetHEAD"}
           /\ c.op = "GetObject" => c.id \in AnyID
           /\ c.op = "PutObject" => c.id \in ID \cup {Foreign}
           /\ c.op \in {"GetRef", "SetHEAD", "UpdateRef"} => c.name \in RefName
           /\ c.op = "UpdateRef" => c.oldID \in AnyID /\ c.newID \in AnyID
<1>1. c \in Call
  BY WorkloadAssumption
<1>2. QED
  BY <1>1 DEF Call, Idle

(* An answer differs from the mark of a call not yet answered.             *)
LEMMA AnswerIsNotPending == \A a \in Answer : a # NoAnswer
<1> SUFFICES ASSUME NEW a \in Answer PROVE a.err # "pending"
  BY DEF NoAnswer
<1>1. a.err \in ErrorName \/ a.err = "nil"
  BY DEF Answer
<1>2. QED
  BY <1>1 DEF ErrorName

(* What the methods reply with is an answer.                               *)
LEMMA AnswerTypes ==
    /\ \A e \in ErrorName : Error(e) \in Answer
    /\ \A x \in AnyID : Ok(x) \in Answer
    /\ \A x \in RefName : Ok(x) \in Answer
    /\ \A x \in RefList : Ok(x) \in Answer
    /\ Done \in Answer
BY DEF Ok, Done, Error, Answer, AnyID

(* UpdateRef explains every conflict with one of its errors.               *)
LEMMA ConflictErrorType ==
    \A id, oldID : ConflictError(id, oldID) \in ErrorName
BY DEF ConflictError, ErrorName

(* ListRefs starts from an empty list.                                     *)
LEMMA NoRefsType == NoRefs \in RefList /\ DOMAIN NoRefs = {}
<1>1. {} \in SUBSET ValidRef /\ NoRefs \in [{} -> ID]
  BY DEF NoRefs
<1>2. QED
  BY <1>1 DEF RefList, NoRefs

(* Which lock each method takes.                                           *)
LEMMA LockOfFacts ==
    /\ LockOf("GetObject") = "objectsLock" /\ LockOf("PutObject") = "objectsLock"
    /\ LockOf("GetRef") = "refsLock" /\ LockOf("UpdateRef") = "refsLock"
    /\ LockOf("ListRefs") = "refsLock"
    /\ LockOf("GetHEAD") = "HEADLock" /\ LockOf("SetHEAD") = "HEADLock"
BY DEF LockOf

(* Every method of the workload takes one of the three locks.              *)
LEMMA LockOfType ==
    ASSUME NEW c \in Workload
    PROVE  LockOf(c.op) \in Lock
BY CallTypes, LockOfFacts DEF Lock

(* The invariant holds when NewMemRepository returns: no refs, no objects, *)
(* every lock free.                                                        *)
THEOREM Initially == Init => Inv
<1> SUFFICES ASSUME Init PROVE Inv
  OBVIOUS
<1>1. TypeOK
  BY NoRefsType, ConstantsAssumption DEF Init, TypeOK, AnyID, Label
<1>2. PlacesMatchCalls
  BY DEF Init, PlacesMatchCalls, InsideLock
<1>3. LocksHeld
  BY NoProcAssumption DEF Init, LocksHeld, InsideLock
<1>4. AnswersInTime
  BY DEF Init, AnswersInTime
<1>5. UpdatesStillValid /\ ListsStillValid /\ RefsResolve
  BY DEF Init, UpdatesStillValid, ListsStillValid, RefsResolve
<1>6. QED
  BY <1>1, <1>2, <1>3, <1>4, <1>5 DEF Inv

(* Entering a method holds no lock yet and leaves the stores alone.        *)
LEMMA InvokeStep ==
    ASSUME Inv, NEW p \in Proc, Invoke(p)
    PROVE  Inv'
<1>1. TypeOK'
  BY DEF Inv, TypeOK, Invoke, Goto, store, locks, locals, Label
<1>2. PlacesMatchCalls'
  BY CallTypes DEF Inv, TypeOK, Invoke, Goto, PlacesMatchCalls, InsideLock
<1>3. LocksHeld'
  BY DEF Inv, Invoke, At, Goto, locks, LocksHeld, InsideLock
<1>4. AnswersInTime'
  BY DEF Inv, Invoke, At, Goto, AnswersInTime
<1>5. UpdatesStillValid'
  BY DEF Inv, Invoke, At, Goto, store, UpdatesStillValid
<1>6. ListsStillValid'
  BY DEF Inv, Invoke, Goto, store, locals, ListsStillValid
<1>7. RefsResolve'
  BY DEF Inv, Invoke, store, RefsResolve
<1>8. QED
  BY <1>1, <1>2, <1>3, <1>4, <1>5, <1>6, <1>7 DEF Inv

(* A malformed name or an object that cannot be marshalled is refused      *)
(* before any lock is taken.                                               *)
LEMMA RefuseStep ==
    ASSUME Inv, NEW p \in Proc, Refuse(p)
    PROVE  Inv'
<1>1. PICK a \in Answer : ret' = [ret EXCEPT ![p] = a]
  BY AnswerTypes DEF Refuse, ErrorName, Reply
<1>2. TypeOK'
  BY <1>1 DEF Inv, TypeOK, Refuse, Goto, store, locks, locals, Label
<1>3. PlacesMatchCalls'
  BY DEF Inv, Refuse, At, Goto, PlacesMatchCalls, InsideLock
<1>4. LocksHeld'
  BY DEF Inv, Refuse, Goto, locks, PlacesMatchCalls, LocksHeld, InsideLock
<1>5. AnswersInTime'
  BY <1>1, AnswerIsNotPending DEF Inv, TypeOK, Refuse, Goto, AnswersInTime
<1>6. UpdatesStillValid'
  BY DEF Inv, Refuse, At, Goto, Reply, store, UpdatesStillValid
<1>7. ListsStillValid'
  BY DEF Inv, Refuse, Goto, store, locals, ListsStillValid
<1>8. RefsResolve'
  BY DEF Inv, Refuse, store, RefsResolve
<1>9. QED
  BY <1>2, <1>3, <1>4, <1>5, <1>6, <1>7, <1>8 DEF Inv

(* RLock lets a reader in only where no writer is announced, so readers    *)
(* and a working writer never meet.                                        *)
LEMMA AcquireReadStep ==
    ASSUME Inv, NEW p \in Proc, AcquireRead(p)
    PROVE  Inv'
<1>1. TypeOK'
  BY DEF Inv, TypeOK, AcquireRead, Goto, store, locals, RLock, Label
<1>2. PlacesMatchCalls'
  BY DEF Inv, AcquireRead, At, Goto, PlacesMatchCalls
<1>3. LocksHeld'
  BY NoProcAssumption
     DEF Inv, TypeOK, AcquireRead, At, Goto, RLock, LocksHeld, InsideLock
<1>4. AnswersInTime'
  BY DEF Inv, AcquireRead, At, Goto, AnswersInTime
<1>5. UpdatesStillValid'
  BY DEF Inv, AcquireRead, Goto, store, UpdatesStillValid
<1>6. ListsStillValid'
  BY DEF Inv, AcquireRead, Goto, store, locals, ListsStillValid
<1>7. RefsResolve'
  BY DEF Inv, AcquireRead, store, RefsResolve
<1>8. QED
  BY <1>1, <1>2, <1>3, <1>4, <1>5, <1>6, <1>7 DEF Inv

(* Lock announces one writer only.  Present readers may still be inside:   *)
(* the writer has yet to drain them.                                       *)
LEMMA AcquireWriteStep ==
    ASSUME Inv, NEW p \in Proc, AcquireWrite(p)
    PROVE  Inv'
<1>1. TypeOK'
  BY DEF Inv, TypeOK, AcquireWrite, Goto, store, locals, Announce, Label
<1>2. PlacesMatchCalls'
  BY DEF Inv, AcquireWrite, At, Goto, PlacesMatchCalls
<1>3. LocksHeld'
  BY NoProcAssumption
     DEF Inv, TypeOK, AcquireWrite, At, Goto, Announce, LocksHeld, InsideLock
<1>4. AnswersInTime'
  BY DEF Inv, AcquireWrite, At, Goto, AnswersInTime
<1>5. UpdatesStillValid'
  BY DEF Inv, AcquireWrite, Goto, store, UpdatesStillValid
<1>6. ListsStillValid'
  BY DEF Inv, AcquireWrite, Goto, store, locals, ListsStillValid
<1>7. RefsResolve'
  BY DEF Inv, AcquireWrite, store, RefsResolve
<1>8. QED
  BY <1>1, <1>2, <1>3, <1>4, <1>5, <1>6, <1>7 DEF Inv

(* A writer goes on when the last reader of its lock has left.             *)
LEMMA DrainStep ==
    ASSUME Inv, NEW p \in Proc, Drain(p)
    PROVE  Inv'
<1>1. TypeOK'
  BY DEF Inv, TypeOK, Drain, Goto, store, locks, locals, Label
<1>2. PlacesMatchCalls'
  BY DEF Inv, Drain, At, Goto, PlacesMatchCalls
<1>3. LocksHeld'
  BY DEF Inv, Drain, At, Goto, locks, PlacesMatchCalls, LocksHeld, InsideLock
<1>4. AnswersInTime'
  BY DEF Inv, Drain, At, Goto, AnswersInTime
<1>5. UpdatesStillValid'
  BY DEF Inv, Drain, Goto, store, UpdatesStillValid
<1>6. ListsStillValid'
  BY DEF Inv, Drain, Goto, store, locals, ListsStillValid
<1>7. RefsResolve'
  BY DEF Inv, Drain, store, RefsResolve
<1>8. QED
  BY <1>1, <1>2, <1>3, <1>4, <1>5, <1>6, <1>7 DEF Inv

(* GetObject answers and changes nothing it shares.                        *)
LEMMA GetObjectStep ==
    ASSUME Inv, NEW p \in Proc, GetObject(p)
    PROVE  Inv'
<1>1. PICK a \in Answer : ret' = [ret EXCEPT ![p] = a]
  BY CallTypes, AnswerTypes
     DEF Inv, TypeOK, GetObject, InBody, At, PlacesMatchCalls, ErrorName, Reply
<1>2. TypeOK'
  BY <1>1 DEF Inv, TypeOK, GetObject, Goto, store, locks, locals, Label
<1>3. PlacesMatchCalls'
  BY DEF Inv, GetObject, At, InBody, Goto, PlacesMatchCalls, InsideLock
<1>4. LocksHeld'
  BY DEF Inv, GetObject, At, InBody, Goto, locks, LocksHeld, InsideLock
<1>5. AnswersInTime'
  BY <1>1, AnswerIsNotPending DEF Inv, TypeOK, GetObject, Goto, AnswersInTime
<1>6. UpdatesStillValid'
  BY DEF Inv, GetObject, At, InBody, Goto, Reply, store, UpdatesStillValid
<1>7. ListsStillValid'
  BY DEF Inv, GetObject, Goto, store, locals, ListsStillValid
<1>8. RefsResolve'
  BY DEF Inv, GetObject, store, RefsResolve
<1>9. QED
  BY <1>2, <1>3, <1>4, <1>5, <1>6, <1>7, <1>8 DEF Inv

(* PutObject only adds objects, so what UpdateRef has looked up is still   *)
(* there, although it no longer holds objectsLock.                         *)
LEMMA PutObjectStep ==
    ASSUME Inv, NEW p \in Proc, PutObject(p)
    PROVE  Inv'
<1>1. PICK a \in Answer : ret' = [ret EXCEPT ![p] = a]
  BY CallTypes, AnswerTypes
     DEF Inv, TypeOK, PutObject, InBody, At, PlacesMatchCalls, InsideLock, Refused,
         AnyID, Reply
<1>2. TypeOK'
  <2>1. call[p].id \in ID
    BY CallTypes
       DEF Inv, TypeOK, PlacesMatchCalls, InsideLock, Refused, PutObject, InBody, At
  <2>2. QED
    BY <1>1, <2>1 DEF Inv, TypeOK, Goto, locks, locals, Label, PutObject
<1>3. PlacesMatchCalls'
  BY DEF Inv, PutObject, At, InBody, Goto, PlacesMatchCalls, InsideLock
<1>4. LocksHeld'
  BY DEF Inv, PutObject, At, InBody, Goto, locks, LocksHeld, InsideLock
<1>5. AnswersInTime'
  BY <1>1, AnswerIsNotPending DEF Inv, TypeOK, PutObject, Goto, AnswersInTime
<1>6. UpdatesStillValid'
  BY DEF Inv, PutObject, At, InBody, Goto, Reply, UpdatesStillValid
<1>7. ListsStillValid'
  BY DEF Inv, PutObject, Goto, locals, ListsStillValid
<1>8. RefsResolve'
  BY DEF Inv, PutObject, RefsResolve
<1>9. QED
  BY <1>2, <1>3, <1>4, <1>5, <1>6, <1>7, <1>8 DEF Inv

(* GetRef answers and changes nothing it shares.                           *)
LEMMA GetRefStep ==
    ASSUME Inv, NEW p \in Proc, GetRef(p)
    PROVE  Inv'
<1>1. PICK a \in Answer : ret' = [ret EXCEPT ![p] = a]
  BY AnswerTypes
     DEF Inv, TypeOK, GetRef, InBody, At, PlacesMatchCalls, InsideLock, Refused,
         ErrorName, Reply
<1>2. TypeOK'
  BY <1>1 DEF Inv, TypeOK, GetRef, Goto, store, locks, locals, Label
<1>3. PlacesMatchCalls'
  BY DEF Inv, GetRef, At, InBody, Goto, PlacesMatchCalls, InsideLock
<1>4. LocksHeld'
  BY DEF Inv, GetRef, At, InBody, Goto, locks, LocksHeld, InsideLock
<1>5. AnswersInTime'
  BY <1>1, AnswerIsNotPending DEF Inv, TypeOK, GetRef, Goto, AnswersInTime
<1>6. UpdatesStillValid'
  BY DEF Inv, GetRef, At, InBody, Goto, Reply, store, UpdatesStillValid
<1>7. ListsStillValid'
  BY DEF Inv, GetRef, Goto, store, locals, ListsStillValid
<1>8. RefsResolve'
  BY DEF Inv, GetRef, store, RefsResolve
<1>9. QED
  BY <1>2, <1>3, <1>4, <1>5, <1>6, <1>7, <1>8 DEF Inv

(* An UpdateRef whose oldID is stale answers and stores nothing.           *)
LEMMA UpdateRefConflictStep ==
    ASSUME Inv, NEW p \in Proc, UpdateRefConflict(p)
    PROVE  Inv'
<1>1. PICK a \in Answer : ret' = [ret EXCEPT ![p] = a]
  BY AnswerTypes, ConflictErrorType DEF UpdateRefConflict, Reply
<1>2. TypeOK'
  BY <1>1 DEF Inv, TypeOK, UpdateRefConflict, Goto, store, locks, locals, Label
<1>3. PlacesMatchCalls'
  BY DEF Inv, UpdateRefConflict, At, InBody, Goto, PlacesMatchCalls, InsideLock
<1>4. LocksHeld'
  BY DEF Inv, UpdateRefConflict, At, InBody, Goto, locks, LocksHeld, InsideLock
<1>5. AnswersInTime'
  BY <1>1, AnswerIsNotPending
     DEF Inv, TypeOK, UpdateRefConflict, Goto, AnswersInTime
<1>6. UpdatesStillValid'
  BY DEF Inv, UpdateRefConflict, Goto, Reply, store, UpdatesStillValid
<1>7. ListsStillValid'
  BY DEF Inv, UpdateRefConflict, Goto, store, locals, ListsStillValid
<1>8. RefsResolve'
  BY DEF Inv, UpdateRefConflict, store, RefsResolve
<1>9. QED
  BY <1>2, <1>3, <1>4, <1>5, <1>6, <1>7, <1>8 DEF Inv

(* Deleting a ref disturbs no other UpdateRef and no ListRefs: the writer  *)
(* of refsLock is alone inside it.                                         *)
LEMMA UpdateRefDeleteStep ==
    ASSUME Inv, NEW p \in Proc, UpdateRefDelete(p)
    PROVE  Inv'
<1>1. PICK a \in Answer : ret' = [ret EXCEPT ![p] = a]
  BY AnswerTypes DEF UpdateRefDelete, Reply
<1>2. TypeOK'
  <2>1. refs' \in [ValidRef -> AnyID]
    BY DEF Inv, TypeOK, UpdateRefDelete, AnyID
  <2>2. ret' \in [Proc -> Answer \cup {NoAnswer}]
    BY <1>1 DEF Inv, TypeOK
  <2>3. QED
    BY <2>1, <2>2 DEF Inv, TypeOK, Label, UpdateRefDelete, Goto, locks, locals
<1>3. PlacesMatchCalls'
  BY DEF Inv, UpdateRefDelete, At, InBody, Goto, PlacesMatchCalls, InsideLock
<1>4. LocksHeld'
  BY DEF Inv, UpdateRefDelete, At, InBody, Goto, locks, LocksHeld, InsideLock
<1>5. AnswersInTime'
  BY <1>1, AnswerIsNotPending
     DEF Inv, TypeOK, UpdateRefDelete, Goto, AnswersInTime
<1>6. UpdatesStillValid'
  BY LockOfFacts
     DEF Inv, UpdateRefDelete, At, InBody, Goto, PlacesMatchCalls, LocksHeld,
         InsideLock, Writes, Lock, UpdatesStillValid
<1>7. ListsStillValid'
  BY LockOfFacts
     DEF Inv, UpdateRefDelete, At, InBody, Goto, PlacesMatchCalls, LocksHeld,
         InsideLock, Writes, Lock, ListsStillValid
<1>8. RefsResolve'
  BY DEF Inv, UpdateRefDelete, RefsResolve
<1>9. QED
  BY <1>2, <1>3, <1>4, <1>5, <1>6, <1>7, <1>8 DEF Inv

(* The comparison of UpdateRef establishes that the ref is oldID; nobody   *)
(* else can move it while refsLock is held.                                *)
LEMMA UpdateRefCheckStep ==
    ASSUME Inv, NEW p \in Proc, UpdateRefCheck(p)
    PROVE  Inv'
<1>1. TypeOK'
  BY DEF Inv, TypeOK, UpdateRefCheck, Goto, store, locks, locals, Label
<1>2. PlacesMatchCalls'
  BY DEF Inv, UpdateRefCheck, At, InBody, Goto, PlacesMatchCalls, InsideLock
<1>3. LocksHeld'
  BY DEF Inv, UpdateRefCheck, At, InBody, Goto, locks, LocksHeld, InsideLock
<1>4. AnswersInTime'
  BY DEF Inv, UpdateRefCheck, At, InBody, Goto, AnswersInTime
<1>5. UpdatesStillValid'
  BY DEF Inv, UpdateRefCheck, Goto, store, UpdatesStillValid
<1>6. ListsStillValid'
  BY LockOfFacts
     DEF Inv, UpdateRefCheck, At, InBody, Goto, PlacesMatchCalls, LocksHeld,
         InsideLock, Writes, Lock, ListsStillValid
<1>7. RefsResolve'
  BY DEF Inv, UpdateRefCheck, store, RefsResolve
<1>8. QED
  BY <1>1, <1>2, <1>3, <1>4, <1>5, <1>6, <1>7 DEF Inv

(* UpdateRef becomes a reader of objectsLock and stays the writer of       *)
(* refsLock.                                                               *)
LEMMA ObjectLockStep ==
    ASSUME Inv, NEW p \in Proc, ObjectLock(p)
    PROVE  Inv'
<1>1. TypeOK'
  BY DEF Inv, TypeOK, ObjectLock, Goto, store, locals, RLock, Label
<1>2. PlacesMatchCalls'
  BY DEF Inv, ObjectLock, At, Goto, PlacesMatchCalls, InsideLock
<1>3. LocksHeld'
  BY NoProcAssumption
     DEF Inv, TypeOK, ObjectLock, At, Goto, RLock, LocksHeld, InsideLock
<1>4. AnswersInTime'
  BY DEF Inv, ObjectLock, At, Goto, AnswersInTime
<1>5. UpdatesStillValid'
  BY DEF Inv, ObjectLock, At, Goto, store, UpdatesStillValid
<1>6. ListsStillValid'
  BY LockOfFacts
     DEF Inv, ObjectLock, At, Goto, PlacesMatchCalls, LocksHeld, InsideLock, Writes,
         Lock, ListsStillValid
<1>7. RefsResolve'
  BY DEF Inv, ObjectLock, store, RefsResolve
<1>8. QED
  BY <1>1, <1>2, <1>3, <1>4, <1>5, <1>6, <1>7 DEF Inv

(* The lookup of GetObject inside UpdateRef either finds newID or settles  *)
(* the answer.                                                             *)
LEMMA ObjectReadStep ==
    ASSUME Inv, NEW p \in Proc, ObjectRead(p)
    PROVE  Inv'
<1>1. TypeOK'
  BY AnswerTypes
     DEF Inv, TypeOK, Goto, Reply, store, locks, locals, Label, ObjectRead,
         ErrorName
<1>2. PlacesMatchCalls'
  BY DEF Inv, ObjectRead, At, Goto, PlacesMatchCalls, InsideLock
<1>3. LocksHeld'
  BY DEF Inv, ObjectRead, At, Goto, locks, LocksHeld, InsideLock
<1>4. AnswersInTime'
  BY DEF Inv, TypeOK, ObjectRead, Goto, Reply, AnswersInTime
<1>5. UpdatesStillValid'
  <2>1. Error("ErrObjectNotExist") # NoAnswer
    BY AnswerTypes, AnswerIsNotPending DEF ErrorName
  <2>2. QED
    BY <2>1
       DEF Inv, TypeOK, UpdatesStillValid, ObjectRead, At, Goto, Reply, store
<1>6. ListsStillValid'
  BY LockOfFacts
     DEF Inv, ObjectRead, At, Goto, PlacesMatchCalls, LocksHeld, InsideLock, Writes,
         Lock, ListsStillValid
<1>7. RefsResolve'
  BY DEF Inv, ObjectRead, store, RefsResolve
<1>8. QED
  BY <1>1, <1>2, <1>3, <1>4, <1>5, <1>6, <1>7 DEF Inv

(* UpdateRef leaves objectsLock and keeps what it has found out.           *)
LEMMA ObjectUnlockStep ==
    ASSUME Inv, NEW p \in Proc, ObjectUnlock(p)
    PROVE  Inv'
<1>1. TypeOK'
  BY DEF Inv, TypeOK, ObjectUnlock, Goto, store, locals, RUnlock, Label
<1>2. PlacesMatchCalls'
  BY DEF Inv, ObjectUnlock, At, Goto, PlacesMatchCalls, InsideLock
<1>3. LocksHeld'
  BY LockOfFacts
     DEF Inv, TypeOK, ObjectUnlock, At, Goto, RUnlock, PlacesMatchCalls, LocksHeld,
         InsideLock
<1>4. AnswersInTime'
  BY DEF Inv, ObjectUnlock, Goto, AnswersInTime
<1>5. UpdatesStillValid'
  BY DEF Inv, ObjectUnlock, At, Goto, store, UpdatesStillValid
<1>6. ListsStillValid'
  BY LockOfFacts
     DEF Inv, ObjectUnlock, At, Goto, PlacesMatchCalls, LocksHeld, InsideLock,
         Writes, Lock, ListsStillValid
<1>7. RefsResolve'
  BY DEF Inv, ObjectUnlock, store, RefsResolve
<1>8. QED
  BY <1>1, <1>2, <1>3, <1>4, <1>5, <1>6, <1>7 DEF Inv

(* Storing newID keeps every ref resolvable, because the object found      *)
(* earlier cannot have gone.                                               *)
LEMMA UpdateRefStoreStep ==
    ASSUME Inv, NEW p \in Proc, UpdateRefStore(p)
    PROVE  Inv'
<1>1. PICK a \in Answer : ret' = [ret EXCEPT ![p] = a]
  BY AnswerTypes DEF UpdateRefStore, Reply
<1>2. TypeOK'
  <2>1. call[p].newID \in AnyID
    BY CallTypes DEF Inv, TypeOK, PlacesMatchCalls, UpdateRefStore, At
  <2>2. QED
    BY <1>1, <2>1
       DEF Inv, TypeOK, At, InBody, Goto, Reply, store, locks, locals, Label,
           UpdateRefStore
<1>3. PlacesMatchCalls'
  BY DEF Inv, UpdateRefStore, At, Goto, PlacesMatchCalls, InsideLock
<1>4. LocksHeld'
  BY DEF Inv, UpdateRefStore, At, Goto, locks, LocksHeld, InsideLock
<1>5. AnswersInTime'
  BY <1>1, AnswerIsNotPending
     DEF Inv, TypeOK, UpdateRefStore, Goto, AnswersInTime
<1>6. UpdatesStillValid'
  BY LockOfFacts
     DEF Inv, TypeOK, UpdateRefStore, At, Goto, PlacesMatchCalls, LocksHeld,
         InsideLock, Writes, Lock, UpdatesStillValid
<1>7. ListsStillValid'
  BY LockOfFacts
     DEF Inv, UpdateRefStore, At, Goto, PlacesMatchCalls, LocksHeld, InsideLock,
         Writes, Lock, ListsStillValid
<1>8. RefsResolve'
  BY DEF Inv, UpdateRefStore, At, UpdatesStillValid, RefsResolve
<1>9. QED
  BY <1>2, <1>3, <1>4, <1>5, <1>6, <1>7, <1>8 DEF Inv

(* The first loop of ListRefs collects exactly the present refs.           *)
LEMMA ListNamesStep ==
    ASSUME Inv, NEW p \in Proc, ListNames(p)
    PROVE  Inv'
<1>1. TypeOK'
  BY NoRefsType DEF Inv, TypeOK, ListNames, Goto, store, locks, Label
<1>2. PlacesMatchCalls'
  BY DEF Inv, ListNames, At, InBody, Goto, PlacesMatchCalls, Refused
<1>3. LocksHeld'
  BY DEF Inv, ListNames, At, InBody, Goto, locks, LocksHeld, InsideLock
<1>4. AnswersInTime'
  BY DEF Inv, ListNames, At, InBody, Goto, AnswersInTime
<1>5. UpdatesStillValid'
  BY DEF Inv, ListNames, Goto, store, UpdatesStillValid
<1>6. ListsStillValid'
  BY NoRefsType DEF Inv, TypeOK, ListNames, Goto, store, ListsStillValid
<1>7. RefsResolve'
  BY DEF Inv, ListNames, store, RefsResolve
<1>8. QED
  BY <1>1, <1>2, <1>3, <1>4, <1>5, <1>6, <1>7 DEF Inv

(* The second loop of ListRefs reads a value that is still that of the ref *)
(* it lists.                                                               *)
LEMMA ListIDStep ==
    ASSUME Inv, NEW p \in Proc, ListID(p)
    PROVE  Inv'
<1>1. TypeOK'
  <2>1. PICK n \in names[p] \ DOMAIN acc[p] :
          acc' = [acc EXCEPT ![p] =
                    [m \in DOMAIN acc[p] \cup {n} |-> IF m = n THEN refs[n] ELSE acc[p][m]]]
    BY DEF ListID
  <2>2. PICK S \in SUBSET ValidRef : acc[p] \in [S -> ID]
    BY DEF Inv, TypeOK, RefList
  <2>3. n \in ValidRef /\ refs[n] \in ID
    BY DEF Inv, TypeOK, ListsStillValid, ListID, At, AnyID
  <2>4. [m \in DOMAIN acc[p] \cup {n} |-> IF m = n THEN refs[n] ELSE acc[p][m]]
          \in [S \cup {n} -> ID]
    BY <2>2, <2>3
  <2>5. S \cup {n} \in SUBSET ValidRef
    BY <2>2, <2>3
  <2>6. [m \in DOMAIN acc[p] \cup {n} |-> IF m = n THEN refs[n] ELSE acc[p][m]] \in RefList
    BY <2>4, <2>5 DEF RefList
  <2>7. acc' \in [Proc -> RefList]
    BY <2>1, <2>6 DEF Inv, TypeOK
  <2>8. QED
    BY <2>7 DEF Inv, TypeOK, ListID, store, locks
<1>2. PlacesMatchCalls'
  BY DEF Inv, ListID, PlacesMatchCalls
<1>3. LocksHeld'
  BY DEF Inv, ListID, locks, LocksHeld
<1>4. AnswersInTime'
  BY DEF Inv, ListID, AnswersInTime
<1>5. UpdatesStillValid'
  BY LockOfFacts
     DEF Inv, ListID, At, PlacesMatchCalls, LocksHeld, InsideLock, Writes, Lock,
         UpdatesStillValid
<1>6. ListsStillValid'
  BY DEF Inv, ListID, store, ListsStillValid
<1>7. RefsResolve'
  BY DEF Inv, ListID, store, RefsResolve
<1>8. QED
  BY <1>1, <1>2, <1>3, <1>4, <1>5, <1>6, <1>7 DEF Inv

(* ListRefs answers with its list and changes nothing it shares.           *)
LEMMA ListDoneStep ==
    ASSUME Inv, NEW p \in Proc, ListDone(p)
    PROVE  Inv'
<1>1. PICK a \in Answer : ret' = [ret EXCEPT ![p] = a]
  BY AnswerTypes DEF Inv, TypeOK, ListDone, Reply
<1>2. TypeOK'
  BY <1>1 DEF Inv, TypeOK, ListDone, Goto, store, locks, locals, Label
<1>3. PlacesMatchCalls'
  BY DEF Inv, ListDone, At, Goto, PlacesMatchCalls, InsideLock
<1>4. LocksHeld'
  BY DEF Inv, ListDone, At, Goto, locks, LocksHeld, InsideLock
<1>5. AnswersInTime'
  BY <1>1, AnswerIsNotPending DEF Inv, TypeOK, ListDone, Goto, AnswersInTime
<1>6. UpdatesStillValid'
  BY DEF Inv, ListDone, At, Goto, Reply, store, UpdatesStillValid
<1>7. ListsStillValid'
  BY DEF Inv, ListDone, Goto, store, locals, ListsStillValid
<1>8. RefsResolve'
  BY DEF Inv, ListDone, store, RefsResolve
<1>9. QED
  BY <1>2, <1>3, <1>4, <1>5, <1>6, <1>7, <1>8 DEF Inv

(* GetHEAD answers and changes nothing it shares.                          *)
LEMMA GetHEADStep ==
    ASSUME Inv, NEW p \in Proc, GetHEAD(p)
    PROVE  Inv'
<1>1. PICK a \in Answer : ret' = [ret EXCEPT ![p] = a]
  BY AnswerTypes DEF Inv, TypeOK, GetHEAD, Reply
<1>2. TypeOK'
  BY <1>1 DEF Inv, TypeOK, GetHEAD, Goto, store, locks, locals, Label
<1>3. PlacesMatchCalls'
  BY DEF Inv, GetHEAD, At, InBody, Goto, PlacesMatchCalls, InsideLock
<1>4. LocksHeld'
  BY DEF Inv, GetHEAD, At, InBody, Goto, locks, LocksHeld, InsideLock
<1>5. AnswersInTime'
  BY <1>1, AnswerIsNotPending DEF Inv, TypeOK, GetHEAD, Goto, AnswersInTime
<1>6. UpdatesStillValid'
  BY DEF Inv, GetHEAD, At, InBody, Goto, Reply, store, UpdatesStillValid
<1>7. ListsStillValid'
  BY DEF Inv, GetHEAD, Goto, store, locals, ListsStillValid
<1>8. RefsResolve'
  BY DEF Inv, GetHEAD, store, RefsResolve
<1>9. QED
  BY <1>2, <1>3, <1>4, <1>5, <1>6, <1>7, <1>8 DEF Inv

(* SetHEAD moves HEAD, on which no other part of the invariant rests.      *)
LEMMA SetHEADStep ==
    ASSUME Inv, NEW p \in Proc, SetHEAD(p)
    PROVE  Inv'
<1>1. PICK a \in Answer : ret' = [ret EXCEPT ![p] = a]
  BY AnswerTypes DEF SetHEAD, Reply
<1>2. TypeOK'
  BY <1>1, CallTypes
     DEF Inv, TypeOK, SetHEAD, At, InBody, Goto, locks, locals, PlacesMatchCalls,
         Label
<1>3. PlacesMatchCalls'
  BY DEF Inv, SetHEAD, At, InBody, Goto, PlacesMatchCalls, InsideLock
<1>4. LocksHeld'
  BY DEF Inv, SetHEAD, At, InBody, Goto, locks, LocksHeld, InsideLock
<1>5. AnswersInTime'
  BY <1>1, AnswerIsNotPending DEF Inv, TypeOK, SetHEAD, Goto, AnswersInTime
<1>6. UpdatesStillValid'
  BY DEF Inv, SetHEAD, At, InBody, Goto, Reply, UpdatesStillValid
<1>7. ListsStillValid'
  BY DEF Inv, SetHEAD, Goto, locals, ListsStillValid
<1>8. RefsResolve'
  BY DEF Inv, SetHEAD, RefsResolve
<1>9. QED
  BY <1>2, <1>3, <1>4, <1>5, <1>6, <1>7, <1>8 DEF Inv

(* The deferred unlock gives back the lock of the call, and only that.     *)
LEMMA ReleaseStep ==
    ASSUME Inv, NEW p \in Proc, Release(p)
    PROVE  Inv'
<1>1. TypeOK'
  BY NoRefsType
     DEF Inv, TypeOK, Release, Goto, Reply, store, Unlock, RUnlock, Leave, Label
<1>2. PlacesMatchCalls'
  BY DEF Inv, TypeOK, Release, Goto, Leave, PlacesMatchCalls, InsideLock
<1>3. LocksHeld'
  BY NoProcAssumption
     DEF Inv, TypeOK, Release, At, Goto, Unlock, RUnlock, Leave, LocksHeld,
         InsideLock
<1>4. AnswersInTime'
  BY DEF Inv, TypeOK, Release, Goto, Reply, Leave, AnswersInTime
<1>5. UpdatesStillValid'
  BY DEF Inv, Release, At, Goto, Reply, store, Leave, UpdatesStillValid
<1>6. ListsStillValid'
  BY DEF Inv, Release, At, Goto, store, Leave, ListsStillValid
<1>7. RefsResolve'
  BY DEF Inv, Release, store, Leave, RefsResolve
<1>8. QED
  BY <1>1, <1>2, <1>3, <1>4, <1>5, <1>6, <1>7 DEF Inv

(* A refused call returns without a lock to give back.                     *)
LEMMA ReturnStep ==
    ASSUME Inv, NEW p \in Proc, Return(p)
    PROVE  Inv'
<1>1. TypeOK'
  BY NoRefsType DEF Inv, TypeOK, Return, Goto, Reply, store, locks, Leave, Label
<1>2. PlacesMatchCalls'
  BY DEF Inv, TypeOK, Return, Goto, Leave, PlacesMatchCalls, InsideLock
<1>3. LocksHeld'
  BY DEF Inv, Return, At, Goto, locks, Leave, LocksHeld, InsideLock
<1>4. AnswersInTime'
  BY DEF Inv, TypeOK, Return, Goto, Reply, Leave, AnswersInTime
<1>5. UpdatesStillValid'
  BY DEF Inv, Return, At, Goto, Reply, store, Leave, UpdatesStillValid
<1>6. ListsStillValid'
  BY DEF Inv, Return, At, Goto, store, Leave, ListsStillValid
<1>7. RefsResolve'
  BY DEF Inv, Return, store, Leave, RefsResolve
<1>8. QED
  BY <1>1, <1>2, <1>3, <1>4, <1>5, <1>6, <1>7 DEF Inv

-----------------------------------------------------------------------------
(* Every step of every goroutine preserves the invariant.                  *)
THEOREM Inductive == Inv /\ [Next]_vars => Inv'
<1> SUFFICES ASSUME Inv, [Next]_vars PROVE Inv'
  OBVIOUS
<1>1. CASE UNCHANGED vars
  BY <1>1
     DEF Inv, TypeOK, PlacesMatchCalls, LocksHeld, AnswersInTime, UpdatesStillValid,
         ListsStillValid, RefsResolve, vars, store, locks, locals
<1>2. CASE Next
  <2>1. PICK p \in Proc : Invoke(p) \/ Acquire(p) \/ Run(p)
    BY <1>2 DEF Next
  <2>2. CASE Invoke(p)
    BY <2>2, InvokeStep
  <2>3. CASE AcquireRead(p)
    BY <2>3, AcquireReadStep
  <2>4. CASE AcquireWrite(p)
    BY <2>4, AcquireWriteStep
  <2>5. CASE ObjectLock(p)
    BY <2>5, ObjectLockStep
  <2>6. CASE Refuse(p)
    BY <2>6, RefuseStep
  <2>7. CASE Drain(p)
    BY <2>7, DrainStep
  <2>8. CASE GetObject(p)
    BY <2>8, GetObjectStep
  <2>9. CASE PutObject(p)
    BY <2>9, PutObjectStep
  <2>10. CASE GetRef(p)
    BY <2>10, GetRefStep
  <2>11. CASE UpdateRefConflict(p)
    BY <2>11, UpdateRefConflictStep
  <2>12. CASE UpdateRefDelete(p)
    BY <2>12, UpdateRefDeleteStep
  <2>13. CASE UpdateRefCheck(p)
    BY <2>13, UpdateRefCheckStep
  <2>14. CASE ObjectRead(p)
    BY <2>14, ObjectReadStep
  <2>15. CASE ObjectUnlock(p)
    BY <2>15, ObjectUnlockStep
  <2>16. CASE UpdateRefStore(p)
    BY <2>16, UpdateRefStoreStep
  <2>17. CASE ListNames(p)
    BY <2>17, ListNamesStep
  <2>18. CASE ListID(p)
    BY <2>18, ListIDStep
  <2>19. CASE ListDone(p)
    BY <2>19, ListDoneStep
  <2>20. CASE GetHEAD(p)
    BY <2>20, GetHEADStep
  <2>21. CASE SetHEAD(p)
    BY <2>21, SetHEADStep
  <2>22. CASE Release(p)
    BY <2>22, ReleaseStep
  <2>23. CASE Return(p)
    BY <2>23, ReturnStep
  <2>24. QED
    BY <2>1, <2>2, <2>3, <2>4, <2>5, <2>6, <2>7, <2>8, <2>9, <2>10, <2>11, <2>12,
       <2>13, <2>14, <2>15, <2>16, <2>17, <2>18, <2>19, <2>20, <2>21, <2>22, <2>23
       DEF Acquire, Run
<1>3. QED
  BY <1>1, <1>2

(* What the goroutines rely on inside the locks is always true.            *)
THEOREM Invariance == Spec => []Inv
<1>1. QED
  BY Initially, Inductive, PTL DEF Spec

(* The variables of the in-memory repository keep their types.             *)
THEOREM TypeCorrectness == Spec => []TypeOK
<1>1. Inv => TypeOK
  BY DEF Inv
<1>2. QED
  BY <1>1, Invariance, PTL

(* No ref ever points at an object the repository does not hold.           *)
THEOREM RefsAlwaysResolve == Spec => []RefsResolve
<1>1. Inv => RefsResolve
  BY DEF Inv
<1>2. QED
  BY <1>1, Invariance, PTL

(* UpdateRef is a compare-and-swap: the comparison it made under refsLock  *)
(* still holds when it stores, although it looked an object up in between. *)
THEOREM CompareAndSwap == Spec => RefsMoveByCompareAndSwap
<1>1. ASSUME Inv, [Next]_vars
      PROVE  [EveryMoveIsAskedFor]_vars
  <2>1. CASE UNCHANGED vars
    BY <2>1
  <2>2. CASE \E p \in Proc : UpdateRefDelete(p) \/ UpdateRefStore(p)
    <3>1. PICK p \in Proc : UpdateRefDelete(p) \/ UpdateRefStore(p)
      BY <2>2
    <3>2. /\ call[p].op = "UpdateRef"
          /\ refs[call[p].name] = call[p].oldID
          /\ refs' = [refs EXCEPT ![call[p].name] = call[p].newID]
      BY <1>1, <3>1 DEF Inv, PlacesMatchCalls, UpdatesStillValid, UpdateRefDelete,
                        UpdateRefStore, InBody, At
    <3>3. \A n \in ValidRef :
            refs'[n] # refs[n] => n = call[p].name /\ refs'[n] = call[p].newID
      BY <1>1, <3>2 DEF Inv, TypeOK
    <3>4. QED
      BY <3>2, <3>3 DEF EveryMoveIsAskedFor
  <2>3. CASE UNCHANGED refs
    BY <2>3 DEF EveryMoveIsAskedFor
  <2>4. Next => UNCHANGED refs \/ \E p \in Proc : UpdateRefDelete(p) \/ UpdateRefStore(p)
    BY DEF Next, Acquire, Run, Invoke, AcquireRead, AcquireWrite, ObjectLock,
           Refuse, Drain, GetObject, PutObject, GetRef, UpdateRefConflict,
           UpdateRefCheck, ObjectRead, ObjectUnlock, ListNames, ListID, ListDone,
           GetHEAD, SetHEAD, Release, Return, Leave, store
  <2>5. QED
    BY <1>1, <2>1, <2>2, <2>3, <2>4
<1>2. QED
  BY <1>1, Invariance, PTL DEF Spec, RefsMoveByCompareAndSwap

-----------------------------------------------------------------------------
(* The refinement.  Nine steps take effect in the abstract repository; the *)
(* lock operations and the loop of ListRefs change nothing there.          *)

(* Both modules use the same calls and answers.                            *)
LEMMA SameInterface ==
    /\ Atomic!Idle = Idle
    /\ Atomic!NoAnswer = NoAnswer
    /\ Atomic!Done = Done
    /\ \A x : Atomic!Ok(x) = Ok(x)
    /\ \A e : Atomic!Error(e) = Error(e)
    /\ \A id, oldID : Atomic!ConflictError(id, oldID) = ConflictError(id, oldID)
BY DEF Atomic!Idle, Idle, Atomic!NoAnswer, NoAnswer, Atomic!Done, Done, Atomic!Ok,
       Ok, Atomic!Error, Error, Atomic!ConflictError, ConflictError

(* Entering a method is entering it in the atomic repository.              *)
LEMMA InvokeTakesEffect ==
    ASSUME Inv, NEW p \in Proc, Invoke(p)
    PROVE  Atomic!Invoke(p)
BY SameInterface DEF Inv, PlacesMatchCalls, Invoke, At, store, Atomic!Invoke

(* A refusal is the failing method of the atomic repository.               *)
LEMMA RefuseTakesEffect ==
    ASSUME Inv, NEW p \in Proc, Refuse(p)
    PROVE  Atomic!Next
<1>1. ret[p] = NoAnswer /\ call[p] \in Workload
  BY DEF Inv, TypeOK, AnswersInTime, PlacesMatchCalls, Refuse, At
<1>2. CASE call[p].op = "PutObject"
  <2>1. Atomic!PutObject(p)
    BY SameInterface, <1>1, <1>2
       DEF Refuse, Refused, Reply, store, Atomic!PutObject, Atomic!Pending,
           Atomic!Reply
  <2>2. QED
    BY <2>1 DEF Atomic!Next
<1>3. CASE call[p].op = "GetRef"
  <2>1. Atomic!GetRef(p)
    BY SameInterface, <1>1, <1>3
       DEF Refuse, Refused, Reply, store, Atomic!GetRef, Atomic!Pending,
           Atomic!Reply
  <2>2. QED
    BY <2>1 DEF Atomic!Next
<1>4. CASE call[p].op = "UpdateRef"
  <2>1. Atomic!UpdateRefFails(p)
    BY SameInterface, <1>1, <1>4
       DEF Refuse, Refused, Reply, store, Atomic!UpdateRefFails, Atomic!Pending,
           Atomic!Reply
  <2>2. QED
    BY <2>1 DEF Atomic!Next
<1>5. QED
  BY <1>2, <1>3, <1>4 DEF Refuse, Refused

(* GetObject takes effect where it reads the map.                          *)
LEMMA GetObjectTakesEffect ==
    ASSUME Inv, NEW p \in Proc, GetObject(p)
    PROVE  Atomic!GetObject(p)
BY SameInterface
   DEF Inv, AnswersInTime, GetObject, At, InBody, Reply, store, Atomic!Pending,
       Atomic!Reply, Atomic!GetObject

(* PutObject takes effect where it writes the map.                         *)
LEMMA PutObjectTakesEffect ==
    ASSUME Inv, NEW p \in Proc, PutObject(p)
    PROVE  Atomic!PutObject(p)
<1>1. call[p].id \in ID
  BY CallTypes
     DEF Inv, TypeOK, PlacesMatchCalls, InsideLock, Refused, PutObject, InBody, At
<1>2. QED
  BY SameInterface, <1>1
     DEF Inv, AnswersInTime, PutObject, At, InBody, Reply, Atomic!Pending,
         Atomic!Reply, Atomic!PutObject, Atomic!StoreObject

(* GetRef takes effect where it reads the map.                             *)
LEMMA GetRefTakesEffect ==
    ASSUME Inv, NEW p \in Proc, GetRef(p)
    PROVE  Atomic!GetRef(p)
BY SameInterface
   DEF Inv, AnswersInTime, PlacesMatchCalls, InsideLock, Refused, GetRef, At,
       InBody, Reply, store, Atomic!Pending, Atomic!Reply, Atomic!GetRef

(* A conflicting UpdateRef takes effect at its comparison.                 *)
LEMMA UpdateRefConflictTakesEffect ==
    ASSUME Inv, NEW p \in Proc, UpdateRefConflict(p)
    PROVE  Atomic!UpdateRefFails(p)
BY SameInterface
   DEF Inv, AnswersInTime, PlacesMatchCalls, InsideLock, Refused, UpdateRefConflict,
       At, InBody, Reply, store, locals, Atomic!Pending, Atomic!Reply,
       Atomic!UpdateRefFails

(* A deleting UpdateRef takes effect where it deletes the ref.             *)
LEMMA UpdateRefDeleteTakesEffect ==
    ASSUME Inv, NEW p \in Proc, UpdateRefDelete(p)
    PROVE  Atomic!UpdateRefSucceeds(p)
BY SameInterface
   DEF Inv, AnswersInTime, PlacesMatchCalls, InsideLock, Refused, UpdateRefDelete,
       At, InBody, Reply, Atomic!Pending, Atomic!Reply, Atomic!UpdateRefSucceeds,
       Atomic!MoveRef

(* UpdateRef fails in the lookup of newID, where the ref is still oldID; a *)
(* lookup that succeeds changes nothing yet.                               *)
LEMMA ObjectReadTakesEffect ==
    ASSUME Inv, NEW p \in Proc, ObjectRead(p)
    PROVE  Atomic!UpdateRefFails(p) \/ UNCHANGED Atomic!vars
BY SameInterface
   DEF Inv, AnswersInTime, PlacesMatchCalls, UpdatesStillValid, InsideLock, Refused,
       ObjectRead, At, Reply, store, Atomic!Pending, Atomic!Reply,
       Atomic!UpdateRefFails, Atomic!vars

(* UpdateRef takes effect at its store, where comparison and lookup, made  *)
(* in earlier steps, both still hold.                                      *)
LEMMA UpdateRefStoreTakesEffect ==
    ASSUME Inv, NEW p \in Proc, UpdateRefStore(p)
    PROVE  Atomic!UpdateRefSucceeds(p)
BY SameInterface
   DEF Inv, AnswersInTime, PlacesMatchCalls, UpdatesStillValid, InsideLock, Refused,
       UpdateRefStore, At, InBody, Reply, store, locals, Atomic!Pending,
       Atomic!Reply, Atomic!UpdateRefSucceeds, Atomic!MoveRef

(* ListRefs takes effect when its second loop ends: the list is then a     *)
(* snapshot of all refs, although it was read one ref at a time.           *)
LEMMA ListDoneTakesEffect ==
    ASSUME Inv, NEW p \in Proc, ListDone(p)
    PROVE  Atomic!ListRefs(p)
<1>1. PICK S \in SUBSET ValidRef : acc[p] \in [S -> ID]
  BY DEF Inv, TypeOK, RefList
<1>2. acc[p] = [n \in Atomic!Listed |-> refs[n]]
  BY <1>1 DEF Inv, ListsStillValid, ListDone, At, Atomic!Listed
<1>3. QED
  BY SameInterface, <1>2
     DEF Inv, AnswersInTime, PlacesMatchCalls, ListDone, At, Reply, store, locals,
         Atomic!Pending, Atomic!Reply, Atomic!ListRefs

(* GetHEAD takes effect where it reads HEAD.                               *)
LEMMA GetHEADTakesEffect ==
    ASSUME Inv, NEW p \in Proc, GetHEAD(p)
    PROVE  Atomic!GetHEAD(p)
BY SameInterface
   DEF Inv, AnswersInTime, GetHEAD, At, InBody, Reply, store, Atomic!Pending,
       Atomic!Reply, Atomic!GetHEAD

(* SetHEAD takes effect where it writes HEAD.                              *)
LEMMA SetHEADTakesEffect ==
    ASSUME Inv, NEW p \in Proc, SetHEAD(p)
    PROVE  Atomic!SetHEAD(p)
BY SameInterface
   DEF Inv, AnswersInTime, SetHEAD, At, InBody, Reply, Atomic!Pending, Atomic!Reply,
       Atomic!SetHEAD, Atomic!MoveHEAD

(* A call leaves the atomic repository as it leaves the locked one.        *)
LEMMA LeaveTakesEffect ==
    ASSUME Inv, NEW p \in Proc, Release(p) \/ Return(p)
    PROVE  Atomic!Return(p)
BY SameInterface
   DEF Inv, AnswersInTime, Release, Return, Leave, At, Reply, store, Atomic!Return

(* Every step is a step of the atomic repository or leaves it as it is.    *)
THEOREM StepsRefine == Inv /\ [Next]_vars => [Atomic!Next]_(Atomic!vars)
<1> SUFFICES ASSUME Inv, [Next]_vars PROVE Atomic!Next \/ UNCHANGED Atomic!vars
  OBVIOUS
<1>1. CASE UNCHANGED vars
  BY <1>1 DEF vars, store, Atomic!vars
<1>2. CASE Next
  <2>1. PICK p \in Proc : Invoke(p) \/ Acquire(p) \/ Run(p)
    BY <1>2 DEF Next
  <2>2. CASE \/ AcquireRead(p) \/ AcquireWrite(p) \/ ObjectLock(p) \/ Drain(p)
             \/ UpdateRefCheck(p) \/ ObjectUnlock(p) \/ ListNames(p) \/ ListID(p)
    BY <2>2 DEF AcquireRead, AcquireWrite, ObjectLock, Drain, UpdateRefCheck,
                ObjectUnlock, ListNames, ListID, store, Atomic!vars
  <2>3. CASE Invoke(p)
    BY <2>3, InvokeTakesEffect DEF Atomic!Next
  <2>4. CASE Refuse(p)
    BY <2>4, RefuseTakesEffect DEF Atomic!Next
  <2>5. CASE GetObject(p)
    BY <2>5, GetObjectTakesEffect DEF Atomic!Next
  <2>6. CASE PutObject(p)
    BY <2>6, PutObjectTakesEffect DEF Atomic!Next
  <2>7. CASE GetRef(p)
    BY <2>7, GetRefTakesEffect DEF Atomic!Next
  <2>8. CASE UpdateRefConflict(p)
    BY <2>8, UpdateRefConflictTakesEffect DEF Atomic!Next
  <2>9. CASE UpdateRefDelete(p)
    BY <2>9, UpdateRefDeleteTakesEffect DEF Atomic!Next
  <2>10. CASE ObjectRead(p)
    BY <2>10, ObjectReadTakesEffect DEF Atomic!Next
  <2>11. CASE UpdateRefStore(p)
    BY <2>11, UpdateRefStoreTakesEffect DEF Atomic!Next
  <2>12. CASE ListDone(p)
    BY <2>12, ListDoneTakesEffect DEF Atomic!Next
  <2>13. CASE GetHEAD(p)
    BY <2>13, GetHEADTakesEffect DEF Atomic!Next
  <2>14. CASE SetHEAD(p)
    BY <2>14, SetHEADTakesEffect DEF Atomic!Next
  <2>15. CASE Release(p) \/ Return(p)
    BY <2>15, LeaveTakesEffect DEF Atomic!Next
  <2>16. QED
    BY <2>1, <2>2, <2>3, <2>4, <2>5, <2>6, <2>7, <2>8, <2>9, <2>10, <2>11, <2>12,
       <2>13, <2>14, <2>15 DEF Acquire, Run
<1>3. QED
  BY <1>1, <1>2

(* The in-memory repository implements the abstract one: every method      *)
(* takes effect atomically between its call and its return.                *)
THEOREM Linearizability == Spec => Linearizable
<1>1. Init => Atomic!Init
  BY SameInterface DEF Init, NoRefs, Atomic!Init
<1>2. QED
  BY <1>1, StepsRefine, Invariance, PTL DEF Spec, Linearizable, Atomic!Spec
=============================================================================
