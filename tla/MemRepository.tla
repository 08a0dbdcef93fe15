--------------------------- MODULE MemRepository ---------------------------
(***************************************************************************)
(* The in-memory repository (repository/mem/mem.go) with its three         *)
(* sync.RWMutex locks.  Every goroutine runs its call step by step; the    *)
(* steps of different goroutines interleave wherever the locks let them.   *)
(*                                                                         *)
(* A goroutine whose pc is                                                 *)
(*   "check"    has called a method and holds nothing;                     *)
(*   "drain"    has announced itself as the writer of a lock and waits for *)
(*              the lock's readers;                                        *)
(*   "body"     holds the lock of its method;                              *)
(*   "list"     is in the second loop of ListRefs;                         *)
(*   "objlock", "objread", "objunlock", "store"                            *)
(*              is in UpdateRef's call of GetObject, which takes           *)
(*              objectsLock while refsLock is held, or about to store;     *)
(*   "release"  is about to run the deferred unlock and return;            *)
(*   "return"   returns without having taken a lock.                       *)
(***************************************************************************)
EXTENDS RepositoryInterface

CONSTANT NoProc

ASSUME NoProcAssumption == NoProc \notin Proc

Lock == {"objectsLock", "refsLock", "HEADLock"}

VARIABLES
    objects, refs, HEAD,     \* the fields of type repo
    readers, writer,         \* readers[l], writer[l]: who has lock l
    call, ret, pc,           \* per goroutine: its call, its answer, its place
    names, acc               \* per goroutine: the locals of ListRefs

store == <<objects, refs, HEAD>>
locks == <<readers, writer>>
locals == <<names, acc>>
vars == <<store, locks, call, ret, pc, locals>>

Label == {"idle", "check", "drain", "body", "list", "objlock", "objread",
          "objunlock", "store", "release", "return"}

NoRefs == [n \in {} |-> ZeroID]

TypeOK ==
    /\ objects \subseteq ID
    /\ refs \in [ValidRef -> AnyID]
    /\ HEAD \in RefName
    /\ readers \in [Lock -> SUBSET Proc]
    /\ writer \in [Lock -> Proc \cup {NoProc}]
    /\ call \in [Proc -> Workload \cup {Idle}]
    /\ ret \in [Proc -> Answer \cup {NoAnswer}]
    /\ pc \in [Proc -> Label]
    /\ names \in [Proc -> SUBSET ValidRef]
    /\ acc \in [Proc -> RefList]

Init ==
    /\ objects = {}
    /\ refs = [n \in ValidRef |-> ZeroID]
    /\ HEAD = InitHEAD
    /\ readers = [l \in Lock |-> {}]
    /\ writer = [l \in Lock |-> NoProc]
    /\ call = [p \in Proc |-> Idle]
    /\ ret = [p \in Proc |-> NoAnswer]
    /\ pc = [p \in Proc |-> "idle"]
    /\ names = [p \in Proc |-> {}]
    /\ acc = [p \in Proc |-> NoRefs]

-----------------------------------------------------------------------------
(* sync.RWMutex.  Lock announces the writer, which shuts out new readers   *)
(* and other writers, and then waits until the present readers are gone.   *)

RLock(p, l) ==
    /\ writer[l] = NoProc
    /\ readers' = [readers EXCEPT ![l] = @ \cup {p}]
    /\ UNCHANGED writer

RUnlock(p, l) ==
    /\ readers' = [readers EXCEPT ![l] = @ \ {p}]
    /\ UNCHANGED writer

Announce(p, l) ==
    /\ writer[l] = NoProc
    /\ writer' = [writer EXCEPT ![l] = p]
    /\ UNCHANGED readers

Unlock(p, l) ==
    /\ writer' = [writer EXCEPT ![l] = NoProc]
    /\ UNCHANGED readers

(* ListRefs taking the lock of another field.                              *)
LockOfWrongField(op) ==
    CASE op \in {"GetObject", "PutObject"}            -> "objectsLock"
      [] op \in {"GetRef", "UpdateRef"}               -> "refsLock"
      [] op \in {"GetHEAD", "SetHEAD", "ListRefs"}    -> "HEADLock"

(* UpdateRef taking refsLock with RLock.                                   *)
WritesNotUpdateRef(op) == op \in {"PutObject", "SetHEAD"}

(* The lock a method takes first, and whether it takes it to write.        *)
LockOf(op) ==
    CASE op \in {"GetObject", "PutObject"}            -> "objectsLock"
      [] op \in {"GetRef", "UpdateRef", "ListRefs"}   -> "refsLock"
      [] op \in {"GetHEAD", "SetHEAD"}                -> "HEADLock"

Writes(op) == op \in {"PutObject", "UpdateRef", "SetHEAD"}

-----------------------------------------------------------------------------
At(p, label) == pc[p] = label

Goto(p, label) == pc' = [pc EXCEPT ![p] = label]

Reply(p, answer) == ret' = [ret EXCEPT ![p] = answer]

Invoke(p) ==
    /\ At(p, "idle")
    /\ \E c \in Workload : call' = [call EXCEPT ![p] = c]
    /\ Goto(p, "check")
    /\ UNCHANGED <<store, locks, ret, locals>>

(* What fails before a lock is taken: GetRef and UpdateRef refuse a        *)
(* malformed name, PutObject refuses what object.Hash cannot marshal.      *)
Refused(c) ==
    \/ c.op \in {"GetRef", "UpdateRef"} /\ c.name \notin ValidRef
    \/ c.op = "PutObject" /\ c.id = Foreign

Refuse(p) ==
    /\ At(p, "check")
    /\ Refused(call[p])
    /\ Reply(p, Error(IF call[p].op = "PutObject" THEN "TypeError"
                      ELSE "ErrInvalidRef"))
    /\ Goto(p, "return")
    /\ UNCHANGED <<store, locks, call, locals>>

AcquireRead(p) ==
    /\ At(p, "check")
    /\ ~ Refused(call[p])
    /\ ~ Writes(call[p].op)
    /\ RLock(p, LockOf(call[p].op))
    /\ Goto(p, "body")
    /\ UNCHANGED <<store, call, ret, locals>>

AcquireWrite(p) ==
    /\ At(p, "check")
    /\ ~ Refused(call[p])
    /\ Writes(call[p].op)
    /\ Announce(p, LockOf(call[p].op))
    /\ Goto(p, "drain")
    /\ UNCHANGED <<store, call, ret, locals>>

Drain(p) ==
    /\ At(p, "drain")
    /\ readers[LockOf(call[p].op)] = {}
    /\ Goto(p, "body")
    /\ UNCHANGED <<store, locks, call, ret, locals>>

-----------------------------------------------------------------------------
(* The bodies of the methods, run under their lock.                        *)

InBody(p, op) == At(p, "body") /\ call[p].op = op

GetObject(p) ==
    /\ InBody(p, "GetObject")
    /\ Reply(p, IF call[p].id \in objects THEN Ok(call[p].id)
                ELSE Error("ErrObjectNotExist"))
    /\ Goto(p, "release")
    /\ UNCHANGED <<store, locks, call, locals>>

PutObject(p) ==
    /\ InBody(p, "PutObject")
    /\ objects' = objects \cup {call[p].id}
    /\ Reply(p, Ok(call[p].id))
    /\ Goto(p, "release")
    /\ UNCHANGED <<refs, HEAD, locks, call, locals>>

GetRef(p) ==
    /\ InBody(p, "GetRef")
    /\ Reply(p, IF refs[call[p].name] = ZeroID THEN Error("ErrRefNotExist")
                ELSE Ok(refs[call[p].name]))
    /\ Goto(p, "release")
    /\ UNCHANGED <<store, locks, call, locals>>

(* UpdateRef waiting for the ref to become oldID.                          *)
UpdateRefConflictAwaited(p) ==
    /\ InBody(p, "UpdateRef")
    /\ refs[call[p].name] # call[p].oldID
    /\ UNCHANGED vars

(* UpdateRef first compares the ref with oldID ...                         *)
UpdateRefConflict(p) ==
    /\ InBody(p, "UpdateRef")
    /\ refs[call[p].name] # call[p].oldID
    /\ Reply(p, Error(ConflictError(refs[call[p].name], call[p].oldID)))
    /\ Goto(p, "release")
    /\ UNCHANGED <<store, locks, call, locals>>

(* ... then deletes it if newID is zero (a no-op if there is none) ...     *)
UpdateRefDelete(p) ==
    /\ InBody(p, "UpdateRef")
    /\ refs[call[p].name] = call[p].oldID
    /\ call[p].newID = ZeroID
    /\ refs' = [refs EXCEPT ![call[p].name] = ZeroID]
    /\ Reply(p, Done)
    /\ Goto(p, "release")
    /\ UNCHANGED <<objects, HEAD, locks, call, locals>>

(* UpdateRef dropping refsLock after its comparison, for GetObject to run. *)
UpdateRefCheckUnlocked(p) ==
    /\ InBody(p, "UpdateRef")
    /\ refs[call[p].name] = call[p].oldID
    /\ call[p].newID # ZeroID
    /\ Goto(p, "objlock")
    /\ Unlock(p, "refsLock")
    /\ UNCHANGED <<store, call, ret, locals>>

(* ... and otherwise looks newID up with r.GetObject, under objectsLock,   *)
(* before it stores it.                                                    *)
UpdateRefCheck(p) ==
    /\ InBody(p, "UpdateRef")
    /\ refs[call[p].name] = call[p].oldID
    /\ call[p].newID # ZeroID
    /\ Goto(p, "objlock")
    /\ UNCHANGED <<store, locks, call, ret, locals>>

ObjectLock(p) ==
    /\ At(p, "objlock")
    /\ RLock(p, "objectsLock")
    /\ Goto(p, "objread")
    /\ UNCHANGED <<store, call, ret, locals>>

(* UpdateRef ignoring the error of GetObject.                              *)
ObjectReadIgnored(p) ==
    /\ At(p, "objread")
    /\ Goto(p, "objunlock")
    /\ UNCHANGED <<store, locks, call, ret, locals>>

ObjectRead(p) ==
    /\ At(p, "objread")
    /\ \/ /\ call[p].newID \in objects
          /\ UNCHANGED ret
       \/ /\ call[p].newID \notin objects
          /\ Reply(p, Error("ErrObjectNotExist"))
    /\ Goto(p, "objunlock")
    /\ UNCHANGED <<store, locks, call, locals>>

ObjectUnlock(p) ==
    /\ At(p, "objunlock")
    /\ RUnlock(p, "objectsLock")
    /\ Goto(p, IF ret[p] = NoAnswer THEN "store" ELSE "release")
    /\ UNCHANGED <<store, call, ret, locals>>

UpdateRefStore(p) ==
    /\ At(p, "store")
    /\ refs' = [refs EXCEPT ![call[p].name] = call[p].newID]
    /\ Reply(p, Done)
    /\ Goto(p, "release")
    /\ UNCHANGED <<objects, HEAD, locks, call, locals>>

(* ListRefs collects the names in one loop over the map and then looks     *)
(* every one of them up again in a second loop (in sorted order, which is  *)
(* one of the orders taken here).                                          *)
ListNames(p) ==
    /\ InBody(p, "ListRefs")
    /\ names' = [names EXCEPT ![p] = {n \in ValidRef : refs[n] # ZeroID}]
    /\ acc' = [acc EXCEPT ![p] = NoRefs]
    /\ Goto(p, "list")
    /\ UNCHANGED <<store, locks, call, ret>>

ListID(p) ==
    /\ At(p, "list")
    /\ \E n \in names[p] \ DOMAIN acc[p] :
          acc' = [acc EXCEPT ![p] =
                    [m \in DOMAIN acc[p] \cup {n} |-> IF m = n THEN refs[n] ELSE acc[p][m]]]
    /\ UNCHANGED <<store, locks, call, ret, pc, names>>

ListDone(p) ==
    /\ At(p, "list")
    /\ DOMAIN acc[p] = names[p]
    /\ Reply(p, Ok(acc[p]))
    /\ Goto(p, "release")
    /\ UNCHANGED <<store, locks, call, locals>>

GetHEAD(p) ==
    /\ InBody(p, "GetHEAD")
    /\ Reply(p, Ok(HEAD))
    /\ Goto(p, "release")
    /\ UNCHANGED <<store, locks, call, locals>>

SetHEAD(p) ==
    /\ InBody(p, "SetHEAD")
    /\ HEAD' = call[p].name
    /\ Reply(p, Done)
    /\ Goto(p, "release")
    /\ UNCHANGED <<objects, refs, locks, call, locals>>

-----------------------------------------------------------------------------
Leave(p) ==
    /\ Goto(p, "idle")
    /\ call' = [call EXCEPT ![p] = Idle]
    /\ Reply(p, NoAnswer)
    /\ names' = [names EXCEPT ![p] = {}]
    /\ acc' = [acc EXCEPT ![p] = NoRefs]
    /\ UNCHANGED store

Release(p) ==
    /\ At(p, "release")
    /\ IF Writes(call[p].op) THEN Unlock(p, LockOf(call[p].op))
       ELSE RUnlock(p, LockOf(call[p].op))
    /\ Leave(p)

Return(p) ==
    /\ At(p, "return")
    /\ Leave(p)
    /\ UNCHANGED locks

Acquire(p) == AcquireRead(p) \/ AcquireWrite(p) \/ ObjectLock(p)

Run(p) ==
    \/ Refuse(p) \/ Drain(p)
    \/ GetObject(p) \/ PutObject(p) \/ GetRef(p)
    \/ UpdateRefConflict(p) \/ UpdateRefDelete(p) \/ UpdateRefCheck(p)
    \/ ObjectRead(p) \/ ObjectUnlock(p) \/ UpdateRefStore(p)
    \/ ListNames(p) \/ ListID(p) \/ ListDone(p)
    \/ GetHEAD(p) \/ SetHEAD(p)
    \/ Release(p) \/ Return(p)

Next == \E p \in Proc : Invoke(p) \/ Acquire(p) \/ Run(p)

Spec == Init /\ [][Next]_vars

(* A goroutine inside a call keeps running, and sync.RWMutex hands itself  *)
(* on to the goroutines that wait for it: an unlock lets in every reader   *)
(* that arrived before it, and a waiting writer is served before readers   *)
(* that come later.  Nobody has to make a call.                            *)
Fairness == \A p \in Proc : WF_vars(Run(p)) /\ SF_vars(Acquire(p))

FairSpec == Spec /\ Fairness

-----------------------------------------------------------------------------
(* The inductive invariant.                                                *)

InsideLock ==
    {"body", "list", "objlock", "objread", "objunlock", "store", "release"}

(* Where a goroutine is agrees with the call it is in.                     *)
PlacesMatchCalls ==
    \A p \in Proc :
        /\ pc[p] = "idle" <=> call[p] = Idle
        /\ pc[p] \in {"objlock", "objread", "objunlock", "store"} =>
              call[p].op = "UpdateRef"
        /\ pc[p] = "list" => call[p].op = "ListRefs"
        /\ pc[p] = "drain" => Writes(call[p].op)
        /\ pc[p] \in InsideLock \cup {"drain"} => ~ Refused(call[p])

(* Who holds which lock, and no writer runs beside a reader.               *)
LocksHeld ==
    \A p \in Proc, l \in Lock :
        /\ p \in readers[l] <=>
              \/ /\ pc[p] \in InsideLock
                 /\ ~ Writes(call[p].op)
                 /\ l = LockOf(call[p].op)
              \/ pc[p] \in {"objread", "objunlock"} /\ l = "objectsLock"
        /\ writer[l] = p <=>
              /\ pc[p] \in InsideLock \cup {"drain"}
              /\ Writes(call[p].op)
              /\ l = LockOf(call[p].op)
        /\ pc[p] \in InsideLock /\ writer[l] = p => readers[l] = {}

(* A call is answered from the step it takes effect in to its return.      *)
AnswersInTime ==
    \A p \in Proc :
        /\ pc[p] \in {"release", "return"} => ret[p] # NoAnswer
        /\ pc[p] \notin {"release", "return", "objunlock"} => ret[p] = NoAnswer

(* What UpdateRef has established still holds when it acts on it.          *)
UpdatesStillValid ==
    \A p \in Proc :
        /\ pc[p] \in {"objlock", "objread", "objunlock", "store"} =>
              refs[call[p].name] = call[p].oldID /\ call[p].newID # ZeroID
        /\ \/ pc[p] = "store"
           \/ pc[p] = "objunlock" /\ ret[p] = NoAnswer
           => call[p].newID \in objects

(* What ListRefs has collected is a part of the present refs.              *)
ListsStillValid ==
    \A p \in Proc :
        pc[p] = "list" =>
            /\ names[p] = {n \in ValidRef : refs[n] # ZeroID}
            /\ DOMAIN acc[p] \subseteq names[p]
            /\ \A n \in DOMAIN acc[p] : acc[p][n] = refs[n]

(* No ref ever points at an object that the repository does not hold,      *)
(* whatever updates and uploads run at the same time (UpdateRef looks the  *)
(* object up in one critical section and stores the ref in another).       *)
RefsResolve == \A n \in ValidRef : refs[n] \in objects \cup {ZeroID}

(* All that the goroutines rely on while they run inside the locks: what   *)
(* UpdateRef compared and looked up, and what ListRefs listed, is still    *)
(* true when they act on it.                                               *)
Inv ==
    /\ TypeOK
    /\ PlacesMatchCalls
    /\ LocksHeld
    /\ AnswersInTime
    /\ UpdatesStillValid
    /\ ListsStillValid
    /\ RefsResolve

-----------------------------------------------------------------------------
(* Properties.                                                             *)

Atomic == INSTANCE Repository

(* Every method of the in-memory repository takes effect atomically: each  *)
(* behaviour of the locked implementation is one of the abstract           *)
(* repository.                                                             *)
Linearizable == Atomic!Spec

EveryMoveIsAskedFor ==
    \A n \in ValidRef :
        refs'[n] # refs[n] =>
            \E p \in Proc : /\ call[p].op = "UpdateRef"
                            /\ call[p].name = n
                            /\ call[p].oldID = refs[n]
                            /\ call[p].newID = refs'[n]

(* A ref moves only on behalf of an UpdateRef that named its present value *)
(* as oldID, and moves to the newID of that call: two updates that started *)
(* from the same value can never both succeed.                             *)
RefsMoveByCompareAndSwap == [][EveryMoveIsAskedFor]_vars

(* Every call returns: the locks are always released, UpdateRef's nested   *)
(* objectsLock inside refsLock never closes a cycle, and no goroutine is   *)
(* shut out for ever.                                                      *)
CallsReturn == \A p \in Proc : call[p] # Idle ~> call[p] = Idle
=============================================================================
