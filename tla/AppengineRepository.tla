------------------------ MODULE AppengineRepository ------------------------
(***************************************************************************)
(* The App Engine repository (repository/appengine): a datastore, which is *)
(* the truth, and a memcache in front of it, which every instance of the   *)
(* application shares.  Each step of a goroutine is one remote call and    *)
(* the computation up to the next one.                                     *)
(*                                                                         *)
(* HEAD is the entity of the root key, and every ref a child of it, so     *)
(* they are one entity group: a transaction that has used the group        *)
(* commits only if no other write to the group came in between.            *)
(*                                                                         *)
(* A goroutine whose pc is                                                 *)
(*   "get", "load", "fill"   is in repo.get of a ref or of HEAD: memcache, *)
(*              datastore, and memcache again;                             *)
(*   "getobject", "loadobject", "fillobject"                               *)
(*              is in the same three places of GetObject;                  *)
(*   "put", "cache"          is in repo.put;                               *)
(*   "uncache", "del"        is in repo.del;                               *)
(*   "commit"   is at the end of UpdateRef's transaction.                  *)
(***************************************************************************)
EXTENDS RepositoryInterface, Naturals

CONSTANTS
    Root,         \* the key of HEAD; a ref's key is its name
    Miss,         \* what memcache holds for a key it does not hold
    Cached,       \* whether memcache keeps anything at all
    MaxAttempts   \* how often the datastore tries a transaction

ASSUME AppengineAssumption ==
    /\ Root \notin RefName
    /\ Miss \notin AnyID \cup RefName
    /\ Cached \in BOOLEAN
    /\ MaxAttempts \in Nat \ {0}
    /\ \A c \in Workload : c.op = "UpdateRef" => c.name \in ValidRef

Key == ValidRef \cup {Root}

Value == AnyID \cup RefName

VARIABLES
    objects,      \* datastore: the IDs of the stored objects
    entity,       \* datastore: the value at each key, ZeroID for no entity
    memObjects,   \* memcache: the objects it holds
    memcache,     \* memcache: what it holds for each key
    call, ret, pc,
    val,          \* val[p]: the value that get loaded
    tx,           \* tx[p]: the state of p's transaction
    attempt       \* attempt[p]: how often it was begun

datastore == <<objects, entity>>
caches == <<memObjects, memcache>>
vars == <<datastore, caches, call, ret, pc, val, tx, attempt>>

Label ==
    {"idle", "get", "load", "fill", "getobject", "loadobject", "fillobject",
     "putobject", "query", "put", "cache", "uncache", "del", "commit", "return"}

(* A transaction is open until it uses the entity group, clean as long as  *)
(* no one else writes to the group after that, and then stale.             *)
TxState == {"none", "open", "clean", "stale"}

TypeOK ==
    /\ objects \subseteq ID
    /\ entity \in [Key -> Value]
    /\ memObjects \subseteq ID
    /\ memcache \in [Key -> Value \cup {Miss}]
    /\ call \in [Proc -> Workload \cup {Idle}]
    /\ ret \in [Proc -> Answer \cup {NoAnswer}]
    /\ pc \in [Proc -> Label]
    /\ val \in [Proc -> Value]
    /\ tx \in [Proc -> TxState]
    /\ attempt \in [Proc -> 0..MaxAttempts]

Init ==
    /\ objects = {}
    /\ entity = [k \in Key |-> IF k = Root THEN InitHEAD ELSE ZeroID]
    /\ memObjects = {}
    /\ memcache = [k \in Key |-> Miss]
    /\ call = [p \in Proc |-> Idle]
    /\ ret = [p \in Proc |-> NoAnswer]
    /\ pc = [p \in Proc |-> "idle"]
    /\ val = [p \in Proc |-> ZeroID]
    /\ tx = [p \in Proc |-> "none"]
    /\ attempt = [p \in Proc |-> 0]

-----------------------------------------------------------------------------
(* The datastore and memcache.                                             *)

(* A set that fails leaves what was there; the code ignores its error.     *)
CacheSet(k, v) ==
    memcache' \in IF Cached THEN {memcache, [memcache EXCEPT ![k] = v]} ELSE {memcache}

CacheSetObject(id) ==
    memObjects' \in IF Cached THEN {memObjects, memObjects \cup {id}} ELSE {memObjects}

(* p's transaction uses the entity group.                                  *)
Used(p) == IF tx[p] = "open" THEN "clean" ELSE tx[p]

UseGroup(p) == tx' = [tx EXCEPT ![p] = Used(p)]

(* A write to the entity group makes the transactions that use it stale.   *)
WriteGroup(p, k, v) ==
    /\ entity' = [entity EXCEPT ![k] = v]
    /\ tx' = [q \in Proc |-> IF q = p THEN "none"
                             ELSE IF tx[q] = "clean" THEN "stale" ELSE tx[q]]

-----------------------------------------------------------------------------
At(p, label) == pc[p] = label

Goto(p, label) == pc' = [pc EXCEPT ![p] = label]

Reply(p, answer) == ret' = [ret EXCEPT ![p] = answer]

KeyOf(c) == IF c.op \in {"GetHEAD", "SetHEAD"} THEN Root ELSE c.name

ObjectOf(c) == IF c.op = "UpdateRef" THEN c.newID ELSE c.id

First(c) ==
    CASE c.op \in {"GetRef", "GetHEAD", "UpdateRef"} -> "get"
      [] c.op = "GetObject"                          -> "getobject"
      [] c.op = "PutObject"                          -> "putobject"
      [] c.op = "ListRefs"                           -> "query"
      [] c.op = "SetHEAD"                            -> "put"

(* What a call answers once get has returned v, if it answers then.        *)
Outcome(c, v) ==
    CASE c.op = "GetRef"    -> IF v = ZeroID THEN Error("ErrRefNotExist") ELSE Ok(v)
      [] c.op = "GetHEAD"   -> Ok(v)
      [] c.op = "UpdateRef" -> IF v # c.oldID THEN Error(ConflictError(v, c.oldID))
                               ELSE IF v = c.newID /\ v = ZeroID THEN Done
                               ELSE NoAnswer

(* UpdateRef of no ref to no ref: its transaction writes nothing.          *)
WritesNothing(c) == c.op = "UpdateRef" /\ c.oldID = ZeroID /\ c.newID = ZeroID

(* (A transaction that has written nothing can fail to commit as well.)    *)
Got(p, v) ==
    \/ /\ Reply(p, Outcome(call[p], v))
       /\ Goto(p, IF Outcome(call[p], v) # NoAnswer THEN "return"
                  ELSE IF call[p].newID = ZeroID THEN "uncache" ELSE "getobject")
    \/ /\ WritesNothing(call[p])
       /\ v = ZeroID
       /\ Goto(p, "commit")
       /\ UNCHANGED ret

(* (As it would be if the attempts of a transaction were not counted.)     *)
BeginUncounted(p) ==
    /\ tx' = [tx EXCEPT ![p] = "open"]
    /\ attempt' = [attempt EXCEPT ![p] = 1]

Begin(p) ==
    /\ tx' = [tx EXCEPT ![p] = "open"]
    /\ attempt' = [attempt EXCEPT ![p] = @ + 1]

Invoke(p) ==
    /\ At(p, "idle")
    /\ \E c \in Workload :
          /\ call' = [call EXCEPT ![p] = c]
          /\ Goto(p, First(c))
          /\ IF c.op = "UpdateRef" THEN Begin(p) ELSE UNCHANGED <<tx, attempt>>
    /\ UNCHANGED <<datastore, caches, ret, val>>

(* GetRef and UpdateRef make the key of a ref with refKey; UpdateRef drops *)
(* its error, and is only called with valid names here.                    *)
RefuseName(p) ==
    /\ At(p, "get")
    /\ KeyOf(call[p]) \notin Key
    /\ Reply(p, Error("ErrInvalidRef"))
    /\ Goto(p, "return")
    /\ UNCHANGED <<datastore, caches, call, val, tx, attempt>>

(* repo.get, inside UpdateRef's transaction as well as outside.            *)
LookUp(p) ==
    LET k == KeyOf(call[p]) IN
    /\ At(p, "get")
    /\ k \in Key
    /\ \/ /\ memcache[k] # Miss
          /\ Got(p, memcache[k])
       \/ /\ memcache[k] = Miss
          /\ Goto(p, "load")
          /\ UNCHANGED ret
    /\ UNCHANGED <<datastore, caches, call, val, tx, attempt>>

Load(p) ==
    LET v == entity[KeyOf(call[p])] IN
    /\ At(p, "load")
    /\ UseGroup(p)
    /\ \/ /\ v = ZeroID
          /\ Got(p, v)
          /\ UNCHANGED val
       \/ /\ v # ZeroID
          /\ val' = [val EXCEPT ![p] = v]
          /\ Goto(p, "fill")
          /\ UNCHANGED ret
    /\ UNCHANGED <<datastore, caches, call, attempt>>

Fill(p) ==
    /\ At(p, "fill")
    /\ CacheSet(KeyOf(call[p]), val[p])
    /\ Got(p, val[p])
    /\ UNCHANGED <<datastore, memObjects, call, val, tx, attempt>>

(* GetObject, called by itself or by UpdateRef.                            *)
Found(p) ==
    IF call[p].op = "UpdateRef" THEN Goto(p, "put") /\ UNCHANGED ret
    ELSE Goto(p, "return") /\ Reply(p, Ok(ObjectOf(call[p])))

LookUpObject(p) ==
    /\ At(p, "getobject")
    /\ \/ ObjectOf(call[p]) \in memObjects /\ Found(p)
       \/ ObjectOf(call[p]) \notin memObjects /\ Goto(p, "loadobject") /\ UNCHANGED ret
    /\ UNCHANGED <<datastore, caches, call, val, tx, attempt>>

(* getObject asks for the object under one type after the other; only one  *)
(* of these keys can hold it.                                              *)
LoadObject(p) ==
    /\ At(p, "loadobject")
    /\ \/ /\ ObjectOf(call[p]) \in objects
          /\ Goto(p, "fillobject")
          /\ UNCHANGED ret
       \/ /\ ObjectOf(call[p]) \notin objects
          /\ Goto(p, "return")
          /\ Reply(p, Error("ErrObjectNotExist"))
    /\ UNCHANGED <<datastore, caches, call, val, tx, attempt>>

FillObject(p) ==
    /\ At(p, "fillobject")
    /\ CacheSetObject(ObjectOf(call[p]))
    /\ Found(p)
    /\ UNCHANGED <<datastore, memcache, call, val, tx, attempt>>

(* (As it would be if a failing datastore.Put were ignored.)               *)
PutObjectUnstored(p) ==
    /\ At(p, "putobject")
    /\ Goto(p, "fillobject")
    /\ UNCHANGED <<datastore, caches, call, ret, val, tx, attempt>>

PutObject(p) ==
    /\ At(p, "putobject")
    /\ \/ /\ call[p].id \in ID
          /\ objects' = objects \cup {call[p].id}
          /\ Goto(p, "fillobject")
          /\ UNCHANGED ret
       \/ /\ call[p].id = Foreign
          /\ Reply(p, Error("TypeError"))
          /\ Goto(p, "return")
          /\ UNCHANGED objects
    /\ UNCHANGED <<entity, caches, call, val, tx, attempt>>

(* ListRefs is an ancestor query of the datastore.                         *)
ListRefs(p) ==
    /\ At(p, "query")
    /\ Reply(p, Ok([n \in {m \in ValidRef : entity[m] # ZeroID} |-> entity[n]]))
    /\ Goto(p, "return")
    /\ UNCHANGED <<datastore, caches, call, val, tx, attempt>>

(* (As it would be if UpdateRef wrote with r and not with tr.)              *)
PutOutsideTransaction(p) ==
    /\ At(p, "put")
    /\ IF call[p].op = "SetHEAD" THEN WriteGroup(p, Root, call[p].name)
       ELSE /\ entity' = [entity EXCEPT ![call[p].name] = call[p].newID]
            /\ UseGroup(p)
    /\ Goto(p, "cache")
    /\ UNCHANGED <<objects, caches, call, ret, val, attempt>>

(* repo.put: SetHEAD's write takes effect at once, UpdateRef's is kept for *)
(* the commit.  Both set memcache right away.                              *)
Put(p) ==
    /\ At(p, "put")
    /\ \/ /\ call[p].op = "SetHEAD"
          /\ WriteGroup(p, Root, call[p].name)
       \/ /\ call[p].op = "UpdateRef"
          /\ UseGroup(p)
          /\ UNCHANGED entity
    /\ Goto(p, "cache")
    /\ UNCHANGED <<objects, caches, call, ret, val, attempt>>

Cache(p) ==
    /\ At(p, "cache")
    /\ \/ /\ call[p].op = "SetHEAD"
          /\ CacheSet(Root, call[p].name)
          /\ Reply(p, Done)
          /\ Goto(p, "return")
       \/ /\ call[p].op = "UpdateRef"
          /\ CacheSet(call[p].name, call[p].newID)
          /\ Goto(p, "commit")
          /\ UNCHANGED ret
    /\ UNCHANGED <<datastore, memObjects, call, val, tx, attempt>>

(* repo.del, which ignores a failure of memcache.Delete.                   *)
Uncache(p) ==
    /\ At(p, "uncache")
    /\ CacheSet(call[p].name, Miss)
    /\ Goto(p, "del")
    /\ UNCHANGED <<datastore, memObjects, call, ret, val, tx, attempt>>

Del(p) ==
    /\ At(p, "del")
    /\ UseGroup(p)
    /\ Goto(p, "commit")
    /\ UNCHANGED <<datastore, caches, call, ret, val, attempt>>

(* The end of RunInTransaction: the write goes through ...                 *)
Commit(p) ==
    /\ At(p, "commit")
    /\ ~ WritesNothing(call[p])
    /\ tx[p] = "clean"
    /\ WriteGroup(p, call[p].name, call[p].newID)
    /\ Reply(p, Done)
    /\ Goto(p, "return")
    /\ UNCHANGED <<objects, caches, call, val, attempt>>

(* (As it would be if a transaction were tried without end.)               *)
RetryForever(p) ==
    /\ At(p, "commit")
    /\ Begin(p)
    /\ Goto(p, "get")
    /\ UNCHANGED <<datastore, caches, call, ret, val>>

(* ... or the transaction has met another one (over the refs, or over the  *)
(* object it read) and is tried again ...                                  *)
Retry(p) ==
    /\ At(p, "commit")
    /\ attempt[p] < MaxAttempts
    /\ Begin(p)
    /\ Goto(p, "get")
    /\ UNCHANGED <<datastore, caches, call, ret, val>>

(* ... for the last time.                                                  *)
GiveUp(p) ==
    /\ At(p, "commit")
    /\ attempt[p] = MaxAttempts
    /\ Reply(p, Error("BackendError"))
    /\ Goto(p, "return")
    /\ UNCHANGED <<datastore, caches, call, val, tx, attempt>>

(* The datastore reports that a write has failed which it has made.        *)
Unsure(p) ==
    /\ \/ /\ At(p, "putobject")
          /\ call[p].id \in ID
          /\ objects' = objects \cup {call[p].id}
          /\ UNCHANGED <<entity, tx>>
       \/ /\ At(p, "put")
          /\ call[p].op = "SetHEAD"
          /\ WriteGroup(p, Root, call[p].name)
          /\ UNCHANGED objects
       \/ /\ At(p, "commit")
          /\ ~ WritesNothing(call[p])
          /\ tx[p] = "clean"
          /\ WriteGroup(p, call[p].name, call[p].newID)
          /\ UNCHANGED objects
    /\ Reply(p, Error("BackendError"))
    /\ Goto(p, "return")
    /\ UNCHANGED <<caches, call, val, attempt>>

(* A remote call fails, and with it the method, save for sets and deletes  *)
(* of memcache.                                                            *)
Unavailable(p) ==
    /\ pc[p] \in {"get", "load", "getobject", "loadobject", "putobject", "query",
                  "put", "del", "commit"}
    /\ pc[p] = "get" => KeyOf(call[p]) \in Key
    /\ Reply(p, Error("BackendError"))
    /\ Goto(p, "return")
    /\ UNCHANGED <<datastore, caches, call, val, tx, attempt>>

Return(p) ==
    /\ At(p, "return")
    /\ Goto(p, "idle")
    /\ call' = [call EXCEPT ![p] = Idle]
    /\ Reply(p, NoAnswer)
    /\ val' = [val EXCEPT ![p] = ZeroID]
    /\ tx' = [tx EXCEPT ![p] = "none"]
    /\ attempt' = [attempt EXCEPT ![p] = 0]
    /\ UNCHANGED <<datastore, caches>>

(* Memcache drops an item whenever it likes.                               *)
Evict ==
    /\ \/ \E id \in memObjects : memObjects' = memObjects \ {id} /\ UNCHANGED memcache
       \/ \E k \in Key : /\ memcache[k] # Miss
                         /\ memcache' = [memcache EXCEPT ![k] = Miss]
                         /\ UNCHANGED memObjects
    /\ UNCHANGED <<datastore, call, ret, pc, val, tx, attempt>>

Run(p) ==
    \/ RefuseName(p) \/ LookUp(p) \/ Load(p) \/ Fill(p)
    \/ LookUpObject(p) \/ LoadObject(p) \/ FillObject(p) \/ PutObject(p)
    \/ ListRefs(p) \/ Put(p) \/ Cache(p) \/ Uncache(p) \/ Del(p)
    \/ Commit(p) \/ Retry(p) \/ GiveUp(p) \/ Unsure(p) \/ Unavailable(p) \/ Return(p)

Next == Evict \/ \E p \in Proc : Invoke(p) \/ Run(p)

Spec == Init /\ [][Next]_vars

(* A method that has been called goes on: its remote calls return, with an *)
(* error if need be.                                                       *)
FairSpec == Spec /\ \A p \in Proc : WF_vars(Run(p))

-----------------------------------------------------------------------------
(* Properties.                                                             *)

(* The answer that a call has, or is bound to give once it has taken       *)
(* effect.                                                                 *)
BoundTo(place, c, v) ==
    IF place = "fill" THEN Outcome(c, v)
    ELSE IF place = "fillobject" /\ c.op # "UpdateRef" THEN Ok(c.id)
    ELSE IF place = "cache" /\ c.op = "SetHEAD" THEN Done
    ELSE NoAnswer

Answered(p) ==
    IF ret[p] # NoAnswer THEN ret[p] ELSE BoundTo(pc[p], call[p], val[p])

Atomic ==
    INSTANCE Repository WITH
        refs <- [n \in ValidRef |-> entity[n]],
        HEAD <- entity[Root],
        ret <- [p \in Proc |-> Answered(p)]

(* The datastore by itself makes every method atomic: UpdateRef's          *)
(* transaction, its retries and the single calls of the other methods      *)
(* implement the abstract repository.                                      *)
Linearizable == Atomic!Spec

(* No ref in the datastore or in memcache points at an object that the     *)
(* datastore does not hold, and memcache holds no object that it lacks:    *)
(* what UpdateRef found in memcache it can rely on.                        *)
RefsResolve ==
    /\ memObjects \subseteq objects
    /\ \A n \in ValidRef : entity[n] \in objects \cup {ZeroID}
    /\ \A n \in ValidRef : memcache[n] \in objects \cup {Miss}

EveryMoveIsAskedFor ==
    \A n \in ValidRef :
        entity'[n] # entity[n] =>
            \E p \in Proc : /\ call[p].op = "UpdateRef"
                            /\ call[p].name = n
                            /\ call[p].oldID = entity[n]
                            /\ call[p].newID = entity'[n]

(* "UpdateRef atomically changes the named ref to point from oldID to      *)
(* newID.  It is an error if [...] the ref does not point at oldID at the  *)
(* time of the call": a ref of the datastore moves only from the oldID of  *)
(* an UpdateRef to its newID.                                              *)
RefsMoveByCompareAndSwap == [][EveryMoveIsAskedFor]_vars

(* Every call returns: UpdateRef's retries come to an end.                 *)
CallsReturn == \A p \in Proc : call[p] # Idle ~> call[p] = Idle
=============================================================================
