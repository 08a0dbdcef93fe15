----------------------------- MODULE Repository -----------------------------
(***************************************************************************)
(* The abstract repository: what repository/interface.go promises to its   *)
(* callers.  A repository is a set of immutable objects, a partial map     *)
(* from ref names to object IDs and HEAD, and every method of              *)
(* repository.Interface takes effect at one instant between its call and   *)
(* its return.  What a method answers is translated from the methods of    *)
(* repository/mem/mem.go read as atomic blocks; MemRepository models the   *)
(* same methods lock by lock and is shown to implement this module.        *)
(*                                                                         *)
(* As in the code, a ref that does not exist reads as ZeroID, and no ref   *)
(* ever holds ZeroID.                                                      *)
(***************************************************************************)
EXTENDS RepositoryInterface

VARIABLES
    objects,      \* the IDs of the stored objects
    refs,         \* ref name -> ID, ZeroID where there is no such ref
    HEAD,         \* the name HEAD points to
    call,         \* call[p]: the call p has made and not returned from
    ret           \* ret[p]: the answer of that call, once it took effect

vars == <<objects, refs, HEAD, call, ret>>

-----------------------------------------------------------------------------
Listed == {n \in ValidRef : refs[n] # ZeroID}

TypeOK ==
    /\ objects \subseteq ID
    /\ refs \in [ValidRef -> AnyID]
    /\ HEAD \in RefName
    /\ call \in [Proc -> Workload \cup {Idle}]
    /\ ret \in [Proc -> Answer \cup {NoAnswer}]

Init ==
    /\ objects = {}
    /\ refs = [n \in ValidRef |-> ZeroID]
    /\ HEAD = InitHEAD
    /\ call = [p \in Proc |-> Idle]
    /\ ret = [p \in Proc |-> NoAnswer]

Invoke(p) ==
    /\ call[p] = Idle
    /\ \E c \in Workload : call' = [call EXCEPT ![p] = c]
    /\ UNCHANGED <<objects, refs, HEAD, ret>>

Pending(p, op) == call[p].op = op /\ ret[p] = NoAnswer

Reply(p, answer) ==
    /\ ret' = [ret EXCEPT ![p] = answer]
    /\ UNCHANGED call

(* What the methods that write change.                                     *)
StoreObject(p) ==
    /\ call[p].id \in ID
    /\ objects' = objects \cup {call[p].id}
    /\ UNCHANGED <<refs, HEAD>>

MoveRef(p) ==
    /\ call[p].name \in ValidRef
    /\ refs[call[p].name] = call[p].oldID
    /\ call[p].newID \in objects \cup {ZeroID}
    /\ refs' = [refs EXCEPT ![call[p].name] = call[p].newID]
    /\ UNCHANGED <<objects, HEAD>>

MoveHEAD(p) ==
    /\ HEAD' = call[p].name
    /\ UNCHANGED <<objects, refs>>

GetObject(p) ==
    /\ Pending(p, "GetObject")
    /\ Reply(p, IF call[p].id \in objects THEN Ok(call[p].id)
                ELSE Error("ErrObjectNotExist"))
    /\ UNCHANGED <<objects, refs, HEAD>>

PutObject(p) ==
    /\ Pending(p, "PutObject")
    /\ \/ StoreObject(p) /\ Reply(p, Ok(call[p].id))
       \/ /\ call[p].id = Foreign
          /\ Reply(p, Error("TypeError"))
          /\ UNCHANGED <<objects, refs, HEAD>>

GetRef(p) ==
    /\ Pending(p, "GetRef")
    /\ \/ /\ call[p].name \notin ValidRef
          /\ Reply(p, Error("ErrInvalidRef"))
       \/ /\ call[p].name \in ValidRef
          /\ Reply(p, IF refs[call[p].name] = ZeroID
                      THEN Error("ErrRefNotExist")
                      ELSE Ok(refs[call[p].name]))
    /\ UNCHANGED <<objects, refs, HEAD>>

(* UpdateRef fails and changes nothing (where both the ref and the object  *)
(* are wrong, interface.go lets an implementation report either) ...       *)
UpdateRefFails(p) ==
    LET c == call[p] IN
    /\ Pending(p, "UpdateRef")
    /\ \/ /\ c.name \notin ValidRef
          /\ Reply(p, Error("ErrInvalidRef"))
       \/ /\ c.name \in ValidRef
          /\ refs[c.name] # c.oldID
          /\ Reply(p, Error(ConflictError(refs[c.name], c.oldID)))
       \/ /\ c.name \in ValidRef
          /\ c.newID \notin objects \cup {ZeroID}
          /\ Reply(p, Error("ErrObjectNotExist"))
    /\ UNCHANGED <<objects, refs, HEAD>>

(* ... or it moves the ref from oldID to newID, where ZeroID on either     *)
(* side stands for no ref.                                                 *)
UpdateRefSucceeds(p) ==
    /\ Pending(p, "UpdateRef")
    /\ MoveRef(p)
    /\ Reply(p, Done)

ListRefs(p) ==
    /\ Pending(p, "ListRefs")
    /\ Reply(p, Ok([n \in Listed |-> refs[n]]))
    /\ UNCHANGED <<objects, refs, HEAD>>

GetHEAD(p) ==
    /\ Pending(p, "GetHEAD")
    /\ Reply(p, Ok(HEAD))
    /\ UNCHANGED <<objects, refs, HEAD>>

SetHEAD(p) ==
    /\ Pending(p, "SetHEAD")
    /\ MoveHEAD(p)
    /\ Reply(p, Done)

(* Whatever stores the repository may fail a call, and whoever made a call *)
(* that writes does not learn whether it was in vain.                      *)
BackendFails(p) ==
    /\ call[p] # Idle
    /\ ret[p] = NoAnswer
    /\ Reply(p, Error("BackendError"))
    /\ \/ UNCHANGED <<objects, refs, HEAD>>
       \/ Pending(p, "PutObject") /\ StoreObject(p)
       \/ Pending(p, "UpdateRef") /\ MoveRef(p)
       \/ Pending(p, "SetHEAD") /\ MoveHEAD(p)

Return(p) ==
    /\ ret[p] # NoAnswer
    /\ call' = [call EXCEPT ![p] = Idle]
    /\ ret' = [ret EXCEPT ![p] = NoAnswer]
    /\ UNCHANGED <<objects, refs, HEAD>>

Next ==
    \E p \in Proc :
        \/ Invoke(p)
        \/ GetObject(p) \/ PutObject(p)
        \/ GetRef(p) \/ UpdateRefFails(p) \/ UpdateRefSucceeds(p)
        \/ ListRefs(p)
        \/ GetHEAD(p) \/ SetHEAD(p)
        \/ BackendFails(p) \/ Return(p)

Spec == Init /\ [][Next]_vars
=============================================================================
