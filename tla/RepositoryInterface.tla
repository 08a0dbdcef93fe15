------------------------ MODULE RepositoryInterface ------------------------
(***************************************************************************)
(* The data of repository/interface.go that every implementation of        *)
(* repository.Interface shares: IDs, ref names, the calls its methods can  *)
(* receive and the answers they can give.                                  *)
(*                                                                         *)
(* An object is represented by its ID (PutObject stores it under the hash  *)
(* of its contents, and two different objects hashing to one ID is         *)
(* "undefined behavior" in interface.go).                                  *)
(***************************************************************************)
CONSTANTS
    Proc,         \* the goroutines using the repository
    ID,           \* IDs of Git objects
    ZeroID,       \* object.ZeroID, the ID of no object
    Foreign,      \* an object.Interface that is not one of the Git types
    RefName,      \* the strings passed as ref names
    ValidRef,     \* those that satisfy IsValidRef
    InitHEAD,     \* refs/heads/master
    Workload      \* the calls the goroutines may make

ASSUME ConstantsAssumption ==
    /\ ZeroID \notin ID
    /\ Foreign \notin ID \cup {ZeroID}
    /\ ValidRef \subseteq RefName
    /\ InitHEAD \in RefName

AnyID == ID \cup {ZeroID}

-----------------------------------------------------------------------------
(* Calls and answers.                                                      *)

Call ==
    [op : {"GetObject"}, id : AnyID]
    \cup [op : {"PutObject"}, id : ID \cup {Foreign}]
    \cup [op : {"GetRef", "SetHEAD"}, name : RefName]
    \cup [op : {"UpdateRef"}, name : RefName, oldID : AnyID, newID : AnyID]
    \cup [op : {"ListRefs", "GetHEAD"}]

ASSUME WorkloadAssumption == Workload \subseteq Call

Idle == [op |-> "none"]

ErrorName ==
    {"ErrInvalidRef", "ErrRefMismatch", "ErrRefExist", "ErrRefNotExist",
     "ErrObjectNotExist", "TypeError", "BackendError"}

RefList == UNION {[names -> ID] : names \in SUBSET ValidRef}

Ok(val)   == [err |-> "nil", val |-> val]
Done      == Ok(ZeroID)   \* of a method that returns a nil error only
Error(e)  == [err |-> e]
NoAnswer  == [err |-> "pending"]

Answer ==
    [err : ErrorName]
    \cup [err : {"nil"}, val : AnyID]
    \cup [err : {"nil"}, val : RefName]
    \cup [err : {"nil"}, val : RefList]

(* Why UpdateRef refuses a ref that holds id where the caller expected     *)
(* oldID: the code compares ZeroID with id first and with oldID second.    *)
ConflictError(id, oldID) ==
    CASE id = ZeroID                      -> "ErrRefNotExist"
      [] id # ZeroID /\ oldID = ZeroID    -> "ErrRefExist"
      [] id # ZeroID /\ oldID # ZeroID    -> "ErrRefMismatch"

=============================================================================
