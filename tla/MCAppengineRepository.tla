----------------------- MODULE MCAppengineRepository -----------------------
(* Instances of AppengineRepository for TLC.                               *)
EXTENDS AppengineRepository, TLC

(* The calls that read and write refs, and those that store objects.       *)
RefCalls ==
    {c \in Call :
        \/ c.op = "PutObject" /\ c.id \in ID
        \/ /\ c.op = "UpdateRef"
           /\ c.name \in ValidRef
           /\ c.newID # c.oldID \/ c.newID = ZeroID
        \/ c.op = "GetRef" /\ c.name \in ValidRef
        \/ c.op = "ListRefs"}

(* Every method, with the calls that GetRef and PutObject refuse.          *)
EveryMethod ==
    RefCalls \cup
    {c \in Call :
        \/ c.op \in {"PutObject", "GetRef", "GetHEAD"}
        \/ c.op = "GetObject" /\ c.id \in ID
        \/ c.op = "SetHEAD" /\ c.name # InitHEAD}

Symmetry == Permutations(Proc) \cup Permutations(ID)
=============================================================================
