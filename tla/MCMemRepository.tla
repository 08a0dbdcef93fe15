-------------------------- MODULE MCMemRepository --------------------------
(* Instances of MemRepository for TLC.                                     *)
EXTENDS MemRepository

(* Every call that is refused, and the others save for updates that change *)
(* nothing and for the second name where one is enough.                    *)
Calls ==
    {c \in Call :
        \/ c.op \in {"GetObject", "PutObject", "ListRefs", "GetHEAD"}
        \/ c.op \in {"GetRef", "SetHEAD"} /\ c.name # InitHEAD
        \/ /\ c.op = "UpdateRef"
           /\ c.newID # c.oldID
           /\ c.name \notin ValidRef => c.newID = ZeroID}
=============================================================================
